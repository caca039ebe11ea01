------------------------------ MODULE Allocator -----------------------------
(***************************************************************************)
(* lab02/zad1: a library that hands out the blocks of one buffer.  Empty   *)
(* blocks are the nodes of a search tree ordered by size, reserved ones a  *)
(* list ordered by address.  When no empty block is found, the tree is     *)
(* built again from the gaps between the reserved blocks.                  *)
(*                                                                         *)
(* A tree is the sequence of its nodes in an order in which bst_add_node   *)
(* builds it; such an order is all that the shape of the tree depends on.  *)
(* Addresses are in bytes from buffer_address, and malloc() does not fail. *)
(***************************************************************************)
EXTENDS Integers, SequencesExt

CONSTANTS
  BLOCK_SIZE,
  QUANTITIES,           \* the sizes of buffer asked for, in blocks
  STRATEGIES            \* of "MIN_ALLOC_STRATEGY", "MAX_ALLOC_STRATEGY"

ASSUME AllocatorAssumption ==
  /\ BLOCK_SIZE \in Nat \ {0} /\ QUANTITIES \subseteq Nat \ {0}
  /\ STRATEGIES \subseteq {"MIN_ALLOC_STRATEGY", "MAX_ALLOC_STRATEGY"}

VARIABLES
  strategy,             \* the one the library is compiled with
  status,               \* "off", "on"; "crashed": a pointer to no block was used
  block_quantity,
  empty_blocks_bst,     \* blocks [address, quantity]
  parent_set,           \* whether the root's parent has been written
  reserved_blocks_list,
  error,                \* history: "Memory defragmenting error occured."
  overrun               \* history: memory in use was put into the tree

blocks == <<empty_blocks_bst, parent_set, reserved_blocks_list>>
vars   == <<strategy, status, block_quantity, blocks, error, overrun>>

Block(address, quantity) == [address |-> address, quantity |-> quantity]
End(b)     == b.address + b.quantity * BLOCK_SIZE
buffer_end == block_quantity * BLOCK_SIZE

-----------------------------------------------------------------------------
\* The tree: smaller blocks go to the left, equal ones to the right.

bst_add_node(bst, b) == Append(bst, b)

\* The nodes below node k: no node added before k sends them another way.
Below(bst, k) ==
  {j \in k + 1 .. Len(bst) :
     \A i \in 1 .. k - 1 :
       bst[j].quantity < bst[i].quantity <=> bst[k].quantity < bst[i].quantity}

Left(bst, k)  == {j \in Below(bst, k) : bst[j].quantity < bst[k].quantity}
Right(bst, k) == Below(bst, k) \ Left(bst, k)

Minimum(bst, nodes) ==
  CHOOSE k \in nodes : \A j \in nodes :
    bst[k].quantity < bst[j].quantity \/ (bst[k].quantity = bst[j].quantity /\ k <= j)

\* Slip: the node itself is kept instead of its successor.
bst_delete_nodeWrong(bst, k) ==
  IF Left(bst, k) = {} \/ Right(bst, k) = {} THEN RemoveAt(bst, k)
  ELSE RemoveAt(bst, Minimum(bst, Right(bst, k)))

\* A node with two children is replaced by the minimum of the right ones.
bst_delete_node(bst, k) ==
  IF Left(bst, k) = {} \/ Right(bst, k) = {} THEN RemoveAt(bst, k)
  ELSE LET minimum == Minimum(bst, Right(bst, k))
       IN  RemoveAt([bst EXCEPT ![k] = bst[minimum]], minimum)

\* The nodes that only left, or only right, turns lead to.
LeftSpine(bst) ==
  {k \in DOMAIN bst : \A j \in 1 .. k - 1 : bst[k].quantity < bst[j].quantity}
RightSpine(bst) ==
  {k \in DOMAIN bst : \A j \in 1 .. k - 1 : bst[k].quantity >= bst[j].quantity}

\* The walk goes left until a node is too small, and never right; 0 for NULL.
bst_find_min_node(bst, quantity) ==
  Max({0} \cup {k \in LeftSpine(bst) : bst[k].quantity >= quantity})

bst_find_max_node(bst, quantity) ==
  LET k == Max({0} \cup RightSpine(bst))
  IN  IF k # 0 /\ bst[k].quantity >= quantity THEN k ELSE 0

Find(bst, quantity) ==
  IF strategy = "MIN_ALLOC_STRATEGY" THEN bst_find_min_node(bst, quantity)
  ELSE bst_find_max_node(bst, quantity)

-----------------------------------------------------------------------------
\* The list

\* Before the first block that does not have a lower address.
list_add_node(list, b) ==
  LET place == Min({Len(list) + 1} \cup {k \in DOMAIN list : list[k].address >= b.address})
  IN  InsertAt(list, place, b)

list_delete_node(list, k) == RemoveAt(list, k)

-----------------------------------------------------------------------------

mem_init(n) ==
  /\ status' = "on" /\ block_quantity' = n
  /\ empty_blocks_bst' = <<Block(0, n)>> /\ reserved_blocks_list' = <<>>
  /\ parent_set' = FALSE /\ error' = FALSE /\ overrun' = FALSE
  /\ UNCHANGED strategy

mem_finish ==
  /\ status = "on" /\ status' = "off" /\ block_quantity' = 0
  /\ empty_blocks_bst' = <<>> /\ reserved_blocks_list' = <<>>
  /\ parent_set' = FALSE /\ error' = FALSE /\ overrun' = FALSE
  /\ UNCHANGED strategy

Init ==
  /\ strategy \in STRATEGIES
  /\ status = "off" /\ block_quantity = 0
  /\ empty_blocks_bst = <<>> /\ reserved_blocks_list = <<>>
  /\ parent_set = FALSE /\ error = FALSE /\ overrun = FALSE

\* local_mem_allocate: the node found is split, and the rest put back.  A tree's
\* first node gets no parent, and bst_delete_node reads the parent of a root too:
\* the malloc()ed memory is NULL there, or what becomes of the call is undefined.
\* `set' is what parent_set says of the root of this bst.
Take(bst, set, k, quantity) ==
  LET node  == bst[k]
      taken == Block(node.address, quantity)
      rest  == bst_delete_node(bst, k)
  IN  \/ /\ reserved_blocks_list' = list_add_node(reserved_blocks_list, taken)
         /\ empty_blocks_bst' =
              IF node.quantity > quantity
              THEN bst_add_node(rest, Block(End(taken), node.quantity - quantity))
              ELSE rest
         /\ parent_set' = (rest # <<>> /\ (set \/ k = 1))
         /\ UNCHANGED status
      \/ /\ k = 1 /\ ~set
         /\ status' = "crashed" /\ UNCHANGED blocks

\* local_mem_defragmentation.  The first loop skips the reserved blocks at the
\* buffer's start; if there are no others the tree is left as it is.
Prefix ==
  Max({0} \cup {k \in DOMAIN reserved_blocks_list :
                  \A j \in 1 .. k : reserved_blocks_list[j].address =
                                      IF j = 1 THEN 0 ELSE End(reserved_blocks_list[j - 1])})

begin == IF Prefix = 0 THEN 0 ELSE End(reserved_blocks_list[Prefix])

\* The second loop adds the gap before the next block.  Then `begin' is moved
\* behind that block by its quantity, not by its size in bytes, and `end' is not
\* moved on: the loop over adjacent blocks is never entered, and if there is
\* another block the next round ends with the error.  Behind the last block the
\* tree is given what is left.
Gap     == reserved_blocks_list[Prefix + 1]
GapNode == Block(begin, (Gap.address - begin) \div BLOCK_SIZE)
behind  == Gap.address + Gap.quantity

Skipped == Prefix = Len(reserved_blocks_list)
Broken  == ~Skipped /\ (Gap.address < begin \/ Prefix + 1 < Len(reserved_blocks_list))

Rebuilt ==
  IF Skipped THEN empty_blocks_bst
  ELSE IF Gap.address < begin THEN <<>>
  ELSE IF Broken \/ behind >= buffer_end THEN <<GapNode>>
  ELSE <<GapNode, Block(behind, (buffer_end - behind) \div BLOCK_SIZE)>>

\* The last fragment starts in the block it should start behind.
Overrun == ~Skipped /\ ~Broken /\ behind < buffer_end /\ behind < End(Gap)

\* The call: sizes out of range are refused at once, others rounded up.
mem_allocate(size) ==
  LET quantity == (size + BLOCK_SIZE - 1) \div BLOCK_SIZE
      found    == Find(empty_blocks_bst, quantity)
      again    == Find(Rebuilt, quantity)
  IN  /\ status = "on" /\ size \in 1 .. buffer_end
      /\ UNCHANGED <<strategy, block_quantity>>
      /\ \/ /\ found # 0
            /\ Take(empty_blocks_bst, parent_set, found, quantity)
            /\ UNCHANGED <<error, overrun>>
         \/ \* the first reserved block is read, and there is none
            /\ found = 0 /\ reserved_blocks_list = <<>>
            /\ status' = "crashed" /\ UNCHANGED <<blocks, error, overrun>>
         \/ /\ found = 0 /\ reserved_blocks_list # <<>>
            /\ error' = (error \/ Broken) /\ overrun' = (overrun \/ Overrun)
            /\ IF again # 0 THEN Take(Rebuilt, Skipped /\ parent_set, again, quantity)
               ELSE /\ empty_blocks_bst' = Rebuilt
                    /\ parent_set' = (Skipped /\ parent_set)
                    /\ UNCHANGED <<reserved_blocks_list, status>>

mem_deallocate(address) ==
  /\ status = "on"
  /\ \E k \in DOMAIN reserved_blocks_list :
       /\ reserved_blocks_list[k].address = address
       /\ \A j \in 1 .. k - 1 : reserved_blocks_list[j].address # address
       /\ empty_blocks_bst' = bst_add_node(empty_blocks_bst, reserved_blocks_list[k])
       /\ reserved_blocks_list' = list_delete_node(reserved_blocks_list, k)
  /\ UNCHANGED <<strategy, status, block_quantity, parent_set, error, overrun>>

Next ==
  \/ \E n \in QUANTITIES : status # "crashed" /\ mem_init(n)
  \/ mem_finish
  \/ \E size \in 1 .. buffer_end : mem_allocate(size)
  \/ \E address \in 0 .. buffer_end : mem_deallocate(address)

Spec == Init /\ [][Next]_vars

-----------------------------------------------------------------------------

All      == empty_blocks_bst \o reserved_blocks_list
Bytes(b) == b.address .. End(b) - 1

\* No byte of the buffer is in two blocks, whether they are empty or handed out,
\* and every block is inside the buffer: "creating new empty_blocks_bst"
\* (mem_management.c:185) puts nothing in it that is not empty.
BlocksApart ==
  \A j, k \in DOMAIN All :
    /\ Bytes(All[k]) \subseteq 0 .. buffer_end - 1
    /\ j # k => Bytes(All[j]) \cap Bytes(All[k]) = {}

\* Every byte of the buffer is in exactly one block, whatever was allocated,
\* split, released and collected before, with blocks of any size: memory is lost
\* only when the program has printed its error, and is in two blocks only when a
\* defragmentation has put a part of the last reserved block into the tree, which
\* it cannot do with blocks of one byte.
BufferPartitioned ==
  status = "on" /\ ~overrun =>
    /\ BlocksApart
    /\ ~error => UNION {Bytes(All[k]) : k \in DOMAIN All} = 0 .. buffer_end - 1

\* Bound of the run: what follows an overrun is not searched; nothing is claimed
\* of it until the next mem_init, which leads back to states that are.
Undamaged == ~overrun

=============================================================================
