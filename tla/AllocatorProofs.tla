--------------------------- MODULE AllocatorProofs --------------------------
(***************************************************************************)
(* Proofs about lab02/zad1, for buffers and blocks of any size and both   *)
(* strategies.  Whatever was allocated, split, released and collected      *)
(* before, every byte is in exactly one block, until the program prints    *)
(* its error or a defragmentation puts a part of the last reserved block   *)
(* into the tree (AllocatorBlocks finds one that does).  The last section  *)
(* shows what is left even then: the list of reserved blocks is ordered.   *)
(***************************************************************************)
EXTENDS Allocator, SequenceTheorems, FiniteSetTheorems, WellFoundedInduction, TLAPS

\* The addresses at which a block may begin.
Aligned == {i * BLOCK_SIZE : i \in Nat}

Blocks == [address : Aligned, quantity : Nat \ {0}]

\* The blocks of a list are in the order of their addresses, no two alike.
Sorted(list) == \A j, k \in DOMAIN list : j < k => list[j].address < list[k].address

\* No two of the blocks overlap, and all are in a buffer of n bytes.
Apart(bs)     == \A b, c \in bs : b # c => End(b) <= c.address \/ End(c) <= b.address
Inside(bs, n) == \A b \in bs : End(b) <= n

\* Every byte of the buffer is in one of the blocks.
Covered(bs, n) == \A x \in 0 .. n - 1 : \E b \in bs : b.address <= x /\ x < End(b)

\* A tree and a list that share a buffer of n bytes.
Fit(bst, list, n) ==
  /\ bst \in Seq(Blocks) /\ IsInjective(bst)
  /\ list \in Seq(Blocks) /\ Sorted(list)
  /\ Range(bst) \cap Range(list) = {}
  /\ Apart(Range(bst) \cup Range(list)) /\ Inside(Range(bst) \cup Range(list), n)

\* What every call keeps: nothing is lost until the error is printed, and nothing
\* is given away twice until memory in use is put into the tree.
IInv ==
  /\ strategy \in STRATEGIES /\ status \in {"off", "on", "crashed"}
  /\ block_quantity \in Nat /\ error \in BOOLEAN /\ overrun \in BOOLEAN
  /\ overrun => BLOCK_SIZE > 1
  /\ ~overrun =>
       /\ Fit(empty_blocks_bst, reserved_blocks_list, buffer_end)
       /\ ~error => Covered(Range(empty_blocks_bst) \cup Range(reserved_blocks_list), buffer_end)

-----------------------------------------------------------------------------
\* Least and greatest elements

LEMMA LeastNatural ==
  ASSUME NEW T, T \subseteq Nat, T # {}
  PROVE  \E m \in T : \A k \in T : m <= k
<1> DEFINE Upto == {0 .. n : n \in T}
<1>1. Upto \subseteq FiniteSubsetsOf(Nat) /\ Upto # {}
  <2>1. \A n \in T : n \in Int /\ IsFiniteSet(0 .. n) /\ 0 .. n \subseteq Nat
    BY FS_Interval
  <2> QED
    BY <2>1 DEF FiniteSubsetsOf
<1>2. PICK x \in Upto : \A y \in Upto : ~(<<y, x>> \in StrictSubsetOrdering(Nat))
  <2> HIDE DEF Upto
  <2> QED
    BY <1>1, FS_StrictSubsetOrderingWellFounded, WFMin
<1>3. PICK m \in T : x = 0 .. m
  BY <1>2
<1>4. ASSUME NEW k \in T, k < m PROVE FALSE
  <2>1. 0 .. k \in Upto /\ 0 .. k \subseteq Nat /\ 0 .. m \subseteq Nat
    BY <1>4
  <2>2. 0 .. k \subseteq 0 .. m /\ m \in 0 .. m /\ m \notin 0 .. k
    BY <1>4
  <2>3. <<0 .. k, 0 .. m>> \in StrictSubsetOrdering(Nat)
    BY <2>1, <2>2 DEF StrictSubsetOrdering
  <2> QED
    BY <1>2, <1>3, <2>1, <2>3
<1> QED
  BY <1>4

LEMMA MinOf ==
  ASSUME NEW T, T \subseteq Nat, T # {}
  PROVE  Min(T) \in T /\ \A k \in T : Min(T) <= k
BY LeastNatural DEF Min

LEMMA MaxOf ==
  ASSUME NEW T, T \subseteq Nat, T # {}, NEW n \in Nat, \A k \in T : k <= n
  PROVE  Max(T) \in T /\ \A k \in T : Max(T) >= k
<1> DEFINE D == {n - k : k \in T}
<1>1. D \subseteq Nat /\ D # {}
  <2>1. \A k \in T : n - k \in Nat
    OBVIOUS
  <2> QED
    BY <2>1
<1>2. PICK d \in D : \A e \in D : d <= e
  <2> HIDE DEF D
  <2> QED
    BY <1>1, LeastNatural
<1>3. PICK m \in T : d = n - m
  BY <1>2
<1>4. \A k \in T : m >= k
  <2> SUFFICES ASSUME NEW k \in T PROVE m >= k
    OBVIOUS
  <2>1. d <= n - k
    BY <1>2
  <2> QED
    BY <1>3, <2>1
<1> QED
  BY <1>3, <1>4 DEF Max

-----------------------------------------------------------------------------
\* Sequences with one element less or more

LEMMA Removed ==
  ASSUME NEW X, NEW s \in Seq(X), NEW k \in DOMAIN s
  PROVE  /\ RemoveAt(s, k) \in Seq(X) /\ Len(RemoveAt(s, k)) = Len(s) - 1
         /\ \A j \in 1 .. Len(s) - 1 : RemoveAt(s, k)[j] = IF j < k THEN s[j] ELSE s[j + 1]
<1>1. /\ k \in Int /\ k >= 1 /\ k <= Len(s) /\ Len(s) \in Nat
      /\ \A j \in 1 .. Len(s) : s[j] \in X
  OBVIOUS
<1> DEFINE u == SubSeq(s, 1, k - 1)
           v == SubSeq(s, k + 1, Len(s))
<1>2. u \in Seq(X) /\ Len(u) = k - 1 /\ \A j \in 1 .. k - 1 : u[j] = s[j]
  <2>1. /\ u \in Seq(X) /\ Len(u) = IF 1 <= k - 1 THEN k - 1 - 1 + 1 ELSE 0
        /\ \A j \in 1 .. k - 1 - 1 + 1 : u[j] = s[1 + j - 1]
    BY <1>1, SubSeqProperties
  <2> HIDE DEF u
  <2> QED
    BY <1>1, <2>1
<1>3. v \in Seq(X) /\ Len(v) = Len(s) - k /\ \A j \in 1 .. Len(s) - k : v[j] = s[k + j]
  <2>1. /\ v \in Seq(X) /\ Len(v) = IF k + 1 <= Len(s) THEN Len(s) - (k + 1) + 1 ELSE 0
        /\ \A j \in 1 .. Len(s) - (k + 1) + 1 : v[j] = s[k + 1 + j - 1]
    BY <1>1, SubSeqProperties
  <2> HIDE DEF v
  <2> QED
    BY <1>1, <2>1
<1> HIDE DEF u, v
<1>4. /\ u \o v \in Seq(X) /\ Len(u \o v) = Len(u) + Len(v)
      /\ \A j \in 1 .. Len(u) + Len(v) : (u \o v)[j] = IF j <= Len(u) THEN u[j] ELSE v[j - Len(u)]
  BY <1>2, <1>3, ConcatProperties
<1>5. \A j \in 1 .. Len(s) - 1 : (u \o v)[j] = IF j < k THEN s[j] ELSE s[j + 1]
  <2> SUFFICES ASSUME NEW j \in 1 .. Len(s) - 1
               PROVE  (u \o v)[j] = IF j < k THEN s[j] ELSE s[j + 1]
    OBVIOUS
  <2>0. j \in 1 .. Len(u) + Len(v)
    BY <1>1, <1>2, <1>3
  <2>1. (u \o v)[j] = IF j <= k - 1 THEN u[j] ELSE v[j - (k - 1)]
    BY <1>2, <1>4, <2>0
  <2>2. CASE j < k
    BY <1>1, <1>2, <2>1, <2>2
  <2>3. CASE ~(j < k)
    <3>1. j - (k - 1) \in 1 .. Len(s) - k /\ k + (j - (k - 1)) = j + 1
      BY <1>1, <2>3
    <3>2. v[j - (k - 1)] = s[k + (j - (k - 1))]
      BY <1>3, <3>1
    <3>3. (u \o v)[j] = s[j + 1]
      <4>1. ~(j <= k - 1)
        BY <1>1, <2>3
      <4> QED
        BY <2>1, <3>1, <3>2, <4>1
    <3> QED
      BY <2>3, <3>3
  <2> QED
    BY <2>2, <2>3
<1>6. RemoveAt(s, k) = u \o v
  BY DEF RemoveAt, u, v
<1>7. Len(u \o v) = Len(s) - 1
  BY <1>1, <1>2, <1>3, <1>4
<1> QED
  BY <1>4, <1>5, <1>6, <1>7

\* What is left, each once if no other two were alike.
LEMMA LeftAfterRemoval ==
  ASSUME NEW X, NEW s \in Seq(X), NEW k \in DOMAIN s,
         \A i, j \in DOMAIN s \ {k} : s[i] = s[j] => i = j
  PROVE  /\ RemoveAt(s, k) \in Seq(X) /\ IsInjective(RemoveAt(s, k))
         /\ Range(RemoveAt(s, k)) = {s[j] : j \in DOMAIN s \ {k}}
<1> DEFINE r == RemoveAt(s, k)
           from(j) == IF j < k THEN j ELSE j + 1
<1>1. /\ r \in Seq(X) /\ Len(r) = Len(s) - 1
      /\ \A j \in 1 .. Len(s) - 1 : r[j] = IF j < k THEN s[j] ELSE s[j + 1]
  BY Removed
<1> HIDE DEF r
<1>2. k \in Int /\ k >= 1 /\ k <= Len(s) /\ Len(s) \in Nat /\ DOMAIN s = 1 .. Len(s)
      /\ DOMAIN r = 1 .. Len(s) - 1
  BY <1>1
<1>3. \A j \in DOMAIN r : from(j) \in DOMAIN s \ {k} /\ r[j] = s[from(j)]
  BY <1>1, <1>2
<1>4. \A i, j \in DOMAIN r : from(i) = from(j) => i = j
  BY <1>2
<1>5. \A j \in DOMAIN s \ {k} : \E i \in DOMAIN r : from(i) = j
  <2> SUFFICES ASSUME NEW j \in DOMAIN s \ {k} PROVE \E i \in DOMAIN r : from(i) = j
    OBVIOUS
  <2>1. CASE j < k
    BY <1>2, <2>1
  <2>2. CASE j > k
    <3>1. j - 1 \in DOMAIN r /\ ~(j - 1 < k) /\ j - 1 + 1 = j
      BY <1>2, <2>2
    <3> QED
      BY <3>1
  <2> QED
    BY <1>2, <2>1, <2>2
<1> HIDE DEF from
<1>6. IsInjective(r)
  BY <1>3, <1>4 DEF IsInjective
<1>7. Range(r) = {s[j] : j \in DOMAIN s \ {k}}
  BY <1>3, <1>5 DEF Range
<1> QED
  BY <1>1, <1>6, <1>7 DEF r

LEMMA Inserted ==
  ASSUME NEW X, NEW s \in Seq(X), NEW p \in 1 .. Len(s) + 1, NEW e \in X
  PROVE  /\ InsertAt(s, p, e) \in Seq(X) /\ Len(InsertAt(s, p, e)) = Len(s) + 1
         /\ \A j \in 1 .. Len(s) + 1 :
              InsertAt(s, p, e)[j] = IF j < p THEN s[j] ELSE IF j = p THEN e ELSE s[j - 1]
<1>1. /\ p \in Int /\ p >= 1 /\ p <= Len(s) + 1 /\ Len(s) \in Nat
      /\ \A j \in 1 .. Len(s) : s[j] \in X
  OBVIOUS
<1> DEFINE u == SubSeq(s, 1, p - 1)
           v == SubSeq(s, p, Len(s))
<1>2. u \in Seq(X) /\ Len(u) = p - 1 /\ \A j \in 1 .. p - 1 : u[j] = s[j]
  <2>1. /\ u \in Seq(X) /\ Len(u) = IF 1 <= p - 1 THEN p - 1 - 1 + 1 ELSE 0
        /\ \A j \in 1 .. p - 1 - 1 + 1 : u[j] = s[1 + j - 1]
    BY <1>1, SubSeqProperties
  <2> HIDE DEF u
  <2> QED
    BY <1>1, <2>1
<1>3. /\ v \in Seq(X) /\ Len(v) = Len(s) - p + 1
      /\ \A j \in 1 .. Len(s) - p + 1 : v[j] = s[p + j - 1]
  <2>1. /\ v \in Seq(X) /\ Len(v) = IF p <= Len(s) THEN Len(s) - p + 1 ELSE 0
        /\ \A j \in 1 .. Len(s) - p + 1 : v[j] = s[p + j - 1]
    BY <1>1, SubSeqProperties
  <2> HIDE DEF v
  <2> QED
    BY <1>1, <2>1
<1> HIDE DEF u, v
<1> DEFINE w == u \o <<e>>
<1>4. /\ w \in Seq(X) /\ Len(w) = p /\ w[p] = e
      /\ \A j \in 1 .. p - 1 : w[j] = s[j]
  <2>1. <<e>> \in Seq(X) /\ Len(<<e>>) = 1 /\ <<e>>[1] = e
    OBVIOUS
  <2>2. /\ w \in Seq(X) /\ Len(w) = Len(u) + Len(<<e>>)
        /\ \A j \in 1 .. Len(u) + Len(<<e>>) : w[j] = IF j <= Len(u) THEN u[j] ELSE <<e>>[j - Len(u)]
    BY <1>2, <2>1, ConcatProperties
  <2> HIDE DEF w
  <2> QED
    BY <1>1, <1>2, <2>1, <2>2
<1> HIDE DEF w
<1>5. /\ w \o v \in Seq(X) /\ Len(w \o v) = Len(w) + Len(v)
      /\ \A j \in 1 .. Len(w) + Len(v) : (w \o v)[j] = IF j <= Len(w) THEN w[j] ELSE v[j - Len(w)]
  BY <1>3, <1>4, ConcatProperties
<1>6. \A j \in 1 .. Len(s) + 1 :
        (w \o v)[j] = IF j < p THEN s[j] ELSE IF j = p THEN e ELSE s[j - 1]
  <2> SUFFICES ASSUME NEW j \in 1 .. Len(s) + 1
               PROVE  (w \o v)[j] = IF j < p THEN s[j] ELSE IF j = p THEN e ELSE s[j - 1]
    OBVIOUS
  <2>1. (w \o v)[j] = IF j <= p THEN w[j] ELSE v[j - p]
    BY <1>1, <1>3, <1>4, <1>5
  <2>2. CASE j < p
    <3>1. j \in 1 .. p - 1 /\ j <= p
      BY <1>1, <2>2
    <3>2. (w \o v)[j] = w[j] /\ w[j] = s[j]
      BY <1>4, <2>1, <3>1
    <3> QED
      BY <2>2, <3>2
  <2>4. CASE j = p
    <3>1. j <= p /\ ~(j < p)
      BY <1>1, <2>4
    <3>2. (w \o v)[j] = w[j] /\ w[j] = e
      BY <1>4, <2>1, <2>4, <3>1
    <3> QED
      BY <2>4, <3>1, <3>2
  <2>3. CASE ~(j <= p)
    <3>1. j - p \in 1 .. Len(s) - p + 1 /\ p + (j - p) - 1 = j - 1
      BY <1>1, <2>3
    <3>2. v[j - p] = s[p + (j - p) - 1]
      BY <1>3, <3>1
    <3>3. (w \o v)[j] = s[j - 1]
      BY <2>1, <2>3, <3>1, <3>2
    <3>4. ~(j < p) /\ j # p
      BY <1>1, <2>3
    <3> QED
      BY <3>3, <3>4
  <2>5. j \in Int /\ p \in Int
    BY <1>1
  <2>6. j < p \/ j = p \/ ~(j <= p)
    BY <2>5
  <2> QED
    BY <2>2, <2>3, <2>4, <2>6
<1>7. InsertAt(s, p, e) = w \o v
  BY DEF InsertAt, u, v, w
<1>8. Len(w \o v) = Len(s) + 1
  BY <1>1, <1>3, <1>4, <1>5
<1> QED
  BY <1>5, <1>6, <1>7, <1>8

LEMMA AppendedToOne ==
  ASSUME NEW a, NEW b
  PROVE  Append(<<a>>, b) = <<a, b>>
<1>1. PICK u, v : u = Append(<<a>>, b) /\ v = <<a, b>>
  OBVIOUS
<1>2. v \in Seq({a, b}) /\ Len(v) = 2 /\ v[1] = a /\ v[2] = b
  BY <1>1
<1>3. <<a>> \in Seq({a, b}) /\ Len(<<a>>) = 1 /\ <<a>>[1] = a
  OBVIOUS
<1>4. u \in Seq({a, b}) /\ Len(u) = 2 /\ u[1] = a /\ u[2] = b
  BY <1>1, <1>3, AppendProperties
<1>5. \A j \in 1 .. 2 : u[j] = v[j]
  BY <1>2, <1>4
<1> QED
  BY <1>1, <1>2, <1>4, <1>5, SeqEqual

\* One block more at the end.
LEMMA Appended ==
  ASSUME NEW X, NEW s \in Seq(X), NEW e \in X
  PROVE  /\ Append(s, e) \in Seq(X) /\ Range(Append(s, e)) = Range(s) \cup {e}
         /\ IsInjective(s) /\ e \notin Range(s) => IsInjective(Append(s, e))
<1> DEFINE r == Append(s, e)
<1>1. /\ r \in Seq(X) /\ Len(r) = Len(s) + 1 /\ r[Len(s) + 1] = e
      /\ \A j \in 1 .. Len(s) : r[j] = s[j]
  BY AppendProperties
<1> HIDE DEF r
<1>2. /\ DOMAIN s = 1 .. Len(s) /\ DOMAIN r = 1 .. Len(s) + 1 /\ Len(s) \in Nat
      /\ DOMAIN r = DOMAIN s \cup {Len(s) + 1} /\ Len(s) + 1 \notin DOMAIN s
  BY <1>1
<1>3. Range(r) = Range(s) \cup {e}
  BY <1>1, <1>2 DEF Range
<1>4. IsInjective(s) /\ e \notin Range(s) => IsInjective(r)
  BY <1>1, <1>2 DEF Range, IsInjective
<1> QED
  BY <1>1, <1>3, <1>4 DEF r

-----------------------------------------------------------------------------
\* Blocks in bytes

LEMMA Product ==
  ASSUME NEW i \in Nat
  PROVE  /\ i * BLOCK_SIZE \in Nat /\ i <= i * BLOCK_SIZE
         /\ i # 0 => i * BLOCK_SIZE >= BLOCK_SIZE
<1>1. BLOCK_SIZE \in Nat /\ BLOCK_SIZE > 0
  BY AllocatorAssumption
<1>2. i * BLOCK_SIZE \in Nat
  BY <1>1
<1>3. ASSUME i # 0 PROVE i * BLOCK_SIZE >= BLOCK_SIZE
  <2>1. PICK j \in Nat : i = j + 1
    <3>1. i - 1 \in Nat /\ i = (i - 1) + 1
      BY <1>3
    <3> QED
      BY <3>1
  <2>2. j * BLOCK_SIZE \in Nat
    BY <1>1
  <2>3. i * BLOCK_SIZE = j * BLOCK_SIZE + BLOCK_SIZE
    BY <1>1, <2>1
  <2> QED
    BY <1>1, <2>2, <2>3
<1>4. i <= i * BLOCK_SIZE
  <2>1. PICK c \in Nat : BLOCK_SIZE = c + 1
    <3>1. BLOCK_SIZE - 1 \in Nat /\ BLOCK_SIZE = (BLOCK_SIZE - 1) + 1
      BY <1>1
    <3> QED
      BY <3>1
  <2>2. i * c \in Nat /\ i * BLOCK_SIZE = i * c + i
    BY <2>1
  <2> QED
    BY <2>2
<1> QED
  BY <1>2, <1>3, <1>4

LEMMA Sizes ==
  ASSUME NEW i \in Nat, NEW j \in Nat, i <= j
  PROVE  /\ i * BLOCK_SIZE \in Nat /\ j * BLOCK_SIZE \in Nat /\ (j - i) * BLOCK_SIZE \in Nat
         /\ j * BLOCK_SIZE = i * BLOCK_SIZE + (j - i) * BLOCK_SIZE
<1>1. BLOCK_SIZE \in Nat /\ j - i \in Nat
  BY AllocatorAssumption
<1>2. i * BLOCK_SIZE \in Nat /\ j * BLOCK_SIZE \in Nat /\ (j - i) * BLOCK_SIZE \in Nat
  BY <1>1, Product
<1>3. j * BLOCK_SIZE = i * BLOCK_SIZE + (j - i) * BLOCK_SIZE
  BY <1>1
<1> QED
  BY <1>2, <1>3

LEMMA Multiples ==
  /\ Aligned \subseteq Nat /\ 0 \in Aligned /\ \A i \in Nat : i * BLOCK_SIZE \in Aligned
  /\ \A a \in Aligned, q \in Nat : a + q * BLOCK_SIZE \in Aligned
<1>1. BLOCK_SIZE \in Nat /\ BLOCK_SIZE > 0
  BY AllocatorAssumption
<1>2. Aligned \subseteq Nat
  BY Product DEF Aligned
<1>3. 0 \in Aligned
  <2>1. 0 \in Nat /\ 0 = 0 * BLOCK_SIZE
    BY <1>1
  <2> QED
    BY <2>1 DEF Aligned
<1>4. ASSUME NEW a \in Aligned, NEW q \in Nat PROVE a + q * BLOCK_SIZE \in Aligned
  <2>1. PICK i \in Nat : a = i * BLOCK_SIZE
    BY DEF Aligned
  <2>2. i + q \in Nat /\ a + q * BLOCK_SIZE = (i + q) * BLOCK_SIZE
    BY <1>1, <2>1
  <2> QED
    BY <2>2 DEF Aligned
<1>5. \A i \in Nat : i * BLOCK_SIZE \in Aligned
  BY DEF Aligned
<1> QED
  BY <1>2, <1>3, <1>4, <1>5

\* Between two places where blocks may begin there is room for whole blocks.
LEMMA Between ==
  ASSUME NEW a \in Aligned, NEW c \in Aligned, a < c
  PROVE  /\ (c - a) \div BLOCK_SIZE \in Nat \ {0}
         /\ a + ((c - a) \div BLOCK_SIZE) * BLOCK_SIZE = c
<1>1. BLOCK_SIZE \in Nat /\ BLOCK_SIZE > 0
  BY AllocatorAssumption
<1>2. PICK i \in Nat, j \in Nat : a = i * BLOCK_SIZE /\ c = j * BLOCK_SIZE
  BY DEF Aligned
<1>3. i < j
  <2> SUFFICES ASSUME j <= i PROVE FALSE
    BY <1>2
  <2>1. /\ i * BLOCK_SIZE = j * BLOCK_SIZE + (i - j) * BLOCK_SIZE
        /\ j * BLOCK_SIZE \in Nat /\ (i - j) * BLOCK_SIZE \in Nat
    BY Sizes
  <2> QED
    BY <1>2, <2>1
<1>4. j - i \in Nat \ {0} /\ i <= j
  BY <1>2, <1>3
<1>5. c = a + (j - i) * BLOCK_SIZE
  BY <1>2, <1>4, Sizes
<1>6. PICK d \in Nat \ {0} : d = j - i
  BY <1>4
<1>7. a \in Nat /\ c \in Nat /\ d * BLOCK_SIZE \in Nat
  BY <1>6, Multiples, Product
<1>8. c - a = d * BLOCK_SIZE
  BY <1>5, <1>6, <1>7
<1>9. (d * BLOCK_SIZE) \div BLOCK_SIZE = d
  BY <1>1
<1>10. a + d * BLOCK_SIZE = c
  BY <1>5, <1>6
<1> QED
  BY <1>6, <1>8, <1>9, <1>10

-----------------------------------------------------------------------------
\* The tree

LEMMA BlockOf ==
  ASSUME NEW s \in Seq(Blocks)
  PROVE  /\ DOMAIN s = 1 .. Len(s) /\ Len(s) \in Nat
         /\ \A k \in DOMAIN s : s[k] \in Blocks
         /\ \A k \in DOMAIN s : s[k].address \in Nat /\ s[k].quantity \in Nat \ {0}
<1>1. DOMAIN s = 1 .. Len(s) /\ Len(s) \in Nat
  OBVIOUS
<1>2. \A k \in DOMAIN s : s[k] \in Blocks
  OBVIOUS
<1>3. \A b \in Blocks : b.address \in Nat /\ b.quantity \in Nat \ {0}
  BY Multiples DEF Blocks
<1> QED
  BY <1>1, <1>2, <1>3

LEMMA MinimumOf ==
  ASSUME NEW bst, NEW nodes, nodes \subseteq Nat, nodes # {},
         \A k \in nodes : bst[k].quantity \in Nat
  PROVE  Minimum(bst, nodes) \in nodes
<1> DEFINE sizes == {bst[k].quantity : k \in nodes}
<1>1. PICK q \in sizes : \A r \in sizes : q <= r
  <2>1. sizes \subseteq Nat /\ sizes # {}
    OBVIOUS
  <2> HIDE DEF sizes
  <2> QED
    BY <2>1, LeastNatural
<1> DEFINE places == {k \in nodes : bst[k].quantity = q}
<1>2. PICK p \in places : \A j \in places : p <= j
  <2>1. places \subseteq Nat /\ places # {}
    BY <1>1
  <2> HIDE DEF places
  <2> QED
    BY <2>1, LeastNatural
<1>3. \A j \in nodes : bst[p].quantity < bst[j].quantity
                       \/ (bst[p].quantity = bst[j].quantity /\ p <= j)
  <2> SUFFICES ASSUME NEW j \in nodes
               PROVE  bst[p].quantity < bst[j].quantity
                      \/ (bst[p].quantity = bst[j].quantity /\ p <= j)
    OBVIOUS
  <2>1. p \in nodes /\ bst[p].quantity = q
    BY <1>2
  <2>2. q <= bst[j].quantity
    BY <1>1
  <2>3. q = bst[j].quantity => p <= j
    BY <1>2
  <2>4. q \in Nat /\ bst[j].quantity \in Nat
    BY <2>1
  <2> HIDE DEF places, sizes
  <2> QED
    BY <2>1, <2>2, <2>3, <2>4
<1> QED
  BY <1>2, <1>3 DEF Minimum

\* Whichever node is moved to its place, the deleted one alone is gone.
LEMMA DeletedNode ==
  ASSUME NEW bst \in Seq(Blocks), IsInjective(bst), NEW k \in DOMAIN bst
  PROVE  /\ bst_delete_node(bst, k) \in Seq(Blocks) /\ IsInjective(bst_delete_node(bst, k))
         /\ Range(bst_delete_node(bst, k)) = Range(bst) \ {bst[k]}
<1>1. CASE Left(bst, k) = {} \/ Right(bst, k) = {}
  <2>1. \A i, j \in DOMAIN bst \ {k} : bst[i] = bst[j] => i = j
    BY DEF IsInjective
  <2>2. /\ RemoveAt(bst, k) \in Seq(Blocks) /\ IsInjective(RemoveAt(bst, k))
        /\ Range(RemoveAt(bst, k)) = {bst[j] : j \in DOMAIN bst \ {k}}
    BY <2>1, LeftAfterRemoval
  <2>3. {bst[j] : j \in DOMAIN bst \ {k}} = Range(bst) \ {bst[k]}
    BY DEF IsInjective, Range
  <2>4. bst_delete_node(bst, k) = RemoveAt(bst, k)
    BY <1>1 DEF bst_delete_node
  <2> QED
    BY <2>2, <2>3, <2>4
<1>2. CASE ~(Left(bst, k) = {} \/ Right(bst, k) = {})
  <2>1. PICK m : m = Minimum(bst, Right(bst, k))
    OBVIOUS
  <2>2. m \in k + 1 .. Len(bst)
    <3>1. Right(bst, k) \subseteq k + 1 .. Len(bst)
      BY DEF Right, Below
    <3>2. Right(bst, k) \subseteq DOMAIN bst
      BY <3>1
    <3>3. Right(bst, k) \subseteq Nat /\ \A j \in Right(bst, k) : bst[j].quantity \in Nat
      BY <3>2, BlockOf
    <3>4. m \in Right(bst, k)
      BY <1>2, <2>1, <3>3, MinimumOf
    <3> QED
      BY <3>1, <3>4
  <2>3. m \in DOMAIN bst /\ m # k
    BY <2>2
  <2>4. PICK t : t = [bst EXCEPT ![k] = bst[m]]
    OBVIOUS
  <2>5. t \in Seq(Blocks) /\ DOMAIN t = DOMAIN bst /\ t[k] = bst[m]
        /\ \A j \in DOMAIN bst \ {k} : t[j] = bst[j]
    BY <2>3, <2>4
  <2>6. \A i, j \in DOMAIN t \ {m} : t[i] = t[j] => i = j
    BY <2>3, <2>5 DEF IsInjective
  <2>7. /\ RemoveAt(t, m) \in Seq(Blocks) /\ IsInjective(RemoveAt(t, m))
        /\ Range(RemoveAt(t, m)) = {t[j] : j \in DOMAIN t \ {m}}
    BY <2>3, <2>5, <2>6, LeftAfterRemoval
  <2>8. {t[j] : j \in DOMAIN t \ {m}} = Range(bst) \ {bst[k]}
    <3>1. \A j \in DOMAIN t \ {m} : t[j] \in Range(bst) \ {bst[k]}
      BY <2>3, <2>5 DEF IsInjective, Range
    <3>2. \A j \in DOMAIN bst \ {k} : \E i \in DOMAIN t \ {m} : t[i] = bst[j]
      BY <2>3, <2>5
    <3> QED
      BY <3>1, <3>2 DEF Range
  <2>9. bst_delete_node(bst, k) = RemoveAt(t, m)
    BY <1>2, <2>1, <2>4 DEF bst_delete_node
  <2> QED
    BY <2>7, <2>8, <2>9
<1> QED
  BY <1>1, <1>2

\* What is found is in the tree and large enough.
LEMMA FoundNode ==
  ASSUME NEW X, NEW bst \in Seq(X), NEW q \in Nat, Find(bst, q) # 0
  PROVE  Find(bst, q) \in DOMAIN bst /\ bst[Find(bst, q)].quantity >= q
<1>1. Len(bst) \in Nat /\ DOMAIN bst = 1 .. Len(bst)
  OBVIOUS
<1>2. ASSUME NEW T, T \subseteq DOMAIN bst
      PROVE  Max({0} \cup T) = 0 \/ Max({0} \cup T) \in T
  <2>1. {0} \cup T \subseteq Nat /\ \A k \in {0} \cup T : k <= Len(bst)
    BY <1>1, <1>2
  <2> QED
    BY <1>1, <2>1, MaxOf
<1>3. bst_find_min_node(bst, q) # 0 => /\ bst_find_min_node(bst, q) \in DOMAIN bst
                                       /\ bst[bst_find_min_node(bst, q)].quantity >= q
  <2> DEFINE T == {k \in LeftSpine(bst) : bst[k].quantity >= q}
  <2>1. T \subseteq DOMAIN bst
    BY DEF LeftSpine
  <2> QED
    BY <1>2, <2>1 DEF bst_find_min_node
<1>4. bst_find_max_node(bst, q) # 0 => /\ bst_find_max_node(bst, q) \in DOMAIN bst
                                       /\ bst[bst_find_max_node(bst, q)].quantity >= q
  <2>1. RightSpine(bst) \subseteq DOMAIN bst
    BY DEF RightSpine
  <2> QED
    BY <1>2, <2>1 DEF bst_find_max_node
<1> QED
  BY <1>3, <1>4 DEF Find

-----------------------------------------------------------------------------
\* The list

\* Where a block is put: behind those of lower addresses, before the others.
LEMMA Placed ==
  ASSUME NEW X, NEW list \in Seq(X), NEW b \in X, b.address \in Nat,
         \A j \in DOMAIN list : list[j].address \in Nat,
         \A j, k \in DOMAIN list : j < k => list[j].address <= list[k].address
  PROVE  \E p \in 1 .. Len(list) + 1 :
           /\ list_add_node(list, b) = InsertAt(list, p, b)
           /\ \A k \in DOMAIN list : k < p => list[k].address < b.address
           /\ \A k \in DOMAIN list : k >= p => b.address <= list[k].address
<1> DEFINE T == {Len(list) + 1} \cup {k \in DOMAIN list : list[k].address >= b.address}
<1>1. Len(list) \in Nat /\ DOMAIN list = 1 .. Len(list)
  OBVIOUS
<1>2. PICK p : p = Min(T)
  OBVIOUS
<1>3. p \in T /\ \A k \in T : p <= k
  <2>1. T \subseteq Nat /\ T # {}
    BY <1>1
  <2> HIDE DEF T
  <2> QED
    BY <1>2, <2>1, MinOf
<1>4. p \in 1 .. Len(list) + 1
  BY <1>1, <1>3
<1>5. \A k \in DOMAIN list : k < p => list[k].address < b.address
  <2> SUFFICES ASSUME NEW k \in DOMAIN list, k < p, ~(list[k].address < b.address) PROVE FALSE
    OBVIOUS
  <2>1. k \in T
    OBVIOUS
  <2>2. p <= k
    BY <1>3, <2>1
  <2> HIDE DEF T
  <2> QED
    BY <1>1, <1>4, <2>2
<1>6. \A k \in DOMAIN list : k >= p => b.address <= list[k].address
  <2> SUFFICES ASSUME NEW k \in DOMAIN list, k >= p PROVE b.address <= list[k].address
    OBVIOUS
  <2>1. p \in DOMAIN list
    BY <1>1, <1>4
  <2>2. b.address <= list[p].address
    BY <1>1, <1>3, <2>1
  <2>3. k = p \/ list[p].address <= list[k].address
    BY <1>1, <1>4, <2>1
  <2> HIDE DEF T
  <2> QED
    BY <2>1, <2>2, <2>3
<1>7. list_add_node(list, b) = InsertAt(list, p, b)
  BY <1>2 DEF list_add_node
<1> HIDE DEF T
<1> QED
  BY <1>4, <1>5, <1>6, <1>7

\* r is list with b in place p: its other blocks are those of list, in their order.
Around(list, b, p, r) ==
  /\ DOMAIN r = 1 .. Len(list) + 1 /\ r[p] = b
  /\ \E f \in [DOMAIN r \ {p} -> DOMAIN list] :
       /\ \A j \in DOMAIN r \ {p} : r[j] = list[f[j]] /\ (j < p <=> f[j] < p)
       /\ \A j, k \in DOMAIN r \ {p} : j < k => f[j] < f[k]
       /\ \A i \in DOMAIN list : \E j \in DOMAIN r \ {p} : f[j] = i

LEMMA AroundInserted ==
  ASSUME NEW X, NEW list \in Seq(X), NEW b \in X, NEW p \in 1 .. Len(list) + 1
  PROVE  InsertAt(list, p, b) \in Seq(X) /\ Around(list, b, p, InsertAt(list, p, b))
<1> DEFINE r == InsertAt(list, p, b)
<1>2. /\ r \in Seq(X) /\ Len(r) = Len(list) + 1
      /\ \A j \in 1 .. Len(list) + 1 :
              r[j] = IF j < p THEN list[j] ELSE IF j = p THEN b ELSE list[j - 1]
  BY Inserted
<1> HIDE DEF r
<1>3. /\ DOMAIN r = 1 .. Len(list) + 1 /\ DOMAIN list = 1 .. Len(list)
      /\ Len(list) \in Nat /\ p \in Nat \ {0} /\ p <= Len(list) + 1 /\ r[p] = b
  BY <1>2
<1>4. PICK f : f = [j \in DOMAIN r \ {p} |-> IF j < p THEN j ELSE j - 1]
  OBVIOUS
<1>5. /\ f \in [DOMAIN r \ {p} -> DOMAIN list]
      /\ \A j \in DOMAIN r \ {p} : r[j] = list[f[j]] /\ (j < p <=> f[j] < p)
  <2> SUFFICES ASSUME NEW j \in DOMAIN r \ {p}
               PROVE  f[j] \in DOMAIN list /\ r[j] = list[f[j]] /\ (j < p <=> f[j] < p)
    BY <1>4
  <2>1. CASE j < p
    BY <1>2, <1>3, <1>4, <2>1
  <2>2. CASE j > p
    BY <1>2, <1>3, <1>4, <2>2
  <2> QED
    BY <1>3, <2>1, <2>2
<1>6. \A j, k \in DOMAIN r \ {p} : j < k => f[j] < f[k]
  BY <1>3, <1>4
<1>7. \A i \in DOMAIN list : \E j \in DOMAIN r \ {p} : f[j] = i
  <2> SUFFICES ASSUME NEW i \in DOMAIN list PROVE \E j \in DOMAIN r \ {p} : f[j] = i
    OBVIOUS
  <2>1. CASE i < p
    <3>1. i \in DOMAIN r \ {p} /\ f[i] = i
      BY <1>3, <1>4, <2>1
    <3> QED
      BY <3>1
  <2>2. CASE ~(i < p)
    <3>1. i + 1 \in DOMAIN r \ {p} /\ ~(i + 1 < p) /\ i + 1 - 1 = i
      BY <1>3, <2>2
    <3>2. f[i + 1] = i
      BY <1>4, <3>1
    <3> QED
      BY <3>1, <3>2
  <2> QED
    BY <2>1, <2>2
<1> QED
  BY <1>2, <1>3, <1>5, <1>6, <1>7 DEF r, Around

\* A block with an address of its own keeps the list sorted.
LEMMA AddedToList ==
  ASSUME NEW list \in Seq(Blocks), Sorted(list), NEW b \in Blocks,
         \A r \in Range(list) : r.address # b.address
  PROVE  /\ list_add_node(list, b) \in Seq(Blocks) /\ Sorted(list_add_node(list, b))
         /\ Range(list_add_node(list, b)) = Range(list) \cup {b}
<1>1. /\ DOMAIN list = 1 .. Len(list) /\ Len(list) \in Nat /\ b.address \in Nat
      /\ \A j \in DOMAIN list : list[j].address \in Nat /\ list[j] \in Range(list)
  <2>1. b.address \in Nat
    BY Multiples DEF Blocks
  <2>2. \A j \in DOMAIN list : list[j] \in Range(list)
    BY DEF Range
  <2> QED
    BY <2>1, <2>2, BlockOf
<1>2. \A j, k \in DOMAIN list : j < k => list[j].address <= list[k].address
  <2> SUFFICES ASSUME NEW j \in DOMAIN list, NEW k \in DOMAIN list, j < k
               PROVE  list[j].address <= list[k].address
    OBVIOUS
  <2>1. list[j].address < list[k].address
    BY DEF Sorted
  <2> QED
    BY <1>1, <2>1
<1>3. PICK p \in 1 .. Len(list) + 1 :
           /\ list_add_node(list, b) = InsertAt(list, p, b)
           /\ \A k \in DOMAIN list : k < p => list[k].address < b.address
           /\ \A k \in DOMAIN list : k >= p => b.address <= list[k].address
  BY <1>1, <1>2, Placed
<1> DEFINE r == InsertAt(list, p, b)
<1>4. r \in Seq(Blocks) /\ Around(list, b, p, r)
  BY AroundInserted
<1> HIDE DEF r
<1>5. DOMAIN r = 1 .. Len(list) + 1 /\ r[p] = b
  BY <1>4 DEF Around
<1>6. PICK f \in [DOMAIN r \ {p} -> DOMAIN list] :
           /\ \A j \in DOMAIN r \ {p} : r[j] = list[f[j]] /\ (j < p <=> f[j] < p)
           /\ \A j, k \in DOMAIN r \ {p} : j < k => f[j] < f[k]
           /\ \A i \in DOMAIN list : \E j \in DOMAIN r \ {p} : f[j] = i
  BY <1>4 DEF Around
<1>7. \A k \in DOMAIN list : k >= p => b.address < list[k].address
  BY <1>1, <1>3
<1>8. Sorted(r)
  <2> SUFFICES ASSUME NEW j \in DOMAIN r, NEW k \in DOMAIN r, j < k
               PROVE  r[j].address < r[k].address
    BY DEF Sorted
  <2>1. CASE j # p /\ k # p
    <3>1. f[j] \in DOMAIN list /\ f[k] \in DOMAIN list /\ f[j] < f[k]
      BY <1>6, <2>1
    <3> QED
      BY <1>6, <2>1, <3>1 DEF Sorted
  <2>2. CASE k = p
    <3>1. j \in DOMAIN r \ {p} /\ f[j] \in DOMAIN list /\ f[j] < p
      BY <1>5, <1>6, <2>2
    <3> QED
      BY <1>3, <1>5, <1>6, <2>2, <3>1
  <2>3. CASE j = p
    <3>1. k \in DOMAIN r \ {p} /\ ~(k < p)
      BY <1>5, <2>3
    <3>2. f[k] \in DOMAIN list /\ ~(f[k] < p)
      BY <1>6, <3>1
    <3>3. f[k] >= p
      BY <1>1, <3>2
    <3> QED
      BY <1>5, <1>6, <1>7, <2>3, <3>1, <3>2, <3>3
  <2> QED
    BY <2>1, <2>2, <2>3
<1>9. Range(r) = Range(list) \cup {b}
  <2>1. \A j \in DOMAIN r : r[j] \in Range(list) \cup {b}
    BY <1>1, <1>5, <1>6
  <2>2. \A i \in DOMAIN list : \E j \in DOMAIN r : r[j] = list[i]
    BY <1>6
  <2>3. p \in DOMAIN r
    BY <1>1, <1>5
  <2> QED
    BY <1>5, <2>1, <2>2, <2>3 DEF Range
<1> QED
  BY <1>3, <1>4, <1>8, <1>9 DEF r

\* A block that is deleted leaves the others in their order.
LEMMA DeletedFromList ==
  ASSUME NEW list \in Seq(Blocks), Sorted(list), NEW k \in DOMAIN list
  PROVE  /\ list_delete_node(list, k) \in Seq(Blocks) /\ Sorted(list_delete_node(list, k))
         /\ Range(list_delete_node(list, k)) = Range(list) \ {list[k]}
<1>1. DOMAIN list = 1 .. Len(list) /\ Len(list) \in Nat
      /\ \A j \in DOMAIN list : list[j].address \in Nat
  BY BlockOf
<1>2. \A i, j \in DOMAIN list : list[i] = list[j] => i = j
  BY <1>1 DEF Sorted
<1>3. PICK r : r = RemoveAt(list, k)
  OBVIOUS
<1>4. /\ r \in Seq(Blocks) /\ Len(r) = Len(list) - 1
      /\ \A j \in 1 .. Len(list) - 1 : r[j] = IF j < k THEN list[j] ELSE list[j + 1]
  BY <1>3, Removed
<1>5. Range(r) = {list[j] : j \in DOMAIN list \ {k}}
  BY <1>2, <1>3, LeftAfterRemoval
<1>6. {list[j] : j \in DOMAIN list \ {k}} = Range(list) \ {list[k]}
  BY <1>2 DEF Range
<1>7. Sorted(r)
  <2> SUFFICES ASSUME NEW i \in DOMAIN r, NEW j \in DOMAIN r, i < j
               PROVE  r[i].address < r[j].address
    BY DEF Sorted
  <2>1. i \in 1 .. Len(list) - 1 /\ j \in 1 .. Len(list) - 1
    BY <1>4
  <2>2. \A m \in 1 .. Len(list) - 1 :
          \E x \in DOMAIN list : r[m] = list[x] /\ x = IF m < k THEN m ELSE m + 1
    <3> SUFFICES ASSUME NEW m \in 1 .. Len(list) - 1
                 PROVE  r[m] = list[IF m < k THEN m ELSE m + 1]
                        /\ (IF m < k THEN m ELSE m + 1) \in DOMAIN list
      OBVIOUS
    <3>1. m \in DOMAIN list /\ m + 1 \in DOMAIN list
      BY <1>1
    <3> QED
      BY <1>4, <3>1
  <2>3. PICK x \in DOMAIN list, y \in DOMAIN list :
             /\ r[i] = list[x] /\ x = IF i < k THEN i ELSE i + 1
             /\ r[j] = list[y] /\ y = IF j < k THEN j ELSE j + 1
    BY <2>1, <2>2
  <2>4. x < y
    BY <1>1, <2>1, <2>3
  <2> QED
    BY <2>3, <2>4 DEF Sorted
<1>8. list_delete_node(list, k) = r
  BY <1>3 DEF list_delete_node
<1> QED
  BY <1>4, <1>5, <1>6, <1>7, <1>8

-----------------------------------------------------------------------------
\* Blocks that share a buffer

LEMMA BlockEnds ==
  \A b \in Blocks : /\ b.address \in Aligned /\ b.address \in Nat /\ b.quantity \in Nat \ {0}
                     /\ End(b) = b.address + b.quantity * BLOCK_SIZE
                     /\ End(b) \in Aligned /\ End(b) \in Nat /\ b.address < End(b)
                     /\ b.address + b.quantity <= End(b)
<1> SUFFICES ASSUME NEW b \in Blocks
             PROVE  /\ b.address \in Aligned /\ b.address \in Nat /\ b.quantity \in Nat \ {0}
                    /\ End(b) = b.address + b.quantity * BLOCK_SIZE
                    /\ End(b) \in Aligned /\ End(b) \in Nat /\ b.address < End(b)
                    /\ b.address + b.quantity <= End(b)
  OBVIOUS
<1>1. b.address \in Aligned /\ b.address \in Nat /\ b.quantity \in Nat \ {0}
  BY Multiples DEF Blocks
<1>2. End(b) = b.address + b.quantity * BLOCK_SIZE
  BY DEF End
<1>3. End(b) \in Aligned /\ End(b) \in Nat
  BY <1>1, <1>2, Multiples
<1>4. b.quantity * BLOCK_SIZE \in Nat /\ b.quantity <= b.quantity * BLOCK_SIZE
  BY <1>1, Product
<1>5. b.address < End(b) /\ b.address + b.quantity <= End(b)
  BY <1>1, <1>2, <1>4
<1> QED
  BY <1>1, <1>2, <1>3, <1>5

LEMMA NewBlock ==
  ASSUME NEW a \in Aligned, NEW q \in Nat \ {0}
  PROVE  /\ Block(a, q) \in Blocks /\ Block(a, q).address = a /\ Block(a, q).quantity = q
         /\ End(Block(a, q)) = a + q * BLOCK_SIZE
<1>1. Block(a, q) \in Blocks /\ Block(a, q).address = a /\ Block(a, q).quantity = q
  BY DEF Block, Blocks
<1> QED
  BY <1>1, BlockEnds

\* A block is replaced by its first q blocks and, if there are any, the others.
Pieces(b, q) ==
  {Block(b.address, q)} \cup
  (IF b.quantity > q THEN {Block(End(Block(b.address, q)), b.quantity - q)} ELSE {})

LEMMA SplitBlock ==
  ASSUME NEW n \in Nat, NEW bs, bs \subseteq Blocks, Apart(bs), Inside(bs, n),
         NEW b \in bs, NEW q \in Nat \ {0}, q <= b.quantity
  PROVE  LET others == bs \ {b}
         IN  /\ Pieces(b, q) \subseteq Blocks /\ Pieces(b, q) \cap others = {}
             /\ Apart(others \cup Pieces(b, q)) /\ Inside(others \cup Pieces(b, q), n)
             /\ Covered(bs, n) => Covered(others \cup Pieces(b, q), n)
             /\ \A c \in others : c.address # b.address
<1> DEFINE others == bs \ {b}
<1>1. /\ b \in Blocks /\ b.address \in Nat /\ b.quantity \in Nat \ {0}
      /\ b.address \in Aligned /\ End(b) \in Nat /\ b.address < End(b)
      /\ End(b) = b.address + b.quantity * BLOCK_SIZE /\ End(b) <= n
  BY BlockEnds DEF Inside
<1>2. PICK first : first = Block(b.address, q)
  OBVIOUS
<1>3. /\ first \in Blocks /\ first.address = b.address
      /\ End(first) \in Aligned /\ End(first) \in Nat /\ b.address < End(first)
      /\ End(b) = End(first) + (b.quantity - q) * BLOCK_SIZE
      /\ (b.quantity - q) * BLOCK_SIZE \in Nat
  <2>1. /\ first \in Blocks /\ first.address = b.address
        /\ End(first) = b.address + q * BLOCK_SIZE
    BY <1>1, <1>2, NewBlock
  <2>2. End(first) \in Aligned /\ End(first) \in Nat /\ b.address < End(first)
    BY <2>1, BlockEnds
  <2>3. /\ q * BLOCK_SIZE \in Nat /\ b.quantity * BLOCK_SIZE \in Nat
        /\ (b.quantity - q) * BLOCK_SIZE \in Nat
        /\ b.quantity * BLOCK_SIZE = q * BLOCK_SIZE + (b.quantity - q) * BLOCK_SIZE
    BY <1>1, Sizes
  <2>4. End(b) = End(first) + (b.quantity - q) * BLOCK_SIZE
    BY <1>1, <2>1, <2>3
  <2> QED
    BY <2>1, <2>2, <2>3, <2>4
<1>4. PICK rest : rest = Block(End(first), b.quantity - q)
  OBVIOUS
<1>5. b.quantity > q => /\ rest \in Blocks /\ rest.address = End(first)
                        /\ End(rest) = End(b)
  <2> SUFFICES ASSUME b.quantity > q
               PROVE  rest \in Blocks /\ rest.address = End(first) /\ End(rest) = End(b)
    OBVIOUS
  <2>1. b.quantity - q \in Nat \ {0}
    BY <1>1
  <2>2. /\ rest \in Blocks /\ rest.address = End(first)
        /\ End(rest) = End(first) + (b.quantity - q) * BLOCK_SIZE
    BY <1>3, <1>4, <2>1, NewBlock
  <2> QED
    BY <1>1, <1>3, <2>2
<1>6. Pieces(b, q) = {first} \cup (IF b.quantity > q THEN {rest} ELSE {})
  BY <1>2, <1>4 DEF Pieces
<1>7. \A p \in Pieces(b, q) : /\ p \in Blocks /\ b.address <= p.address /\ End(p) <= End(b)
                              /\ p.address \in Nat /\ End(p) \in Nat /\ p.address < End(p)
  <2>1. \A p \in Pieces(b, q) : p \in Blocks /\ b.address <= p.address /\ End(p) <= End(b)
    BY <1>1, <1>3, <1>5, <1>6
  <2> QED
    BY <2>1, BlockEnds
<1>8. \A c \in others : /\ End(c) <= b.address \/ End(b) <= c.address
                        /\ c.address \in Nat /\ End(c) \in Nat /\ c.address < End(c)
                        /\ End(c) <= n
  <2>1. \A c \in others : c \in Blocks
    OBVIOUS
  <2>2. \A c \in others : End(c) <= b.address \/ End(b) <= c.address
    BY DEF Apart
  <2> QED
    BY <2>1, <2>2, BlockEnds DEF Inside
<1>9. \A c \in others, p \in Pieces(b, q) : End(c) <= p.address \/ End(p) <= c.address
  <2> SUFFICES ASSUME NEW c \in others, NEW p \in Pieces(b, q)
               PROVE  End(c) <= p.address \/ End(p) <= c.address
    OBVIOUS
  <2>1. /\ b.address <= p.address /\ End(p) <= End(b)
        /\ p.address \in Nat /\ End(p) \in Nat
    BY <1>7
  <2>2. /\ End(c) <= b.address \/ End(b) <= c.address
        /\ c.address \in Nat /\ End(c) \in Nat
    BY <1>8
  <2>3. End(b) \in Nat
    BY <1>1
  <2> HIDE DEF others
  <2> QED
    BY <1>1, <2>1, <2>2, <2>3
<1>10. Pieces(b, q) \cap others = {}
  <2> SUFFICES ASSUME NEW p \in Pieces(b, q), p \in others PROVE FALSE
    OBVIOUS
  <2>1. End(p) <= p.address
    BY <1>9
  <2> QED
    BY <1>7, <2>1
<1>11. Apart(others \cup Pieces(b, q))
  <2>1. \A c, d \in others : c # d => End(c) <= d.address \/ End(d) <= c.address
    BY DEF Apart
  <2>2. \A p, r \in Pieces(b, q) : p # r => End(p) <= r.address \/ End(r) <= p.address
    <3> SUFFICES ASSUME NEW p \in Pieces(b, q), NEW r \in Pieces(b, q), p # r
                 PROVE  End(p) <= r.address \/ End(r) <= p.address
      OBVIOUS
    <3>1. /\ b.quantity > q
          /\ (p = first /\ r = rest) \/ (p = rest /\ r = first)
      BY <1>6
    <3>2. End(first) = rest.address /\ rest.address \in Nat
      BY <1>5, <3>1, BlockEnds
    <3> QED
      BY <3>1, <3>2
  <2> HIDE DEF others
  <2> QED
    BY <1>9, <2>1, <2>2 DEF Apart
<1>12. Inside(others \cup Pieces(b, q), n)
  <2>1. \A p \in Pieces(b, q) : End(p) <= n
    BY <1>1, <1>7
  <2> HIDE DEF others
  <2> QED
    BY <1>8, <2>1 DEF Inside
<1>13. Covered(bs, n) => Covered(others \cup Pieces(b, q), n)
  <2> SUFFICES ASSUME Covered(bs, n), NEW x \in 0 .. n - 1
               PROVE  \E c \in others \cup Pieces(b, q) : c.address <= x /\ x < End(c)
    BY DEF Covered
  <2>1. PICK c \in bs : c.address <= x /\ x < End(c)
    BY DEF Covered
  <2>2. CASE c = b
    <3>1. CASE x < End(first)
      BY <1>3, <1>6, <2>1, <2>2, <3>1
    <3>2. CASE ~(x < End(first))
      <4>1. b.quantity > q
        <5>1. b.quantity = q => (b.quantity - q) * BLOCK_SIZE = 0
          BY AllocatorAssumption
        <5>2. b.quantity = q => End(b) = End(first)
          BY <1>3, <5>1
        <5>3. b.quantity # q
          BY <1>1, <1>3, <2>1, <2>2, <3>2, <5>2
        <5> QED
          BY <1>1, <5>3
      <4>2. rest \in Pieces(b, q) /\ rest.address = End(first) /\ End(rest) = End(b)
        BY <1>5, <1>6, <4>1
      <4> QED
        BY <1>1, <1>3, <2>1, <2>2, <3>2, <4>2
    <3> QED
      BY <3>1, <3>2
  <2>3. CASE c # b
    BY <2>1, <2>3
  <2> QED
    BY <2>2, <2>3
<1>14. \A c \in others : c.address # b.address
  BY <1>1, <1>8
<1> QED
  BY <1>7, <1>10, <1>11, <1>12, <1>13, <1>14

LEMMA TakeKeeps ==
  ASSUME NEW n \in Nat, NEW bst, Fit(bst, reserved_blocks_list, n),
         NEW k \in DOMAIN bst, NEW q \in Nat \ {0}, q <= bst[k].quantity,
         NEW set, Take(bst, set, k, q), status' # "crashed"
  PROVE  /\ Fit(empty_blocks_bst', reserved_blocks_list', n)
         /\ Covered(Range(bst) \cup Range(reserved_blocks_list), n)
              => Covered(Range(empty_blocks_bst') \cup Range(reserved_blocks_list'), n)
<1>1. PICK list : list = reserved_blocks_list
  OBVIOUS
<1>2. PICK b : b = bst[k]
  OBVIOUS
<1>3. /\ bst \in Seq(Blocks) /\ IsInjective(bst) /\ list \in Seq(Blocks) /\ Sorted(list)
      /\ Range(bst) \cap Range(list) = {}
      /\ Apart(Range(bst) \cup Range(list)) /\ Inside(Range(bst) \cup Range(list), n)
  BY <1>1 DEF Fit
<1>4. /\ b \in Range(bst) /\ Range(bst) \subseteq Blocks /\ Range(list) \subseteq Blocks
      /\ b \in Blocks /\ b \notin Range(list)
  BY <1>2, <1>3, BlockOf DEF Range
<1>5. PICK bs : bs = Range(bst) \cup Range(list)
  OBVIOUS
<1>6. bs \subseteq Blocks /\ Apart(bs) /\ Inside(bs, n) /\ b \in bs /\ q <= b.quantity
  BY <1>2, <1>3, <1>4, <1>5
<1>7. /\ Pieces(b, q) \subseteq Blocks /\ Pieces(b, q) \cap (bs \ {b}) = {}
      /\ Apart((bs \ {b}) \cup Pieces(b, q)) /\ Inside((bs \ {b}) \cup Pieces(b, q), n)
      /\ Covered(bs, n) => Covered((bs \ {b}) \cup Pieces(b, q), n)
      /\ \A c \in bs \ {b} : c.address # b.address
  BY <1>6, SplitBlock
<1>8. PICK taken : taken = Block(b.address, q)
  OBVIOUS
<1>9. /\ taken \in Blocks /\ taken.address = b.address /\ b.quantity \in Nat /\ b.address \in Nat
      /\ End(taken) \in Aligned /\ End(taken) \in Nat /\ b.address < End(taken)
  BY <1>4, <1>8, NewBlock, BlockEnds
<1>10. PICK rest : rest = bst_delete_node(bst, k)
  OBVIOUS
<1>11. rest \in Seq(Blocks) /\ IsInjective(rest) /\ Range(rest) = Range(bst) \ {b}
  BY <1>2, <1>3, <1>10, DeletedNode
<1>12. /\ reserved_blocks_list' = list_add_node(list, taken)
       /\ empty_blocks_bst' = IF b.quantity > q
                              THEN bst_add_node(rest, Block(End(taken), b.quantity - q))
                              ELSE rest
  BY <1>1, <1>2, <1>8, <1>10 DEF Take
<1>13. PICK tree, newlist : tree = empty_blocks_bst' /\ newlist = reserved_blocks_list'
  OBVIOUS
<1>14. /\ newlist \in Seq(Blocks) /\ Sorted(newlist)
       /\ Range(newlist) = Range(list) \cup {taken}
  <2>1. \A r \in Range(list) : r.address # taken.address
    BY <1>4, <1>5, <1>7, <1>9
  <2> QED
    BY <1>3, <1>9, <1>12, <1>13, <2>1, AddedToList
<1>15. taken \in Pieces(b, q)
  BY <1>8 DEF Pieces
<1>16. /\ tree \in Seq(Blocks) /\ IsInjective(tree)
       /\ Range(tree) \cap Range(newlist) = {}
       /\ Range(tree) \cup Range(newlist) = (bs \ {b}) \cup Pieces(b, q)
  <2>1. CASE b.quantity > q
    <3>1. PICK last : last = Block(End(taken), b.quantity - q)
      OBVIOUS
    <3>2. End(taken) \in Aligned /\ b.quantity - q \in Nat \ {0}
      BY <1>9, <2>1
    <3>3. last \in Blocks /\ last.address = End(taken)
      BY <3>1, <3>2, NewBlock
    <3>4. last # taken
      BY <1>9, <3>3
    <3>5. Pieces(b, q) = {taken, last}
      BY <1>8, <2>1, <3>1 DEF Pieces
    <3>6. last \notin Range(rest) /\ last \notin Range(list) /\ taken \notin Range(rest)
      BY <1>4, <1>5, <1>7, <1>11, <3>5
    <3>7. tree = Append(rest, last)
      BY <1>12, <1>13, <2>1, <3>1 DEF bst_add_node
    <3>8. tree \in Seq(Blocks) /\ IsInjective(tree) /\ Range(tree) = Range(rest) \cup {last}
      BY <1>11, <3>3, <3>6, <3>7, Appended
    <3>9. Range(tree) \cap Range(newlist) = {}
      BY <1>3, <1>11, <1>14, <3>4, <3>6, <3>8
    <3>10. Range(tree) \cup Range(newlist) = (bs \ {b}) \cup Pieces(b, q)
      BY <1>4, <1>5, <1>11, <1>14, <3>5, <3>8
    <3> QED
      BY <3>8, <3>9, <3>10
  <2>2. CASE ~(b.quantity > q)
    <3>1. Pieces(b, q) = {taken} /\ tree = rest
      BY <1>8, <1>12, <1>13, <2>2 DEF Pieces
    <3>2. taken \notin Range(rest)
      BY <1>5, <1>7, <1>11, <3>1
    <3> QED
      BY <1>3, <1>4, <1>5, <1>11, <1>14, <3>1, <3>2
  <2> QED
    BY <2>1, <2>2
<1>17. Fit(tree, newlist, n)
  BY <1>7, <1>14, <1>16 DEF Fit
<1> QED
  BY <1>1, <1>5, <1>7, <1>13, <1>16, <1>17

-----------------------------------------------------------------------------
\* The tree built again

\* In a sorted list a block ends before the next ones begin.
LEMMA EndsBefore ==
  ASSUME NEW list \in Seq(Blocks), Sorted(list), Apart(Range(list)),
         NEW j \in DOMAIN list, NEW k \in DOMAIN list, j < k
  PROVE  End(list[j]) <= list[k].address
<1>1. list[j].address < list[k].address
  BY DEF Sorted
<1>2. list[j] \in Blocks /\ list[k] \in Blocks
  OBVIOUS
<1>3. /\ list[j].address \in Nat /\ list[k].address \in Nat
      /\ End(list[k]) \in Nat /\ list[k].address < End(list[k])
  BY <1>2, BlockEnds
<1>4. list[j] # list[k]
  BY <1>1, <1>3
<1>5. End(list[j]) <= list[k].address \/ End(list[k]) <= list[j].address
  BY <1>4 DEF Apart, Range
<1> QED
  BY <1>1, <1>3, <1>5

\* The blocks skipped are all that begin before the first gap, and fill the bytes
\* before it.
LEMMA PrefixIsFull ==
  ASSUME reserved_blocks_list \in Seq(Blocks), Sorted(reserved_blocks_list),
         Apart(Range(reserved_blocks_list))
  PROVE  /\ Prefix \in 0 .. Len(reserved_blocks_list) /\ begin \in Nat /\ begin \in Aligned
         /\ \A j \in DOMAIN reserved_blocks_list :
              j <= Prefix => End(reserved_blocks_list[j]) <= begin
         /\ \A x \in 0 .. begin - 1 :
              \E b \in Range(reserved_blocks_list) : b.address <= x /\ x < End(b)
         /\ Prefix < Len(reserved_blocks_list)
              => /\ Gap \in Range(reserved_blocks_list) /\ begin < Gap.address
                 /\ \A j \in DOMAIN reserved_blocks_list :
                      j > Prefix => Gap.address <= reserved_blocks_list[j].address
<1>1. PICK R : R = reserved_blocks_list
  OBVIOUS
<1>2. R \in Seq(Blocks) /\ Sorted(R) /\ Apart(Range(R))
  BY <1>1
<1>3. Len(R) \in Nat /\ DOMAIN R = 1 .. Len(R)
  BY <1>2, BlockOf
<1>4. \A j \in DOMAIN R : /\ R[j] \in Blocks /\ R[j].address \in Nat /\ End(R[j]) \in Nat
                          /\ R[j].address < End(R[j])
  BY <1>2, BlockOf, BlockEnds
<1>5. \A j, k \in DOMAIN R : j < k => End(R[j]) <= R[k].address
  BY <1>2, EndsBefore
<1> DEFINE follows(j) == R[j].address = IF j = 1 THEN 0 ELSE End(R[j - 1])
           T == {0} \cup {k \in DOMAIN R : \A j \in 1 .. k : follows(j)}
<1>6. PICK p : p = Prefix
  OBVIOUS
<1>7. p = Max(T)
  BY <1>1, <1>6 DEF Prefix
<1>8. p \in T /\ \A k \in T : p >= k
  <2>1. T \subseteq Nat /\ T # {} /\ \A k \in T : k <= Len(R)
    BY <1>3
  <2> HIDE DEF T
  <2> QED
    BY <1>3, <1>7, <2>1, MaxOf
<1>9. p \in 0 .. Len(R) /\ \A j \in 1 .. p : follows(j)
  BY <1>3, <1>8
<1>10. p < Len(R) => ~follows(p + 1)
  <2> SUFFICES ASSUME p < Len(R), follows(p + 1) PROVE FALSE
    OBVIOUS
  <2>1. p + 1 \in DOMAIN R
    BY <1>3, <1>9
  <2>2. \A j \in 1 .. p + 1 : j \in 1 .. p \/ j = p + 1
    BY <1>3, <1>9
  <2>3. \A j \in 1 .. p + 1 : follows(j)
    <3> HIDE DEF follows
    <3> QED
      BY <1>9, <2>2
  <2>4. p + 1 \in T
    <3> HIDE DEF follows
    <3> QED
      BY <2>1, <2>3
  <2> HIDE DEF T
  <2> QED
    BY <1>3, <1>8, <1>9, <2>4
<1> HIDE DEF T
<1>11. PICK s : s = begin
  OBVIOUS
<1>12. s = IF p = 0 THEN 0 ELSE End(R[p])
  BY <1>1, <1>6, <1>11 DEF begin
<1>13. p # 0 => p \in DOMAIN R
  BY <1>3, <1>9
<1>14. s \in Nat /\ s \in Aligned
  <2>1. p # 0 => End(R[p]) \in Aligned
    BY <1>4, <1>13, BlockEnds
  <2> QED
    BY <1>12, <2>1, Multiples
<1>15. \A j \in DOMAIN R : j <= p => End(R[j]) <= s
  <2> SUFFICES ASSUME NEW j \in DOMAIN R, j <= p PROVE End(R[j]) <= s
    OBVIOUS
  <2>1. p \in DOMAIN R /\ s = End(R[p])
    BY <1>3, <1>9, <1>12
  <2>2. CASE j = p
    BY <1>4, <2>1, <2>2
  <2>3. CASE j < p
    <3>1. End(R[j]) <= R[p].address
      BY <1>5, <2>1, <2>3
    <3> QED
      BY <1>4, <2>1, <3>1
  <2> QED
    BY <1>3, <1>9, <2>2, <2>3
<1>16. \A x \in 0 .. s - 1 : \E b \in Range(R) : b.address <= x /\ x < End(b)
  <2> SUFFICES ASSUME NEW x \in 0 .. s - 1
               PROVE  \E b \in Range(R) : b.address <= x /\ x < End(b)
    OBVIOUS
  <2>1. p \in DOMAIN R /\ s = End(R[p])
    BY <1>12, <1>13
  <2> DEFINE J == {j \in 1 .. p : x < End(R[j])}
  <2>2. p \in J /\ J \subseteq Nat
    BY <1>3, <1>9, <1>14, <2>1
  <2>3. PICK j \in J : \A k \in J : j <= k
    <3> HIDE DEF J
    <3> QED
      BY <2>2, LeastNatural
  <2>4. j \in DOMAIN R /\ x < End(R[j]) /\ follows(j)
    BY <1>3, <1>9, <2>3
  <2>5. CASE j = 1
    <3>1. R[j].address = 0
      BY <2>4, <2>5
    <3> QED
      BY <2>4, <3>1 DEF Range
  <2>6. CASE j # 1
    <3>1. j - 1 \in 1 .. p /\ ~(j <= j - 1)
      BY <2>3, <2>6, <1>9
    <3>2. j - 1 \notin J
      <4> HIDE DEF J
      <4> QED
        BY <2>3, <3>1
    <3>3. ~(x < End(R[j - 1]))
      BY <3>1, <3>2
    <3>4. j - 1 \in DOMAIN R
      BY <1>3, <1>9, <3>1
    <3>5. R[j].address <= x
      BY <1>4, <2>4, <2>6, <3>3, <3>4
    <3> QED
      BY <2>4, <3>5 DEF Range
  <2> QED
    BY <2>5, <2>6
<1>17. ASSUME p < Len(R)
       PROVE  /\ R[p + 1] \in Range(R) /\ s < R[p + 1].address
              /\ \A j \in DOMAIN R : j > p => R[p + 1].address <= R[j].address
  <2>1. p + 1 \in DOMAIN R
    BY <1>3, <1>9, <1>17
  <2>2. s # R[p + 1].address
    <3> SUFFICES ASSUME s = R[p + 1].address PROVE FALSE
      OBVIOUS
    <3>1. PICK j : j = p + 1
      OBVIOUS
    <3>2. p \in Nat /\ j - 1 = p /\ (j = 1 <=> p = 0)
      BY <1>9, <3>1
    <3>3. R[j].address = IF j = 1 THEN 0 ELSE End(R[j - 1])
      BY <1>12, <3>1, <3>2
    <3>4. follows(j)
      BY <3>3
    <3> HIDE DEF follows
    <3> QED
      BY <1>10, <1>17, <3>1, <3>4
  <2>3. s <= R[p + 1].address
    <3>1. CASE p = 0
      BY <1>4, <1>12, <2>1, <3>1
    <3>2. CASE p # 0
      <4>1. p \in DOMAIN R /\ p < p + 1
        BY <1>13, <1>9, <3>2
      <4> QED
        BY <1>5, <1>12, <2>1, <3>2, <4>1
    <3> QED
      BY <3>1, <3>2
  <2>4. \A j \in DOMAIN R : j > p => R[p + 1].address <= R[j].address
    <3> SUFFICES ASSUME NEW j \in DOMAIN R, j > p PROVE R[p + 1].address <= R[j].address
      OBVIOUS
    <3>1. j = p + 1 \/ p + 1 < j
      BY <1>3, <1>9
    <3>2. p + 1 < j => R[p + 1].address < R[j].address
      BY <1>2, <2>1 DEF Sorted
    <3> QED
      BY <1>4, <2>1, <3>1, <3>2
  <2>5. R[p + 1].address \in Nat
    BY <1>4, <2>1
  <2>6. R[p + 1] \in Range(R)
    BY <2>1 DEF Range
  <2> QED
    BY <1>14, <2>2, <2>3, <2>4, <2>5, <2>6
<1>18. p < Len(R) => Gap = R[p + 1]
  BY <1>1, <1>6 DEF Gap
<1> QED
  BY <1>1, <1>6, <1>9, <1>11, <1>14, <1>15, <1>16, <1>17, <1>18

\* One block more in the tree, where no other block is.
LEMMA AddedToTree ==
  ASSUME NEW n \in Nat, NEW bst, NEW list, Fit(bst, list, n),
         NEW b \in Blocks, End(b) <= n,
         \A c \in Range(bst) \cup Range(list) : End(c) <= b.address \/ End(b) <= c.address
  PROVE  Fit(Append(bst, b), list, n) /\ Range(Append(bst, b)) = Range(bst) \cup {b}
<1>1. /\ bst \in Seq(Blocks) /\ IsInjective(bst) /\ list \in Seq(Blocks) /\ Sorted(list)
      /\ Range(bst) \cap Range(list) = {}
      /\ Apart(Range(bst) \cup Range(list)) /\ Inside(Range(bst) \cup Range(list), n)
  BY DEF Fit
<1>2. b.address \in Nat /\ End(b) \in Nat /\ b.address < End(b)
  BY BlockEnds
<1>3. b \notin Range(bst) \cup Range(list)
  BY <1>2
<1>4. /\ Append(bst, b) \in Seq(Blocks) /\ IsInjective(Append(bst, b))
      /\ Range(Append(bst, b)) = Range(bst) \cup {b}
  BY <1>1, <1>3, Appended
<1>5. Range(Append(bst, b)) \cap Range(list) = {}
  BY <1>1, <1>3, <1>4
<1>6. Apart(Range(Append(bst, b)) \cup Range(list))
  BY <1>1, <1>4 DEF Apart
<1>7. Inside(Range(Append(bst, b)) \cup Range(list), n)
  BY <1>1, <1>4 DEF Inside
<1> QED
  BY <1>1, <1>4, <1>5, <1>6, <1>7 DEF Fit

LEMMA BufferEnd ==
  ASSUME block_quantity \in Nat
  PROVE  buffer_end \in Nat /\ buffer_end \in Aligned
BY Multiples DEF buffer_end

\* The block behind the first gap is reserved, and `behind' is not behind it.
LEMMA BehindGap ==
  ASSUME reserved_blocks_list \in Seq(Blocks), Sorted(reserved_blocks_list),
         Apart(Range(reserved_blocks_list)), ~Skipped
  PROVE  /\ Gap \in Blocks /\ behind \in Nat /\ behind <= End(Gap)
         /\ BLOCK_SIZE = 1 => behind = End(Gap)
<1>1. Prefix < Len(reserved_blocks_list)
  <2>1. Prefix \in 0 .. Len(reserved_blocks_list) /\ Len(reserved_blocks_list) \in Nat
    BY PrefixIsFull, BlockOf
  <2>2. Prefix # Len(reserved_blocks_list)
    BY DEF Skipped
  <2>3. PICK p, n : p = Prefix /\ n = Len(reserved_blocks_list)
    OBVIOUS
  <2> QED
    BY <2>1, <2>2, <2>3
<1>2. PICK g : g = Gap
  OBVIOUS
<1>3. g \in Blocks
  <2>1. g \in Range(reserved_blocks_list)
    BY <1>1, <1>2, PrefixIsFull
  <2> QED
    BY <2>1 DEF Range
<1>4. /\ g.address \in Nat /\ g.quantity \in Nat /\ g.address + g.quantity <= End(g)
      /\ End(g) = g.address + g.quantity * BLOCK_SIZE
  BY <1>3, BlockEnds
<1>5. behind = g.address + g.quantity
  BY <1>2 DEF behind
<1>6. BLOCK_SIZE = 1 => behind = End(g)
  <2>1. g.quantity * 1 = g.quantity
    BY <1>4
  <2> QED
    BY <1>4, <1>5, <2>1
<1> QED
  BY <1>2, <1>3, <1>4, <1>5, <1>6

\* Blocks of one byte are not overrun.
LEMMA BytesNotOverrun ==
  ASSUME block_quantity \in Nat, BLOCK_SIZE = 1,
         Fit(empty_blocks_bst, reserved_blocks_list, buffer_end)
  PROVE  ~Overrun
<1>1. /\ reserved_blocks_list \in Seq(Blocks) /\ Sorted(reserved_blocks_list)
      /\ Apart(Range(reserved_blocks_list))
  BY DEF Fit, Apart
<1>2. ~Skipped => behind = End(Gap) /\ behind \in Nat
  BY <1>1, BehindGap
<1> QED
  BY <1>2 DEF Overrun

\* The tree that replaces the old one shares the buffer with the same blocks, and
\* nothing is lost unless the error is printed.
LEMMA RebuiltFits ==
  ASSUME block_quantity \in Nat, ~Overrun,
         Fit(empty_blocks_bst, reserved_blocks_list, buffer_end)
  PROVE  /\ Fit(Rebuilt, reserved_blocks_list, buffer_end)
         /\ ~Broken /\ Covered(Range(empty_blocks_bst) \cup Range(reserved_blocks_list), buffer_end)
              => Covered(Range(Rebuilt) \cup Range(reserved_blocks_list), buffer_end)
<1>1. CASE Skipped
  <2>1. Rebuilt = empty_blocks_bst
    BY <1>1 DEF Rebuilt
  <2> QED
    BY <2>1
<1>2. CASE ~Skipped
  <2>1. PICK R, p, s, n : /\ R = reserved_blocks_list /\ p = Prefix /\ s = begin
                          /\ n = buffer_end
    OBVIOUS
  <2>2. /\ R \in Seq(Blocks) /\ Sorted(R) /\ Apart(Range(R)) /\ Inside(Range(R), n)
        /\ n \in Nat /\ n \in Aligned
    BY <2>1, BufferEnd DEF Fit, Apart, Inside
  <2>3. /\ p \in 0 .. Len(R) /\ s \in Nat /\ s \in Aligned
        /\ \A j \in DOMAIN R : j <= p => End(R[j]) <= s
        /\ \A x \in 0 .. s - 1 : \E b \in Range(R) : b.address <= x /\ x < End(b)
        /\ p < Len(R) => /\ Gap \in Range(R) /\ s < Gap.address
                         /\ \A j \in DOMAIN R : j > p => Gap.address <= R[j].address
    BY <2>1, <2>2, PrefixIsFull
  <2>4. PICK g : g = Gap
    OBVIOUS
  <2>5. Len(R) \in Nat /\ DOMAIN R = 1 .. Len(R) /\ p < Len(R)
    <3>1. Len(R) \in Nat /\ DOMAIN R = 1 .. Len(R)
      BY <2>2, BlockOf
    <3>2. p # Len(R)
      BY <1>2, <2>1 DEF Skipped
    <3> QED
      BY <2>3, <3>1, <3>2
  <2>6. /\ g \in Range(R) /\ s < g.address
        /\ \A j \in DOMAIN R : j > p => g.address <= R[j].address
    BY <2>3, <2>4, <2>5
  <2>7. \A b \in Range(R) : /\ b \in Blocks /\ b.address \in Nat /\ b.quantity \in Nat \ {0}
                            /\ End(b) \in Nat /\ b.address \in Aligned /\ End(b) \in Aligned
                            /\ b.address < End(b) /\ End(b) <= n
    <3>1. \A b \in Range(R) : b \in Blocks
      BY <2>2 DEF Range
    <3> QED
      BY <2>2, <3>1, BlockEnds DEF Inside
  <2>8. \A b \in Range(R) : End(b) <= s \/ g.address <= b.address
    <3> SUFFICES ASSUME NEW b \in Range(R) PROVE End(b) <= s \/ g.address <= b.address
      OBVIOUS
    <3>1. PICK j \in DOMAIN R : b = R[j]
      BY DEF Range
    <3>2. j <= p \/ j > p
      BY <2>3, <2>5
    <3> QED
      BY <2>3, <2>6, <3>1, <3>2
  <2>9. PICK hole : hole = GapNode
    OBVIOUS
  <2>10. hole \in Blocks /\ hole.address = s /\ End(hole) = g.address
    <3>1. PICK q : q = (g.address - s) \div BLOCK_SIZE
      OBVIOUS
    <3>2. q \in Nat \ {0} /\ s + q * BLOCK_SIZE = g.address
      BY <2>3, <2>6, <2>7, <3>1, Between
    <3>3. hole = Block(s, q)
      BY <2>1, <2>4, <2>9, <3>1 DEF GapNode
    <3> QED
      BY <2>3, <3>2, <3>3, NewBlock
  <2>11. Fit(<<hole>>, R, n) /\ Range(<<hole>>) = {hole}
    <3>0. PICK none : none = <<>>
      OBVIOUS
    <3>1. Fit(none, R, n) /\ Range(none) = {}
      <4>1. none \in Seq(Blocks) /\ Range(none) = {} /\ IsInjective(none)
        BY <3>0 DEF Range, IsInjective
      <4> QED
        BY <2>2, <4>1 DEF Fit
    <3>2. End(hole) <= n
      <4>1. g.address < End(g) /\ End(g) <= n /\ g.address \in Nat /\ End(g) \in Nat
        BY <2>6, <2>7
      <4> QED
        BY <2>2, <2>10, <4>1
    <3>3. \A c \in Range(none) \cup Range(R) : End(c) <= hole.address \/ End(hole) <= c.address
      BY <2>8, <2>10, <3>1
    <3>4. Fit(Append(none, hole), R, n) /\ Range(Append(none, hole)) = Range(none) \cup {hole}
      BY <2>2, <2>10, <3>1, <3>2, <3>3, AddedToTree
    <3>5. Append(none, hole) = <<hole>>
      BY <3>0
    <3> QED
      BY <3>1, <3>4, <3>5
  <2>12. ~(g.address < s)
    BY <2>3, <2>6, <2>7
  <2>13. /\ behind \in Nat /\ behind <= End(g) /\ End(g) \in Nat /\ End(g) <= n
         /\ Broken \/ behind >= n \/ behind = End(g)
    <3>1. behind \in Nat /\ behind <= End(g) /\ End(g) \in Nat /\ End(g) <= n
      BY <1>2, <2>1, <2>2, <2>4, <2>6, <2>7, BehindGap
    <3>2. ~Broken /\ behind < n => ~(behind < End(g))
      BY <1>2, <2>1, <2>4 DEF Overrun
    <3> QED
      BY <2>2, <3>1, <3>2
  <2>14. CASE Broken \/ behind >= n
    <3>1. Rebuilt = <<hole>>
      BY <1>2, <2>1, <2>4, <2>9, <2>12, <2>14 DEF Rebuilt
    <3>2. ASSUME ~Broken
          PROVE  Covered(Range(Rebuilt) \cup Range(R), n)
      <4> SUFFICES ASSUME NEW x \in 0 .. n - 1
                   PROVE  \E b \in {hole} \cup Range(R) : b.address <= x /\ x < End(b)
        BY <2>11, <3>1 DEF Covered
      <4>1. CASE x < s
        BY <2>3, <4>1
      <4>2. CASE s <= x /\ x < g.address
        BY <2>10, <4>2
      <4>3. CASE g.address <= x
        <5>1. x < End(g)
          BY <2>2, <2>13, <2>14, <3>2
        <5> QED
          BY <2>6, <4>3, <5>1
      <4> QED
        BY <2>3, <2>6, <2>7, <4>1, <4>2, <4>3
    <3> QED
      BY <2>1, <2>11, <3>1, <3>2
  <2>15. CASE ~(Broken \/ behind >= n)
    <3>0. behind = End(g)
      BY <2>13, <2>15
    <3>1. p + 1 = Len(R)
      <4>1. ~(p + 1 < Len(R))
        BY <1>2, <2>1, <2>15 DEF Broken
      <4>2. PICK m : m = Len(R)
        OBVIOUS
      <4>3. p \in Nat /\ m \in Nat /\ p < m /\ ~(p + 1 < m)
        BY <2>3, <2>5, <4>1, <4>2
      <4> QED
        BY <4>2, <4>3
    <3>2. /\ End(g) \in Nat /\ g.address \in Nat /\ g.address < End(g) /\ End(g) < n
          /\ End(g) \in Aligned
      BY <2>2, <2>6, <2>7, <2>15, <3>0
    <3>3. PICK q, last : q = (n - End(g)) \div BLOCK_SIZE /\ last = Block(End(g), q)
      OBVIOUS
    <3>4. last \in Blocks /\ last.address = End(g) /\ End(last) = n
      <4>1. q \in Nat \ {0} /\ End(g) + q * BLOCK_SIZE = n
        BY <2>2, <3>2, <3>3, Between
      <4> QED
        BY <3>2, <3>3, <4>1, NewBlock
    <3>5. Rebuilt = <<hole, last>>
      <4>1. Rebuilt = <<GapNode, Block(behind, (buffer_end - behind) \div BLOCK_SIZE)>>
        BY <1>2, <2>1, <2>4, <2>12, <2>15 DEF Rebuilt
      <4> QED
        BY <2>1, <2>9, <3>0, <3>3, <4>1
    <3>6. g = R[p + 1]
      BY <2>1, <2>4 DEF Gap
    <3>7. \A b \in Range(R) : End(b) <= End(g)
      <4> SUFFICES ASSUME NEW b \in Range(R) PROVE End(b) <= End(g)
        OBVIOUS
      <4>1. PICK j \in DOMAIN R : b = R[j]
        BY DEF Range
      <4>2. j <= p \/ j = p + 1
        BY <2>3, <2>5, <3>1
      <4>3. CASE j <= p
        <5>1. End(b) <= s
          BY <2>3, <4>1, <4>3
        <5>2. End(b) \in Nat
          BY <2>7
        <5> QED
          BY <2>3, <2>6, <3>2, <5>1, <5>2
      <4>4. CASE j = p + 1
        BY <3>2, <3>6, <4>1, <4>4
      <4> QED
        BY <4>2, <4>3, <4>4
    <3>8. \A c \in Range(<<hole>>) \cup Range(R) : End(c) <= last.address
      BY <2>10, <2>11, <3>2, <3>4, <3>7
    <3>9. /\ Fit(Append(<<hole>>, last), R, n)
          /\ Range(Append(<<hole>>, last)) = {hole} \cup {last}
      BY <2>2, <2>11, <3>4, <3>8, AddedToTree
    <3>10. Append(<<hole>>, last) = Rebuilt
      <4>1. Append(<<hole>>, last) = <<hole, last>>
        BY AppendedToOne
      <4> QED
        BY <3>5, <4>1
    <3>11. Covered(Range(Rebuilt) \cup Range(R), n)
      <4> SUFFICES ASSUME NEW x \in 0 .. n - 1
                   PROVE  \E b \in {hole} \cup {last} \cup Range(R) : b.address <= x /\ x < End(b)
        BY <3>9, <3>10 DEF Covered
      <4>1. CASE x < s
        BY <2>3, <4>1
      <4>2. CASE s <= x /\ x < g.address
        BY <2>10, <4>2
      <4>3. CASE g.address <= x /\ x < End(g)
        BY <2>6, <4>3
      <4>4. CASE End(g) <= x
        BY <2>2, <3>4, <4>4
      <4> QED
        BY <2>3, <3>2, <4>1, <4>2, <4>3, <4>4
    <3> QED
      BY <2>1, <3>9, <3>10, <3>11
  <2> QED
    BY <2>14, <2>15
<1> QED
  BY <1>1, <1>2

-----------------------------------------------------------------------------
\* Every step keeps the invariant

LEMMA NoBlocks ==
  ASSUME NEW n
  PROVE  Fit(<<>>, <<>>, n) /\ (n = 0 => Covered(Range(<<>>) \cup Range(<<>>), n))
<1>1. <<>> \in Seq(Blocks) /\ Range(<<>>) = {} /\ IsInjective(<<>>)
  BY DEF Range, IsInjective
<1>2. Sorted(<<>>)
  BY DEF Sorted
<1>3. Apart({}) /\ Inside({}, n) /\ (n = 0 => Covered({}, n))
  BY DEF Apart, Inside, Covered
<1> QED
  BY <1>1, <1>2, <1>3 DEF Fit

LEMMA InitKeeps ==
  ASSUME Init
  PROVE  IInv
<1>1. block_quantity = 0 /\ buffer_end = 0
  BY AllocatorAssumption DEF Init, buffer_end
<1>2. Fit(<<>>, <<>>, buffer_end) /\ Covered(Range(<<>>) \cup Range(<<>>), buffer_end)
  BY <1>1, NoBlocks
<1>3. 0 \in Nat
  OBVIOUS
<1> QED
  BY <1>1, <1>2, <1>3 DEF Init, IInv

LEMMA MemInitKeeps ==
  ASSUME IInv, NEW n \in QUANTITIES, mem_init(n)
  PROVE  IInv'
<1>1. n \in Nat \ {0}
  BY AllocatorAssumption
<1>2. PICK b, size : b = Block(0, n) /\ size = n * BLOCK_SIZE
  OBVIOUS
<1>3. size \in Nat /\ b \in Blocks /\ b.address = 0 /\ End(b) = size
  <2>1. PICK zero : zero = 0
    OBVIOUS
  <2>2. b \in Blocks /\ b.address = zero /\ End(b) = zero + n * BLOCK_SIZE
    BY <1>1, <1>2, <2>1, NewBlock, Multiples
  <2>3. n * BLOCK_SIZE \in Nat
    BY <1>1, Product
  <2> QED
    BY <1>2, <2>1, <2>2, <2>3
<1>4. Fit(<<b>>, <<>>, size) /\ Range(<<b>>) = {b} /\ Range(<<>>) = {}
  <2>1. PICK none : none = <<>>
    OBVIOUS
  <2>2. Fit(none, none, size) /\ Range(none) = {}
    <3>1. Range(none) = {}
      BY <2>1 DEF Range
    <3> QED
      BY <2>1, <3>1, NoBlocks
  <2>3. End(b) <= size
    BY <1>3
  <2>4. Fit(Append(none, b), none, size) /\ Range(Append(none, b)) = Range(none) \cup {b}
    BY <1>3, <2>2, <2>3, AddedToTree
  <2>5. Append(none, b) = <<b>>
    BY <2>1
  <2> QED
    BY <2>1, <2>2, <2>4, <2>5
<1>5. Covered({b}, size)
  BY <1>3 DEF Covered
<1>6. /\ empty_blocks_bst' = <<b>> /\ reserved_blocks_list' = <<>> /\ block_quantity' = n
      /\ strategy' = strategy /\ status' = "on" /\ error' = FALSE /\ overrun' = FALSE
      /\ buffer_end' = size
  BY <1>2 DEF mem_init, buffer_end
<1> QED
  BY <1>1, <1>4, <1>5, <1>6 DEF IInv

LEMMA MemFinishKeeps ==
  ASSUME IInv, mem_finish
  PROVE  IInv'
<1>1. block_quantity' = 0 /\ buffer_end' = 0
  BY AllocatorAssumption DEF mem_finish, buffer_end
<1>2. Fit(<<>>, <<>>, buffer_end') /\ Covered(Range(<<>>) \cup Range(<<>>), buffer_end')
  BY <1>1, NoBlocks
<1>3. 0 \in Nat
  OBVIOUS
<1>4. /\ strategy' = strategy /\ status' = "off" /\ empty_blocks_bst' = <<>>
      /\ reserved_blocks_list' = <<>> /\ error' = FALSE /\ overrun' = FALSE
  BY DEF mem_finish
<1>5. strategy \in STRATEGIES
  BY DEF IInv
<1> QED
  BY <1>1, <1>2, <1>3, <1>4, <1>5 DEF IInv

LEMMA MemAllocateKeeps ==
  ASSUME IInv, NEW size \in 1 .. buffer_end, mem_allocate(size)
  PROVE  IInv'
<1>1. PICK n, q : n = buffer_end /\ q = (size + BLOCK_SIZE - 1) \div BLOCK_SIZE
  OBVIOUS
<1>2. n \in Nat /\ q \in Nat \ {0} /\ buffer_end' = n
  <2>1. n \in Nat
    BY <1>1, BufferEnd DEF IInv
  <2>2. size \in Nat \ {0}
    BY <1>1, <2>1
  <2>3. BLOCK_SIZE \in Nat /\ BLOCK_SIZE > 0
    BY AllocatorAssumption
  <2>4. q \in Nat \ {0}
    BY <1>1, <2>2, <2>3
  <2> QED
    BY <1>1, <2>1, <2>4 DEF mem_allocate, buffer_end
<1>3. PICK E, R : E = empty_blocks_bst /\ R = reserved_blocks_list
  OBVIOUS
<1>4. /\ strategy \in STRATEGIES /\ status \in {"off", "on", "crashed"}
      /\ block_quantity \in Nat /\ error \in BOOLEAN /\ overrun \in BOOLEAN
      /\ strategy' = strategy /\ block_quantity' = block_quantity
      /\ overrun => BLOCK_SIZE > 1
      /\ ~overrun => Fit(E, R, n) /\ (~error => Covered(Range(E) \cup Range(R), n))
  BY <1>1, <1>3 DEF IInv, mem_allocate
<1>5. ASSUME NEW bst, NEW set, Fit(bst, R, n), Find(bst, q) # 0,
             Take(bst, set, Find(bst, q), q), status' # "crashed"
      PROVE  /\ Fit(empty_blocks_bst', reserved_blocks_list', n)
             /\ Covered(Range(bst) \cup Range(R), n)
                  => Covered(Range(empty_blocks_bst') \cup Range(reserved_blocks_list'), n)
  <2>1. bst \in Seq(Blocks)
    BY <1>5 DEF Fit
  <2>2. PICK k : k = Find(bst, q)
    OBVIOUS
  <2>3. k \in DOMAIN bst /\ bst[k].quantity >= q
    BY <1>2, <1>5, <2>1, <2>2, FoundNode
  <2>4. q <= bst[k].quantity
    BY <1>2, <2>1, <2>3, BlockOf
  <2>5. Take(bst, set, k, q) /\ Fit(bst, reserved_blocks_list, n)
    BY <1>3, <1>5, <2>2
  <2> QED
    BY <1>2, <1>3, <1>5, <2>3, <2>4, <2>5, TakeKeeps
<1>6. ASSUME NEW bst, NEW set, NEW k, Take(bst, set, k, q)
      PROVE  status' = status \/ (status' = "crashed" /\ UNCHANGED blocks)
  BY <1>6 DEF Take
\* a pointer to no block is used: the blocks stay as they are
<1>7. ASSUME status' = "crashed", UNCHANGED blocks, error' \in BOOLEAN, error => error',
             overrun' \in BOOLEAN, overrun => overrun', overrun' => BLOCK_SIZE > 1
      PROVE  IInv'
  <2>1. empty_blocks_bst' = E /\ reserved_blocks_list' = R
    BY <1>3, <1>7 DEF blocks
  <2> QED
    BY <1>2, <1>4, <1>7, <2>1 DEF IInv
\* the tree as it is has a node
<1>8. CASE /\ Find(E, q) # 0 /\ Take(E, parent_set, Find(E, q), q)
           /\ UNCHANGED <<error, overrun>>
  <2>1. CASE status' = "crashed" /\ UNCHANGED blocks
    BY <1>4, <1>7, <1>8, <2>1
  <2>2. CASE status' = status /\ status' # "crashed"
    <3>1. ~overrun => /\ Fit(empty_blocks_bst', reserved_blocks_list', n)
                      /\ ~error => Covered(Range(empty_blocks_bst') \cup Range(reserved_blocks_list'), n)
      BY <1>4, <1>5, <1>8, <2>2
    <3> QED
      BY <1>2, <1>4, <1>8, <2>2, <3>1 DEF IInv
  <2>3. status # "crashed"
    BY DEF mem_allocate
  <2> QED
    BY <1>6, <1>8, <2>1, <2>2, <2>3
<1>9. CASE status' = "crashed" /\ UNCHANGED <<blocks, error, overrun>>
  BY <1>4, <1>7, <1>9
\* the tree is built again
<1>10. CASE /\ error' = (error \/ Broken) /\ overrun' = (overrun \/ Overrun)
            /\ IF Find(Rebuilt, q) # 0
               THEN Take(Rebuilt, Skipped /\ parent_set, Find(Rebuilt, q), q)
               ELSE /\ empty_blocks_bst' = Rebuilt
                    /\ parent_set' = (Skipped /\ parent_set)
                    /\ UNCHANGED <<reserved_blocks_list, status>>
  <2>1. PICK bst : bst = Rebuilt
    OBVIOUS
  <2>2. /\ error' \in BOOLEAN /\ overrun' \in BOOLEAN
        /\ error => error'
        /\ overrun => overrun'
    BY <1>4, <1>10 DEF Broken, Overrun
  <2>3. overrun' => BLOCK_SIZE > 1
    <3> SUFFICES ASSUME ~overrun, Overrun PROVE BLOCK_SIZE > 1
      BY <1>4, <1>10
    <3>1. BLOCK_SIZE # 1
      BY <1>1, <1>3, <1>4, BytesNotOverrun
    <3> QED
      BY <3>1, AllocatorAssumption
  <2>4. ASSUME ~overrun'
        PROVE  /\ Fit(bst, R, n)
               /\ ~error' => Covered(Range(bst) \cup Range(R), n)
    <3>1. ~overrun /\ ~Overrun /\ (~error' => ~error /\ ~Broken)
      BY <1>10, <2>4
    <3>2. /\ Fit(bst, R, n)
          /\ ~Broken /\ Covered(Range(E) \cup Range(R), n) => Covered(Range(bst) \cup Range(R), n)
      BY <1>1, <1>3, <1>4, <2>1, <3>1, RebuiltFits
    <3> QED
      BY <1>4, <3>1, <3>2
  <2>5. CASE Find(bst, q) # 0
    <3>1. PICK set : Take(bst, set, Find(bst, q), q)
      BY <1>10, <2>1, <2>5
    <3>2. CASE status' = "crashed" /\ UNCHANGED blocks
      BY <1>7, <2>2, <2>3, <3>2
    <3>3. CASE status' = status /\ status' # "crashed"
      <4>1. ~overrun' => /\ Fit(empty_blocks_bst', reserved_blocks_list', n)
                         /\ ~error' => Covered(Range(empty_blocks_bst') \cup Range(reserved_blocks_list'), n)
        BY <1>5, <2>4, <2>5, <3>1, <3>3
      <4> QED
        BY <1>2, <1>4, <2>2, <2>3, <3>3, <4>1 DEF IInv
    <3>4. status # "crashed"
      BY DEF mem_allocate
    <3> QED
      BY <1>6, <3>1, <3>2, <3>3, <3>4
  <2>6. CASE Find(bst, q) = 0
    <3>1. /\ empty_blocks_bst' = bst /\ reserved_blocks_list' = R /\ status' = status
      BY <1>3, <1>10, <2>1, <2>6
    <3> QED
      BY <1>2, <1>4, <2>2, <2>3, <2>4, <3>1 DEF IInv
  <2> QED
    BY <2>5, <2>6
<1> QED
  BY <1>1, <1>3, <1>8, <1>9, <1>10 DEF mem_allocate

LEMMA MemDeallocateKeeps ==
  ASSUME IInv, NEW address, mem_deallocate(address)
  PROVE  IInv'
<1>1. PICK E, R, n : E = empty_blocks_bst /\ R = reserved_blocks_list /\ n = buffer_end
  OBVIOUS
<1>2. UNCHANGED <<strategy, status, block_quantity, error, overrun>> /\ buffer_end' = n
  BY <1>1 DEF mem_deallocate, buffer_end
<1>3. CASE overrun
  BY <1>2, <1>3 DEF IInv
<1>4. CASE ~overrun
  <2>1. Fit(E, R, n) /\ (~error => Covered(Range(E) \cup Range(R), n))
    BY <1>1, <1>4 DEF IInv
  <2>2. /\ E \in Seq(Blocks) /\ IsInjective(E) /\ R \in Seq(Blocks) /\ Sorted(R)
        /\ Range(E) \cap Range(R) = {}
        /\ Apart(Range(E) \cup Range(R)) /\ Inside(Range(E) \cup Range(R), n)
    BY <2>1 DEF Fit
  <2>3. PICK k \in DOMAIN R : /\ empty_blocks_bst' = bst_add_node(E, R[k])
                              /\ reserved_blocks_list' = list_delete_node(R, k)
    BY <1>1 DEF mem_deallocate
  <2>4. PICK b, tree, list : /\ b = R[k] /\ tree = empty_blocks_bst'
                             /\ list = reserved_blocks_list'
    OBVIOUS
  <2>5. b \in Blocks /\ b \in Range(R) /\ b \notin Range(E)
    <3>1. b \in Range(R)
      BY <2>4 DEF Range
    <3> QED
      BY <2>2, <2>4, <3>1
  <2>6. tree \in Seq(Blocks) /\ IsInjective(tree) /\ Range(tree) = Range(E) \cup {b}
    BY <2>2, <2>3, <2>4, <2>5, Appended DEF bst_add_node
  <2>7. list \in Seq(Blocks) /\ Sorted(list) /\ Range(list) = Range(R) \ {b}
    BY <2>2, <2>3, <2>4, DeletedFromList
  <2>8. Range(tree) \cup Range(list) = Range(E) \cup Range(R) /\ Range(tree) \cap Range(list) = {}
    BY <2>2, <2>5, <2>6, <2>7
  <2>9. Fit(tree, list, n)
    BY <2>2, <2>6, <2>7, <2>8 DEF Fit
  <2> QED
    BY <1>2, <1>4, <2>1, <2>4, <2>8, <2>9 DEF IInv
<1> QED
  BY <1>3, <1>4 DEF IInv

\* Of a tree and a list that share the buffer every byte is in one block.
LEMMA FitIsPartition ==
  ASSUME IInv
  PROVE  BufferPartitioned
<1>0. SUFFICES ASSUME ~overrun
               PROVE  /\ BlocksApart
                      /\ ~error => UNION {Bytes(All[k]) : k \in DOMAIN All} = 0 .. buffer_end - 1
  BY DEF BufferPartitioned
<1>1. PICK E, R, n, s : /\ E = empty_blocks_bst /\ R = reserved_blocks_list
                        /\ n = buffer_end /\ s = All
  OBVIOUS
<1>2. /\ E \in Seq(Blocks) /\ IsInjective(E) /\ R \in Seq(Blocks) /\ Sorted(R)
      /\ Range(E) \cap Range(R) = {}
      /\ Apart(Range(E) \cup Range(R)) /\ Inside(Range(E) \cup Range(R), n)
      /\ n \in Nat /\ (~error => Covered(Range(E) \cup Range(R), n))
  BY <1>0, <1>1, BufferEnd DEF IInv, Fit
<1>4. /\ s \in Seq(Blocks) /\ Len(s) = Len(E) + Len(R)
      /\ \A j \in 1 .. Len(E) + Len(R) : s[j] = IF j <= Len(E) THEN E[j] ELSE R[j - Len(E)]
  <2>1. s = E \o R
    BY <1>1 DEF All
  <2> QED
    BY <1>2, <2>1, ConcatProperties
<1>5. /\ Len(E) \in Nat /\ DOMAIN E = 1 .. Len(E) /\ Len(R) \in Nat /\ DOMAIN R = 1 .. Len(R)
      /\ DOMAIN s = 1 .. Len(E) + Len(R)
      /\ \A j \in DOMAIN R : R[j].address \in Nat
  BY <1>2, <1>4, BlockOf
<1>6. \A j \in DOMAIN s : \/ j \in DOMAIN E /\ s[j] = E[j] /\ s[j] \in Range(E)
                          \/ j - Len(E) \in DOMAIN R /\ s[j] = R[j - Len(E)] /\ s[j] \in Range(R)
  <2> SUFFICES ASSUME NEW j \in DOMAIN s
               PROVE  \/ j \in DOMAIN E /\ s[j] = E[j] /\ s[j] \in Range(E)
                      \/ j - Len(E) \in DOMAIN R /\ s[j] = R[j - Len(E)] /\ s[j] \in Range(R)
    OBVIOUS
  <2>1. CASE j <= Len(E)
    <3>1. j \in DOMAIN E /\ s[j] = E[j]
      BY <1>4, <1>5, <2>1
    <3> QED
      BY <3>1 DEF Range
  <2>2. CASE ~(j <= Len(E))
    <3>1. j - Len(E) \in DOMAIN R /\ s[j] = R[j - Len(E)]
      BY <1>4, <1>5, <2>2
    <3> QED
      BY <3>1 DEF Range
  <2> QED
    BY <2>1, <2>2
<1>7. \A j \in DOMAIN R : \A k \in DOMAIN R : R[j] = R[k] => j = k
  BY <1>2, <1>5 DEF Sorted
<1>8. \A j, k \in DOMAIN s : j # k => s[j] # s[k]
  <2> SUFFICES ASSUME NEW j \in DOMAIN s, NEW k \in DOMAIN s, s[j] = s[k] PROVE j = k
    OBVIOUS
  <2>1. CASE s[j] \in Range(E)
    <3>1. j \in DOMAIN E /\ k \in DOMAIN E /\ E[j] = E[k]
      BY <1>2, <1>6, <2>1
    <3> QED
      BY <1>2, <3>1 DEF IsInjective
  <2>2. CASE s[j] \notin Range(E)
    <3>1. /\ j - Len(E) \in DOMAIN R /\ k - Len(E) \in DOMAIN R
          /\ R[j - Len(E)] = R[k - Len(E)]
      BY <1>6, <2>2
    <3>2. j - Len(E) = k - Len(E)
      BY <1>7, <3>1
    <3> QED
      BY <1>5, <3>2
  <2> QED
    BY <2>1, <2>2
<1>9. Range(s) = Range(E) \cup Range(R)
  <2>1. \A b \in Range(E) : \E j \in DOMAIN s : s[j] = b
    <3> SUFFICES ASSUME NEW i \in DOMAIN E PROVE \E j \in DOMAIN s : s[j] = E[i]
      BY DEF Range
    <3>1. i \in DOMAIN s /\ s[i] = E[i]
      BY <1>4, <1>5
    <3> QED
      BY <3>1
  <2>2. \A b \in Range(R) : \E j \in DOMAIN s : s[j] = b
    <3> SUFFICES ASSUME NEW i \in DOMAIN R PROVE \E j \in DOMAIN s : s[j] = R[i]
      BY DEF Range
    <3>1. Len(E) + i \in DOMAIN s /\ ~(Len(E) + i <= Len(E)) /\ Len(E) + i - Len(E) = i
      BY <1>5
    <3> QED
      BY <1>4, <1>5, <3>1
  <2> QED
    BY <1>6, <2>1, <2>2 DEF Range
<1>10. \A b \in Range(s) : /\ b.address \in Nat /\ End(b) \in Nat /\ End(b) <= n
  <2>1. \A b \in Range(s) : b \in Blocks
    BY <1>4 DEF Range
  <2> QED
    BY <1>2, <1>9, <2>1, BlockEnds DEF Inside
<1>11. \A k \in DOMAIN s : s[k] \in Range(s)
  BY DEF Range
<1>12. ASSUME NEW j \in DOMAIN s, NEW k \in DOMAIN s
       PROVE  /\ Bytes(s[k]) \subseteq 0 .. n - 1
              /\ j # k => Bytes(s[j]) \cap Bytes(s[k]) = {}
  <2>1. PICK b, c : b = s[j] /\ c = s[k]
    OBVIOUS
  <2>2. /\ b.address \in Nat /\ End(b) \in Nat /\ End(b) <= n
        /\ c.address \in Nat /\ End(c) \in Nat /\ End(c) <= n
    BY <1>10, <1>11, <2>1
  <2>3. Bytes(c) \subseteq 0 .. n - 1
    BY <1>2, <2>2 DEF Bytes
  <2>4. j # k => End(b) <= c.address \/ End(c) <= b.address
    BY <1>2, <1>8, <1>9, <1>11, <2>1 DEF Apart
  <2>5. j # k => Bytes(b) \cap Bytes(c) = {}
    BY <2>2, <2>4 DEF Bytes
  <2> QED
    BY <2>1, <2>3, <2>5
<1>13. BlocksApart
  BY <1>1, <1>12 DEF BlocksApart
<1>14. ASSUME ~error
       PROVE  UNION {Bytes(s[k]) : k \in DOMAIN s} = 0 .. n - 1
  <2>1. \A x \in 0 .. n - 1 : \E k \in DOMAIN s : x \in Bytes(s[k])
    <3> SUFFICES ASSUME NEW x \in 0 .. n - 1 PROVE \E k \in DOMAIN s : x \in Bytes(s[k])
      OBVIOUS
    <3>1. PICK b \in Range(s) : b.address <= x /\ x < End(b)
      BY <1>2, <1>9, <1>14 DEF Covered
    <3>2. x \in Bytes(b)
      BY <1>2, <1>10, <3>1 DEF Bytes
    <3> QED
      BY <3>2 DEF Range
  <2>2. \A k \in DOMAIN s : Bytes(s[k]) \subseteq 0 .. n - 1
    BY <1>12
  <2> QED
    BY <2>1, <2>2
<1> QED
  BY <1>1, <1>13, <1>14

LEMMA NextKeeps ==
  ASSUME IInv, [Next]_vars
  PROVE  IInv'
<1>1. ASSUME NEW n \in QUANTITIES, mem_init(n) PROVE IInv'
  BY <1>1, MemInitKeeps
<1>2. CASE mem_finish
  BY <1>2, MemFinishKeeps
<1>3. ASSUME NEW size \in 1 .. buffer_end, mem_allocate(size) PROVE IInv'
  BY <1>3, MemAllocateKeeps
<1>4. ASSUME NEW address \in 0 .. buffer_end, mem_deallocate(address) PROVE IInv'
  BY <1>4, MemDeallocateKeeps
<1>5. CASE UNCHANGED vars
  <2>1. /\ strategy' = strategy /\ status' = status /\ block_quantity' = block_quantity
        /\ empty_blocks_bst' = empty_blocks_bst
        /\ reserved_blocks_list' = reserved_blocks_list /\ error' = error
        /\ overrun' = overrun /\ buffer_end' = buffer_end
    BY <1>5 DEF vars, blocks, buffer_end
  <2> QED
    BY <2>1 DEF IInv
<1> QED
  BY <1>1, <1>2, <1>3, <1>4, <1>5 DEF Next

\* The tree and the list hold blocks that share the buffer, whichever the strategy
\* and the size of the blocks, however often mem_init, mem_allocate and
\* mem_deallocate were called, until a defragmentation overruns the last block.
THEOREM BlocksFit == Spec => []IInv
<1>1. Init => IInv
  BY InitKeeps
<1>2. IInv /\ [Next]_vars => IInv'
  BY NextKeeps
<1> QED
  BY <1>1, <1>2, PTL DEF Spec

\* No byte is in two blocks, and none is lost before the program prints "Memory
\* defragmenting error occured.": splitting, releasing and building the tree again
\* (mem_management.c) keep the buffer in order, except where line 217 moves
\* `begin' into the last reserved block, which takes blocks of more than one byte.
THEOREM BufferInOrder == Spec => [](BufferPartitioned /\ (overrun => BLOCK_SIZE > 1))
<1>1. IInv => BufferPartitioned /\ (overrun => BLOCK_SIZE > 1)
  BY FitIsPartition DEF IInv
<1> QED
  BY <1>1, BlocksFit, PTL

-----------------------------------------------------------------------------
\* Blocks of any size: the list stays ordered

Nodes == [address : Nat, quantity : Nat]

Ordered(list) ==
  \A j, k \in DOMAIN list : j < k => list[j].address <= list[k].address

\* The types, and the list in order.
OrderOK ==
  /\ strategy \in STRATEGIES /\ status \in {"off", "on", "crashed"}
  /\ block_quantity \in Nat /\ error \in BOOLEAN /\ overrun \in BOOLEAN
  /\ empty_blocks_bst \in Seq(Nodes) /\ parent_set \in BOOLEAN
  /\ reserved_blocks_list \in Seq(Nodes) /\ Ordered(reserved_blocks_list)

LEMMA NodeOf ==
  ASSUME NEW s \in Seq(Nodes)
  PROVE  /\ DOMAIN s = 1 .. Len(s) /\ Len(s) \in Nat
         /\ \A k \in DOMAIN s : s[k] \in Nodes
         /\ \A k \in DOMAIN s : s[k].address \in Nat /\ s[k].quantity \in Nat
<1>1. DOMAIN s = 1 .. Len(s) /\ Len(s) \in Nat
  OBVIOUS
<1>2. \A k \in DOMAIN s : s[k] \in Nodes
  OBVIOUS
<1>3. \A b \in Nodes : b.address \in Nat /\ b.quantity \in Nat
  BY DEF Nodes
<1> QED
  BY <1>1, <1>2, <1>3

LEMMA NoNodes == <<>> \in Seq(Nodes) /\ Ordered(<<>>)
BY DEF Ordered

LEMMA NodeEnds ==
  /\ BLOCK_SIZE \in Nat \ {0}
  /\ \A a, q \in Nat : /\ Block(a, q) \in Nodes
                       /\ Block(a, q).address = a /\ Block(a, q).quantity = q
  /\ \A b \in Nodes : End(b) \in Nat
  /\ \A i \in Nat : i \div BLOCK_SIZE \in Nat /\ i * BLOCK_SIZE \in Nat
<1>1. BLOCK_SIZE \in Nat \ {0}
  BY AllocatorAssumption
<1>2. \A a, q \in Nat : /\ Block(a, q) \in Nodes
                        /\ Block(a, q).address = a /\ Block(a, q).quantity = q
  BY DEF Block, Nodes
<1>3. \A i \in Nat : i \div BLOCK_SIZE \in Nat /\ i * BLOCK_SIZE \in Nat
  BY <1>1
<1>4. ASSUME NEW b \in Nodes PROVE End(b) \in Nat
  <2>1. b.address \in Nat /\ b.quantity \in Nat
    BY DEF Nodes
  <2>2. b.quantity * BLOCK_SIZE \in Nat
    BY <1>3, <2>1
  <2> QED
    BY <2>1, <2>2 DEF End
<1> QED
  BY <1>1, <1>2, <1>3, <1>4

\* A tree without one of its nodes is a tree.
LEMMA DeletedIsTree ==
  ASSUME NEW bst \in Seq(Nodes), NEW k \in DOMAIN bst
  PROVE  bst_delete_node(bst, k) \in Seq(Nodes)
<1>1. CASE Left(bst, k) = {} \/ Right(bst, k) = {}
  <2>1. RemoveAt(bst, k) \in Seq(Nodes)
    BY Removed
  <2> QED
    BY <1>1, <2>1 DEF bst_delete_node
<1>2. CASE ~(Left(bst, k) = {} \/ Right(bst, k) = {})
  <2>1. PICK m : m = Minimum(bst, Right(bst, k))
    OBVIOUS
  <2>2. m \in DOMAIN bst
    <3>1. Right(bst, k) \subseteq k + 1 .. Len(bst)
      BY DEF Right, Below
    <3>2. Right(bst, k) \subseteq DOMAIN bst
      BY <3>1
    <3>3. Right(bst, k) \subseteq Nat /\ \A j \in Right(bst, k) : bst[j].quantity \in Nat
      BY <3>2, NodeOf
    <3> QED
      BY <1>2, <2>1, <3>2, <3>3, MinimumOf
  <2>3. PICK t : t = [bst EXCEPT ![k] = bst[m]]
    OBVIOUS
  <2>4. t \in Seq(Nodes) /\ m \in DOMAIN t
    BY <2>2, <2>3
  <2>5. RemoveAt(t, m) \in Seq(Nodes)
    BY <2>4, Removed
  <2> QED
    BY <1>2, <2>1, <2>3, <2>5 DEF bst_delete_node
<1> QED
  BY <1>1, <1>2

LEMMA AddedInOrder ==
  ASSUME NEW list \in Seq(Nodes), Ordered(list), NEW b \in Nodes
  PROVE  list_add_node(list, b) \in Seq(Nodes) /\ Ordered(list_add_node(list, b))
<1>1. /\ DOMAIN list = 1 .. Len(list) /\ Len(list) \in Nat /\ b.address \in Nat
      /\ \A j \in DOMAIN list : list[j].address \in Nat
  <2>1. b.address \in Nat
    BY DEF Nodes
  <2> QED
    BY <2>1, NodeOf
<1>2. PICK p \in 1 .. Len(list) + 1 :
           /\ list_add_node(list, b) = InsertAt(list, p, b)
           /\ \A k \in DOMAIN list : k < p => list[k].address < b.address
           /\ \A k \in DOMAIN list : k >= p => b.address <= list[k].address
  BY <1>1, Placed DEF Ordered
<1> DEFINE r == InsertAt(list, p, b)
<1>3. r \in Seq(Nodes) /\ Around(list, b, p, r)
  BY AroundInserted
<1> HIDE DEF r
<1>4. DOMAIN r = 1 .. Len(list) + 1 /\ r[p] = b
  BY <1>3 DEF Around
<1>5. PICK f \in [DOMAIN r \ {p} -> DOMAIN list] :
           /\ \A j \in DOMAIN r \ {p} : r[j] = list[f[j]] /\ (j < p <=> f[j] < p)
           /\ \A j, k \in DOMAIN r \ {p} : j < k => f[j] < f[k]
  BY <1>3 DEF Around
<1>6. Ordered(r)
  <2> SUFFICES ASSUME NEW j \in DOMAIN r, NEW k \in DOMAIN r, j < k
               PROVE  r[j].address <= r[k].address
    BY DEF Ordered
  <2>1. CASE j # p /\ k # p
    <3>1. f[j] \in DOMAIN list /\ f[k] \in DOMAIN list /\ f[j] < f[k]
      BY <1>5, <2>1
    <3> QED
      BY <1>5, <2>1, <3>1 DEF Ordered
  <2>2. CASE k = p
    <3>1. j \in DOMAIN r \ {p} /\ f[j] \in DOMAIN list /\ f[j] < p
      BY <1>4, <1>5, <2>2
    <3>2. list[f[j]].address < b.address /\ r[j] = list[f[j]]
      BY <1>2, <1>5, <3>1
    <3> QED
      BY <1>1, <1>4, <2>2, <3>1, <3>2
  <2>3. CASE j = p
    <3>1. k \in DOMAIN r \ {p} /\ ~(k < p)
      BY <1>4, <2>3
    <3>2. f[k] \in DOMAIN list /\ ~(f[k] < p) /\ r[k] = list[f[k]]
      BY <1>5, <3>1
    <3>3. f[k] >= p
      BY <1>1, <3>2
    <3> QED
      BY <1>2, <1>4, <2>3, <3>2, <3>3
  <2> QED
    BY <2>1, <2>2, <2>3
<1> QED
  BY <1>2, <1>3, <1>6 DEF r

LEMMA DeletedInOrder ==
  ASSUME NEW list \in Seq(Nodes), Ordered(list), NEW k \in DOMAIN list
  PROVE  list_delete_node(list, k) \in Seq(Nodes) /\ Ordered(list_delete_node(list, k))
<1>1. DOMAIN list = 1 .. Len(list) /\ Len(list) \in Nat
  BY NodeOf
<1> DEFINE r == RemoveAt(list, k)
<1>2. /\ r \in Seq(Nodes) /\ Len(r) = Len(list) - 1
      /\ \A j \in 1 .. Len(list) - 1 : r[j] = IF j < k THEN list[j] ELSE list[j + 1]
  BY Removed
<1> HIDE DEF r
<1>3. Ordered(r)
  <2> SUFFICES ASSUME NEW i \in DOMAIN r, NEW j \in DOMAIN r, i < j
               PROVE  r[i].address <= r[j].address
    BY DEF Ordered
  <2>1. i \in 1 .. Len(list) - 1 /\ j \in 1 .. Len(list) - 1
    BY <1>2
  <2>2. \A m \in 1 .. Len(list) - 1 :
          \E x \in DOMAIN list : r[m] = list[x] /\ x = IF m < k THEN m ELSE m + 1
    <3> SUFFICES ASSUME NEW m \in 1 .. Len(list) - 1
                 PROVE  r[m] = list[IF m < k THEN m ELSE m + 1]
                        /\ (IF m < k THEN m ELSE m + 1) \in DOMAIN list
      OBVIOUS
    <3>1. m \in DOMAIN list /\ m + 1 \in DOMAIN list
      BY <1>1
    <3> QED
      BY <1>2, <3>1
  <2>3. PICK x \in DOMAIN list, y \in DOMAIN list :
             /\ r[i] = list[x] /\ x = IF i < k THEN i ELSE i + 1
             /\ r[j] = list[y] /\ y = IF j < k THEN j ELSE j + 1
    BY <2>1, <2>2
  <2>4. x < y
    BY <1>1, <2>1, <2>3
  <2> QED
    BY <2>3, <2>4 DEF Ordered
<1> QED
  BY <1>2, <1>3 DEF r, list_delete_node

LEMMA TakeOrdered ==
  ASSUME NEW bst \in Seq(Nodes), reserved_blocks_list \in Seq(Nodes),
         Ordered(reserved_blocks_list), NEW q \in Nat, Find(bst, q) # 0,
         NEW set \in BOOLEAN, Take(bst, set, Find(bst, q), q), status' # "crashed"
  PROVE  /\ empty_blocks_bst' \in Seq(Nodes) /\ parent_set' \in BOOLEAN
         /\ reserved_blocks_list' \in Seq(Nodes) /\ Ordered(reserved_blocks_list')
<1>1. PICK k : k = Find(bst, q)
  OBVIOUS
<1>2. k \in DOMAIN bst /\ bst[k].quantity >= q
  BY <1>1, FoundNode
<1>3. PICK b : b = bst[k]
  OBVIOUS
<1>4. b.address \in Nat /\ b.quantity \in Nat
  BY <1>2, <1>3, NodeOf
<1>5. PICK taken : taken = Block(b.address, q)
  OBVIOUS
<1>6. taken \in Nodes /\ End(taken) \in Nat
  BY <1>4, <1>5, NodeEnds
<1>7. PICK rest : rest = bst_delete_node(bst, k)
  OBVIOUS
<1>8. rest \in Seq(Nodes)
  BY <1>2, <1>7, DeletedIsTree
<1>9. /\ reserved_blocks_list' = list_add_node(reserved_blocks_list, taken)
      /\ empty_blocks_bst' = IF b.quantity > q
                             THEN Append(rest, Block(End(taken), b.quantity - q))
                             ELSE rest
      /\ parent_set' = (rest # <<>> /\ (set \/ k = 1))
  BY <1>1, <1>3, <1>5, <1>7 DEF Take, bst_add_node
<1>10. reserved_blocks_list' \in Seq(Nodes) /\ Ordered(reserved_blocks_list')
  BY <1>6, <1>9, AddedInOrder
<1>11. empty_blocks_bst' \in Seq(Nodes)
  <2>1. CASE b.quantity > q
    <3>1. b.quantity - q \in Nat
      BY <1>4, <2>1
    <3>2. Block(End(taken), b.quantity - q) \in Nodes
      BY <1>6, <3>1, NodeEnds
    <3> QED
      BY <1>8, <1>9, <2>1, <3>2
  <2>2. CASE ~(b.quantity > q)
    BY <1>8, <1>9, <2>2
  <2> QED
    BY <2>1, <2>2
<1>12. parent_set' \in BOOLEAN
  BY <1>9
<1> QED
  BY <1>10, <1>11, <1>12

LEMMA RebuiltIsTree ==
  ASSUME empty_blocks_bst \in Seq(Nodes), reserved_blocks_list \in Seq(Nodes),
         block_quantity \in Nat
  PROVE  Rebuilt \in Seq(Nodes)
<1>1. CASE Skipped
  BY <1>1 DEF Rebuilt
<1>2. CASE ~Skipped /\ Gap.address < begin
  BY <1>2 DEF Rebuilt
<1>3. CASE ~Skipped /\ ~(Gap.address < begin)
  <2>1. PICK R, p, s, g : R = reserved_blocks_list /\ p = Prefix /\ s = begin /\ g = Gap
    OBVIOUS
  <2>2. /\ DOMAIN R = 1 .. Len(R) /\ Len(R) \in Nat /\ \A k \in DOMAIN R : R[k] \in Nodes
        /\ \A k \in DOMAIN R : R[k].address \in Nat /\ R[k].quantity \in Nat
    BY <2>1, NodeOf
  <2>3. p \in 0 .. Len(R)
    <3> DEFINE T == {0} \cup {k \in DOMAIN R : \A j \in 1 .. k : R[j].address =
                                      IF j = 1 THEN 0 ELSE End(R[j - 1])}
    <3>1. p = Max(T)
      BY <2>1 DEF Prefix
    <3>2. T \subseteq 0 .. Len(R) /\ T \subseteq Nat /\ T # {} /\ \A k \in T : k <= Len(R)
      BY <2>2
    <3> HIDE DEF T
    <3>3. p \in T
      BY <2>2, <3>1, <3>2, MaxOf
    <3> QED
      BY <3>2, <3>3
  <2>4. p + 1 \in DOMAIN R
    <3>1. p # Len(R)
      BY <1>3, <2>1 DEF Skipped
    <3>2. p \in Nat /\ p <= Len(R) /\ Len(R) \in Nat /\ DOMAIN R = 1 .. Len(R)
      BY <2>2, <2>3
    <3>3. PICK n : n = Len(R)
      OBVIOUS
    <3>4. p \in Nat /\ n \in Nat /\ p <= n /\ p # n
      BY <3>1, <3>2, <3>3
    <3>5. p + 1 \in 1 .. n
      BY ONLY <3>4
    <3> QED
      BY <3>2, <3>3, <3>5
  <2>5. g \in Nodes /\ g.address \in Nat /\ g.quantity \in Nat
    BY <2>1, <2>2, <2>4 DEF Gap
  <2>6. s \in Nat
    <3>1. p # 0 => p \in DOMAIN R
      BY <2>2, <2>3
    <3>2. s = IF p = 0 THEN 0 ELSE End(R[p])
      BY <2>1 DEF begin
    <3>3. p # 0 => End(R[p]) \in Nat
      BY <2>2, <3>1, NodeEnds
    <3> QED
      BY <3>2, <3>3
  <2>7. g.address - s \in Nat
    BY <1>3, <2>1, <2>5, <2>6
  <2>8. GapNode \in Nodes
    BY <2>1, <2>6, <2>7, NodeEnds DEF GapNode
  <2>9. behind \in Nat /\ buffer_end \in Nat
    <3>1. behind = g.address + g.quantity
      BY <2>1 DEF behind
    <3>2. block_quantity * BLOCK_SIZE \in Nat
      BY NodeEnds
    <3> QED
      BY <2>5, <3>1, <3>2 DEF buffer_end
  <2>10. CASE Broken \/ behind >= buffer_end
    <3>1. Rebuilt = <<GapNode>>
      BY <1>3, <2>10 DEF Rebuilt
    <3> QED
      BY <2>8, <3>1
  <2>11. CASE ~(Broken \/ behind >= buffer_end)
    <3>1. PICK last : last = Block(behind, (buffer_end - behind) \div BLOCK_SIZE)
      OBVIOUS
    <3>2. buffer_end - behind \in Nat
      BY <2>9, <2>11
    <3>3. last \in Nodes
      BY <2>9, <3>1, <3>2, NodeEnds
    <3>4. Rebuilt = <<GapNode, last>>
      BY <1>3, <2>11, <3>1 DEF Rebuilt
    <3> QED
      BY <2>8, <3>3, <3>4
  <2> QED
    BY <2>10, <2>11
<1> QED
  BY <1>1, <1>2, <1>3

LEMMA InitOrdered ==
  ASSUME Init
  PROVE  OrderOK
BY NoNodes DEF Init, OrderOK

LEMMA OrderKept ==
  ASSUME OrderOK, [Next]_vars
  PROVE  OrderOK'
<1>1. ASSUME NEW n \in QUANTITIES, mem_init(n) PROVE OrderOK'
  <2>1. n \in Nat
    BY AllocatorAssumption
  <2>2. Block(0, n) \in Nodes
    BY <2>1, NodeEnds
  <2>3. /\ strategy' = strategy /\ status' = "on" /\ block_quantity' = n
        /\ error' = FALSE /\ overrun' = FALSE /\ parent_set' = FALSE
        /\ empty_blocks_bst' = <<Block(0, n)>> /\ reserved_blocks_list' = <<>>
    BY <1>1 DEF mem_init
  <2>4. <<Block(0, n)>> \in Seq(Nodes)
    BY <2>2
  <2> QED
    BY <2>1, <2>3, <2>4, NoNodes DEF OrderOK
<1>2. CASE mem_finish
  BY <1>2, NoNodes DEF OrderOK, mem_finish
<1>3. ASSUME NEW size \in 1 .. buffer_end, mem_allocate(size) PROVE OrderOK'
  <2>1. PICK q : q = (size + BLOCK_SIZE - 1) \div BLOCK_SIZE
    OBVIOUS
  <2>2. q \in Nat
    <3>1. BLOCK_SIZE \in Nat \ {0} /\ buffer_end \in Nat
      BY NodeEnds DEF OrderOK, buffer_end
    <3>2. size + BLOCK_SIZE - 1 \in Nat
      BY <3>1
    <3> QED
      BY <2>1, <3>2, NodeEnds
  <2>3. /\ strategy \in STRATEGIES /\ status \in {"off", "on", "crashed"} /\ error \in BOOLEAN
        /\ overrun \in BOOLEAN /\ parent_set \in BOOLEAN
        /\ empty_blocks_bst \in Seq(Nodes) /\ reserved_blocks_list \in Seq(Nodes)
        /\ Ordered(reserved_blocks_list) /\ block_quantity \in Nat
        /\ strategy' = strategy /\ block_quantity' = block_quantity
    BY <1>3 DEF OrderOK, mem_allocate
  <2>4. ASSUME NEW bst \in Seq(Nodes), NEW set \in BOOLEAN, Find(bst, q) # 0,
               Take(bst, set, Find(bst, q), q), error' \in BOOLEAN, overrun' \in BOOLEAN
        PROVE  OrderOK'
    <3>1. status' = status \/ (status' = "crashed" /\ UNCHANGED blocks)
      BY <2>4 DEF Take
    <3>2. CASE status' = "crashed" /\ UNCHANGED blocks
      BY <2>3, <2>4, <3>2 DEF OrderOK, blocks
    <3>3. CASE status' = status /\ status' # "crashed"
      <4>1. /\ empty_blocks_bst' \in Seq(Nodes) /\ parent_set' \in BOOLEAN
            /\ reserved_blocks_list' \in Seq(Nodes) /\ Ordered(reserved_blocks_list')
        BY <2>2, <2>3, <2>4, <3>3, TakeOrdered
      <4> QED
        BY <2>3, <2>4, <3>3, <4>1 DEF OrderOK
    <3>4. status # "crashed"
      BY <1>3 DEF mem_allocate
    <3> QED
      BY <3>1, <3>2, <3>3, <3>4
  <2>5. CASE /\ Find(empty_blocks_bst, q) # 0
             /\ Take(empty_blocks_bst, parent_set, Find(empty_blocks_bst, q), q)
             /\ UNCHANGED <<error, overrun>>
    BY <2>3, <2>4, <2>5
  <2>6. CASE status' = "crashed" /\ UNCHANGED <<blocks, error, overrun>>
    BY <2>3, <2>6 DEF OrderOK, blocks
  <2>7. CASE /\ error' = (error \/ Broken) /\ overrun' = (overrun \/ Overrun)
             /\ IF Find(Rebuilt, q) # 0
                THEN Take(Rebuilt, Skipped /\ parent_set, Find(Rebuilt, q), q)
                ELSE /\ empty_blocks_bst' = Rebuilt
                     /\ parent_set' = (Skipped /\ parent_set)
                     /\ UNCHANGED <<reserved_blocks_list, status>>
    <3>1. Rebuilt \in Seq(Nodes)
      BY <2>3, RebuiltIsTree
    <3>2. error' \in BOOLEAN /\ overrun' \in BOOLEAN /\ (Skipped /\ parent_set) \in BOOLEAN
      BY <2>3, <2>7 DEF Broken, Overrun, Skipped
    <3>3. CASE Find(Rebuilt, q) # 0
      BY <2>4, <2>7, <3>1, <3>2, <3>3
    <3>4. CASE Find(Rebuilt, q) = 0
      BY <2>3, <2>7, <3>1, <3>2, <3>4 DEF OrderOK
    <3> QED
      BY <3>3, <3>4
  <2> QED
    BY <1>3, <2>1, <2>5, <2>6, <2>7 DEF mem_allocate
<1>4. ASSUME NEW address \in 0 .. buffer_end, mem_deallocate(address) PROVE OrderOK'
  <2>1. PICK k \in DOMAIN reserved_blocks_list :
             /\ empty_blocks_bst' = Append(empty_blocks_bst, reserved_blocks_list[k])
             /\ reserved_blocks_list' = list_delete_node(reserved_blocks_list, k)
    BY <1>4 DEF mem_deallocate, bst_add_node
  <2>2. empty_blocks_bst' \in Seq(Nodes)
    BY <2>1 DEF OrderOK
  <2>3. reserved_blocks_list' \in Seq(Nodes) /\ Ordered(reserved_blocks_list')
    BY <2>1, DeletedInOrder DEF OrderOK
  <2> QED
    BY <1>4, <2>2, <2>3 DEF OrderOK, mem_deallocate
<1>5. CASE UNCHANGED vars
  BY <1>5 DEF OrderOK, vars, blocks
<1> QED
  BY <1>1, <1>2, <1>3, <1>4, <1>5 DEF Next

\* Whatever the size of the blocks: the variables keep their types, no size or
\* address becomes negative, and list_add_node and list_delete_node (list.c) keep
\* the reserved blocks in the order of their addresses, which building the tree
\* again relies on.
THEOREM ListStaysOrdered == Spec => []OrderOK
<1>1. Init => OrderOK
  BY InitOrdered
<1>2. OrderOK /\ [Next]_vars => OrderOK'
  BY OrderKept
<1> QED
  BY <1>1, <1>2, PTL DEF Spec

=============================================================================
