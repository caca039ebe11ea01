----------------------------- MODULE AtomicArray ----------------------------
(***************************************************************************)
(* What the readers and writers of lab08/zad2 promise: a reader's scan     *)
(* shows the shared array as it was at one moment between two complete     *)
(* modifications, never a half-finished one.                               *)
(***************************************************************************)
CONSTANTS Readers, Arrays, NoArray

VARIABLES
  array,                \* the array after the last complete modification
  result                \* what each reader printed last

vars == <<array, result>>

Init == array \in Arrays /\ result = [r \in Readers |-> NoArray]

Modify == array' \in Arrays /\ UNCHANGED result

Scan(r) ==
  /\ result' = [result EXCEPT ![r] = array]
  /\ UNCHANGED array

Next == Modify \/ \E r \in Readers : Scan(r)

Spec == Init /\ [][Next]_vars

=============================================================================
