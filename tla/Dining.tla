------------------------------- MODULE Dining -------------------------------
(***************************************************************************)
(* What both dining philosophers programs of lab09 promise: a philosopher  *)
(* starts to eat only while neither neighbour eats.  How forks are picked  *)
(* up, who waits for whom and in which order is left to the programs, each *)
(* of which is shown to implement this specification.                      *)
(***************************************************************************)
EXTENDS Naturals

CONSTANT SIZE           \* number of philosophers, and of forks; above 1

VARIABLE eating         \* the philosophers that are eating

IDs == 0 .. SIZE - 1

\* The fork on the right of philosopher p; the one on the left is p itself.
right_fork(p) == (p + 1) % SIZE

Neighbours(p, q) == q = right_fork(p) \/ p = right_fork(q)

Init == eating = {}

StartEating(p) ==
  /\ p \notin eating
  /\ \A q \in eating : ~Neighbours(p, q)
  /\ eating' = eating \cup {p}

StopEating(p) ==
  /\ p \in eating
  /\ eating' = eating \ {p}

Next == \E p \in IDs : StartEating(p) \/ StopEating(p)

Spec == Init /\ [][Next]_eating

=============================================================================
