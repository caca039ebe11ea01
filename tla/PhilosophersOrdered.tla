------------------------- MODULE PhilosophersOrdered ------------------------
(***************************************************************************)
(* lab09/zad3a/philosophers.c: odd philosophers pick up the left fork      *)
(* first, even ones the right fork.  Every thread repeats: think, pick up  *)
(* both forks, eat, put down the left fork, put down the right fork.       *)
(***************************************************************************)
EXTENDS Forks

VARIABLE pc             \* where each philosopher's thread is

vars == <<forks, who_has_fork, who_is_eating, pc>>

\* Slip: every philosopher reaches for the left fork first.
AlwaysLeftFirst(p) == TRUE

\* The order of the two pickup_fork calls depends on the parity.
LeftFirst(p) == p % 2 = 1

FirstFork(p)  == IF LeftFirst(p) THEN left_fork(p) ELSE right_fork(p)
SecondFork(p) == IF LeftFirst(p) THEN right_fork(p) ELSE left_fork(p)

\* The program counter moves from one label to the next.
Goto(p, from, to) == pc[p] = from /\ pc' = [pc EXCEPT ![p] = to]

Labels == {"think", "mark1", "second", "mark2", "sit", "eat",
           "eraseLeft", "unlockLeft", "eraseRight", "unlockRight"}

TypeOK == TableTypeOK /\ pc \in [IDs -> Labels]

Init == TableInit /\ pc = [p \in IDs |-> "think"]

PickUpFirst(p) ==
  \/ Goto(p, "think", "mark1") /\ LockFork(p, FirstFork(p))
  \/ Goto(p, "mark1", "second") /\ MarkFork(p, FirstFork(p))

\* Slip: the second fork is taken for granted.
PickUpSecondUnlocked(p) ==
  \/ Goto(p, "second", "mark2") /\ UNCHANGED tableVars
  \/ Goto(p, "mark2", "sit") /\ MarkFork(p, SecondFork(p))

PickUpSecond(p) ==
  \/ Goto(p, "second", "mark2") /\ LockFork(p, SecondFork(p))
  \/ Goto(p, "mark2", "sit") /\ MarkFork(p, SecondFork(p))

Eat(p) ==
  \/ Goto(p, "sit", "eat") /\ SetEating(p, 1)
  \/ Goto(p, "eat", "eraseLeft") /\ SetEating(p, 0)

\* Slips: unlock before erasing; put down the fork picked up first.
PutDownLeftUnlockFirst(p) ==
  \/ Goto(p, "eraseLeft", "unlockLeft") /\ UnlockFork(left_fork(p))
  \/ Goto(p, "unlockLeft", "eraseRight") /\ EraseFork(left_fork(p))

PutDownFirst(p) ==
  \/ Goto(p, "eraseLeft", "unlockLeft") /\ EraseFork(FirstFork(p))
  \/ Goto(p, "unlockLeft", "eraseRight") /\ UnlockFork(FirstFork(p))

PutDownLeft(p) ==
  \/ Goto(p, "eraseLeft", "unlockLeft") /\ EraseFork(left_fork(p))
  \/ Goto(p, "unlockLeft", "eraseRight") /\ UnlockFork(left_fork(p))

\* Slip: the right fork is never unlocked.
PutDownRightKeepLock(p) ==
  \/ Goto(p, "eraseRight", "unlockRight") /\ EraseFork(right_fork(p))
  \/ Goto(p, "unlockRight", "think") /\ UNCHANGED tableVars

PutDownRight(p) ==
  \/ Goto(p, "eraseRight", "unlockRight") /\ EraseFork(right_fork(p))
  \/ Goto(p, "unlockRight", "think") /\ UnlockFork(right_fork(p))

thread_function(p) ==
  PickUpFirst(p) \/ PickUpSecond(p) \/ Eat(p) \/ PutDownLeft(p) \/ PutDownRight(p)

Next == \E p \in IDs : thread_function(p)

Spec == Init /\ [][Next]_vars

\* Every thread that is not blocked is scheduled in the end; a mutex may go to any
\* of those that wait for it.
FairSpec == Spec /\ \A p \in IDs : WF_vars(thread_function(p))

-----------------------------------------------------------------------------

\* The forks whose mutex philosopher p owns, from where its thread is.
HoldsFirst(p)  == pc[p] \in {"mark1", "second"}
HoldsBoth(p)   == pc[p] \in {"mark2", "sit", "eat", "eraseLeft", "unlockLeft"}
HoldsRight(p)  == pc[p] \in {"eraseRight", "unlockRight"}

Held(p) ==
  IF HoldsFirst(p) THEN {FirstFork(p)}
  ELSE IF HoldsBoth(p) THEN {left_fork(p), right_fork(p)}
  ELSE IF HoldsRight(p) THEN {right_fork(p)}
  ELSE {}

\* A mutex is owned by p exactly while p's thread is between its lock and its
\* unlock of it, although the two calls name the forks in different orders
\* (first/second on the way in, left/right on the way out).
ForkOwnership == \A f \in IDs, p \in IDs : forks[f] = p <=> f \in Held(p)

\* The printed table never credits a fork to a philosopher that does not hold
\* it: putdown_fork erases the entry before it unlocks, pickup_fork writes it
\* after it has locked.
TableIsTruthful ==
  \A f \in IDs : who_has_fork[f] # NoOne => forks[f] = who_has_fork[f]

\* An entry is gone before its fork is unlocked, and an eater is shown eating.
EntriesErased ==
  \A p \in IDs :
    /\ pc[p] = "unlockLeft" => who_has_fork[left_fork(p)] = NoOne
    /\ pc[p] = "unlockRight" => who_has_fork[right_fork(p)] = NoOne

EatersAreShown == \A p \in IDs : who_is_eating[p] = 1 <=> pc[p] = "eat"

\* The inductive invariant: TableIsTruthful alone says nothing about the state
\* between erasing an entry and unlocking its fork.
IInv == TypeOK /\ ForkOwnership /\ TableIsTruthful /\ EntriesErased /\ EatersAreShown

\* A thread that waits for a fork another thread owns.
Waits(p, f) ==
  /\ \/ pc[p] = "think" /\ f = FirstFork(p)
     \/ pc[p] = "second" /\ f = SecondFork(p)
  /\ forks[f] # NoOne

Blocked(p) == \E f \in IDs : Waits(p, f)

\* Picking the forks up in opposite orders leaves no circular wait: at any time
\* some philosopher's thread can take its next step.
NoCircularWait == \E p \in IDs : ~Blocked(p)

\* The table never falls silent: again and again somebody eats.  (A single
\* philosopher may starve, since a mutex may always go to another waiter.)
SomebodyEatsAgain == []<>(\E p \in IDs : who_is_eating[p] = 1)

\* The program implements the abstract table.
Abstract == INSTANCE Dining WITH eating <- {p \in IDs : who_is_eating[p] = 1}
ImplementsDining == Abstract!Spec

=============================================================================
