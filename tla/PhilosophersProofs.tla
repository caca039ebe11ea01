-------------------------- MODULE PhilosophersProofs ------------------------
(***************************************************************************)
(* Proofs about lab09/zad3 for every number of philosophers above one.     *)
(* zad3a (O!Spec): the order of the forks leaves no circular wait, and the *)
(* table that is printed is true.  zad3b (Spec), for every limit at the    *)
(* door: neighbours never eat together whatever the counter does, the      *)
(* counter is exact although threads come in without a second test, and    *)
(* the only standstill is a full table.                                    *)
(***************************************************************************)
EXTENDS Philosophers, FiniteSetTheorems, WellFoundedInduction, TLAPS

-----------------------------------------------------------------------------
\* The ordered forks (zad3a)

\* The fork on the right, without the remainder the code computes.
LEMMA RightForkOrdered ==
  ASSUME NEW p \in O!IDs
  PROVE  O!right_fork(p) = IF p = SIZE - 1 THEN 0 ELSE p + 1
<1>1. CASE p = SIZE - 1
  BY <1>1, SizeAssumption DEF O!IDs, O!right_fork
<1>2. CASE p # SIZE - 1
  BY <1>2, SizeAssumption DEF O!IDs, O!right_fork
<1> QED
  BY <1>1, <1>2

\* Every philosopher has two different forks, and no two have the same right one.
LEMMA ForksOrdered ==
  ASSUME NEW p \in O!IDs
  PROVE  /\ O!left_fork(p) \in O!IDs /\ O!right_fork(p) \in O!IDs
         /\ O!left_fork(p) # O!right_fork(p)
         /\ {O!FirstFork(p), O!SecondFork(p)} = {O!left_fork(p), O!right_fork(p)}
         /\ O!FirstFork(p) # O!SecondFork(p)
<1>1. O!right_fork(p) \in O!IDs /\ p # O!right_fork(p)
  BY RightForkOrdered, SizeAssumption DEF O!IDs
<1> QED
  BY <1>1 DEF O!FirstFork, O!SecondFork, O!left_fork

-----------------------------------------------------------------------------

\* The first fork was free, so nobody held it; now its owner is at "mark1".
LEMMA PickUpFirstKeeps ==
  ASSUME O!IInv, NEW p \in O!IDs, O!PickUpFirst(p)
  PROVE  O!IInv'
<1> USE DEF O!IInv, O!Goto, O!TypeOK, O!TableTypeOK, O!Labels
<1>1. O!left_fork(p) \in O!IDs /\ O!right_fork(p) \in O!IDs /\ O!FirstFork(p) \in O!IDs
  BY ForksOrdered DEF O!FirstFork
<1>2. CASE O!Goto(p, "think", "mark1") /\ O!LockFork(p, O!FirstFork(p))
  <2>1. O!TypeOK' /\ O!TableIsTruthful' /\ O!EntriesErased' /\ O!EatersAreShown'
    BY <1>1, <1>2 DEF O!LockFork, O!TableIsTruthful, O!EntriesErased, O!EatersAreShown
  <2>2. O!ForkOwnership'
    BY <1>1, <1>2
    DEF O!LockFork, O!ForkOwnership, O!Held, O!HoldsFirst, O!HoldsBoth, O!HoldsRight, O!NoOne, O!IDs
  <2> QED
    BY <2>1, <2>2
<1>3. CASE O!Goto(p, "mark1", "second") /\ O!MarkFork(p, O!FirstFork(p))
  <2>1. O!TypeOK' /\ O!EatersAreShown'
    BY <1>1, <1>3 DEF O!MarkFork, O!EatersAreShown
  <2>2. O!ForkOwnership'
    BY <1>3 DEF O!MarkFork, O!ForkOwnership, O!Held, O!HoldsFirst, O!HoldsBoth, O!HoldsRight
  <2>3. forks[O!FirstFork(p)] = p
    BY <1>1, <1>3 DEF O!ForkOwnership, O!Held, O!HoldsFirst
  <2>4. O!TableIsTruthful'
    BY <1>1, <1>3, <2>3 DEF O!MarkFork, O!TableIsTruthful
  <2>5. O!EntriesErased'
    BY <1>1, <1>3, <2>3, ForksOrdered
    DEF O!MarkFork, O!EntriesErased, O!ForkOwnership, O!Held, O!HoldsFirst, O!HoldsBoth,
        O!HoldsRight
  <2> QED
    BY <2>1, <2>2, <2>4, <2>5
<1> QED
  BY <1>2, <1>3 DEF O!PickUpFirst

\* The second fork was free too, and is not the first one.
LEMMA PickUpSecondKeeps ==
  ASSUME O!IInv, NEW p \in O!IDs, O!PickUpSecond(p)
  PROVE  O!IInv'
<1> USE DEF O!IInv, O!Goto, O!TypeOK, O!TableTypeOK, O!Labels
<1>1. /\ O!FirstFork(p) \in O!IDs /\ O!SecondFork(p) \in O!IDs
      /\ {O!FirstFork(p), O!SecondFork(p)} = {O!left_fork(p), O!right_fork(p)}
  BY ForksOrdered
<1>2. CASE O!Goto(p, "second", "mark2") /\ O!LockFork(p, O!SecondFork(p))
  <2>1. O!TypeOK' /\ O!TableIsTruthful' /\ O!EntriesErased' /\ O!EatersAreShown'
    BY <1>1, <1>2 DEF O!LockFork, O!TableIsTruthful, O!EntriesErased, O!EatersAreShown
  <2>2. \A q \in O!IDs : O!SecondFork(p) \notin O!Held(q)
    BY <1>1, <1>2 DEF O!LockFork, O!ForkOwnership, O!NoOne, O!IDs
  <2>3. O!Held(p)' = O!Held(p) \cup {O!SecondFork(p)}
    BY <1>1, <1>2 DEF O!Held, O!HoldsFirst, O!HoldsBoth, O!HoldsRight
  <2>4. \A q \in O!IDs : q # p => O!Held(q)' = O!Held(q)
    BY <1>2 DEF O!Held, O!HoldsFirst, O!HoldsBoth, O!HoldsRight
  <2>5. O!ForkOwnership'
    BY <1>1, <1>2, <2>2, <2>3, <2>4 DEF O!LockFork, O!ForkOwnership
  <2> QED
    BY <2>1, <2>5
<1>3. CASE O!Goto(p, "mark2", "sit") /\ O!MarkFork(p, O!SecondFork(p))
  <2>1. O!TypeOK' /\ O!EatersAreShown'
    BY <1>1, <1>3 DEF O!MarkFork, O!EatersAreShown
  <2>2. O!ForkOwnership'
    BY <1>3 DEF O!MarkFork, O!ForkOwnership, O!Held, O!HoldsFirst, O!HoldsBoth, O!HoldsRight
  <2>3. forks[O!SecondFork(p)] = p
    BY <1>1, <1>3 DEF O!ForkOwnership, O!Held, O!HoldsFirst, O!HoldsBoth
  <2>4. O!TableIsTruthful'
    BY <1>1, <1>3, <2>3 DEF O!MarkFork, O!TableIsTruthful
  <2>5. O!EntriesErased'
    BY <1>1, <1>3, <2>3, ForksOrdered
    DEF O!MarkFork, O!EntriesErased, O!ForkOwnership, O!Held, O!HoldsFirst, O!HoldsBoth,
        O!HoldsRight
  <2> QED
    BY <2>1, <2>2, <2>4, <2>5
<1> QED
  BY <1>2, <1>3 DEF O!PickUpSecond

\* Eating touches no fork.
LEMMA OrderedEatKeeps ==
  ASSUME O!IInv, NEW p \in O!IDs, O!Eat(p)
  PROVE  O!IInv'
<1> USE DEF O!IInv, O!Goto, O!TypeOK, O!TableTypeOK, O!Labels, O!Eat, O!SetEating
<1>1. O!TypeOK' /\ O!TableIsTruthful' /\ O!EntriesErased' /\ O!EatersAreShown'
  BY DEF O!TableIsTruthful, O!EntriesErased, O!EatersAreShown
<1>2. O!ForkOwnership'
  BY DEF O!ForkOwnership, O!Held, O!HoldsFirst, O!HoldsBoth, O!HoldsRight
<1> QED
  BY <1>1, <1>2

\* The entry goes before the mutex, and the right fork stays in hand.
LEMMA PutDownLeftKeeps ==
  ASSUME O!IInv, NEW p \in O!IDs, O!PutDownLeft(p)
  PROVE  O!IInv'
<1> USE DEF O!IInv, O!Goto, O!TypeOK, O!TableTypeOK, O!Labels
<1>1. O!left_fork(p) \in O!IDs /\ O!right_fork(p) \in O!IDs /\ O!left_fork(p) # O!right_fork(p)
  BY ForksOrdered
<1>2. CASE O!Goto(p, "eraseLeft", "unlockLeft") /\ O!EraseFork(O!left_fork(p))
  <2>1. O!TypeOK' /\ O!TableIsTruthful' /\ O!EntriesErased' /\ O!EatersAreShown'
    BY <1>1, <1>2 DEF O!EraseFork, O!TableIsTruthful, O!EntriesErased, O!EatersAreShown, O!NoOne
  <2>2. O!ForkOwnership'
    BY <1>2 DEF O!EraseFork, O!ForkOwnership, O!Held, O!HoldsFirst, O!HoldsBoth, O!HoldsRight
  <2> QED
    BY <2>1, <2>2
<1>3. CASE O!Goto(p, "unlockLeft", "eraseRight") /\ O!UnlockFork(O!left_fork(p))
  <2>1. O!TypeOK' /\ O!TableIsTruthful' /\ O!EntriesErased' /\ O!EatersAreShown'
    BY <1>1, <1>3 DEF O!UnlockFork, O!TableIsTruthful, O!EntriesErased, O!EatersAreShown
  <2>2. O!ForkOwnership'
    BY <1>1, <1>3
    DEF O!UnlockFork, O!ForkOwnership, O!Held, O!HoldsFirst, O!HoldsBoth, O!HoldsRight, O!NoOne,
        O!IDs
  <2> QED
    BY <2>1, <2>2
<1> QED
  BY <1>2, <1>3 DEF O!PutDownLeft

\* The right fork is the last one held, whichever was picked up first.
LEMMA PutDownRightKeeps ==
  ASSUME O!IInv, NEW p \in O!IDs, O!PutDownRight(p)
  PROVE  O!IInv'
<1> USE DEF O!IInv, O!Goto, O!TypeOK, O!TableTypeOK, O!Labels
<1>1. O!left_fork(p) \in O!IDs /\ O!right_fork(p) \in O!IDs /\ O!left_fork(p) # O!right_fork(p)
  BY ForksOrdered
<1>2. CASE O!Goto(p, "eraseRight", "unlockRight") /\ O!EraseFork(O!right_fork(p))
  <2>1. O!TypeOK' /\ O!TableIsTruthful' /\ O!EntriesErased' /\ O!EatersAreShown'
    BY <1>1, <1>2 DEF O!EraseFork, O!TableIsTruthful, O!EntriesErased, O!EatersAreShown, O!NoOne
  <2>2. O!ForkOwnership'
    BY <1>2 DEF O!EraseFork, O!ForkOwnership, O!Held, O!HoldsFirst, O!HoldsBoth, O!HoldsRight
  <2> QED
    BY <2>1, <2>2
<1>3. CASE O!Goto(p, "unlockRight", "think") /\ O!UnlockFork(O!right_fork(p))
  <2>1. O!TypeOK' /\ O!TableIsTruthful' /\ O!EntriesErased' /\ O!EatersAreShown'
    BY <1>1, <1>3 DEF O!UnlockFork, O!TableIsTruthful, O!EntriesErased, O!EatersAreShown
  <2>2. O!ForkOwnership'
    BY <1>1, <1>3
    DEF O!UnlockFork, O!ForkOwnership, O!Held, O!HoldsFirst, O!HoldsBoth, O!HoldsRight, O!NoOne,
        O!IDs
  <2> QED
    BY <2>1, <2>2
<1> QED
  BY <1>2, <1>3 DEF O!PutDownRight

\* The strengthened invariant holds of every reachable state.
LEMMA OrderedInvariant == O!Spec => []O!IInv
<1>1. O!Init => O!IInv
  <2> SUFFICES ASSUME O!Init PROVE O!IInv
    OBVIOUS
  <2>1. O!TypeOK /\ O!TableIsTruthful /\ O!EntriesErased /\ O!EatersAreShown
    BY DEF O!Init, O!TableInit, O!TypeOK, O!TableTypeOK, O!Labels, O!TableIsTruthful,
           O!EntriesErased, O!EatersAreShown, O!NoOne
  <2>2. O!ForkOwnership
    BY SizeAssumption
    DEF O!Init, O!TableInit, O!ForkOwnership, O!Held, O!HoldsFirst, O!HoldsBoth, O!HoldsRight,
        O!NoOne, O!IDs
  <2> QED
    BY <2>1, <2>2 DEF O!IInv
<1>2. O!IInv /\ [O!Next]_(O!vars) => O!IInv'
  <2> SUFFICES ASSUME O!IInv, [O!Next]_(O!vars) PROVE O!IInv'
    OBVIOUS
  <2>1. ASSUME NEW p \in O!IDs, O!thread_function(p) PROVE O!IInv'
    BY <2>1, PickUpFirstKeeps, PickUpSecondKeeps, OrderedEatKeeps, PutDownLeftKeeps,
       PutDownRightKeeps DEF O!thread_function
  <2>2. CASE UNCHANGED O!vars
    BY <2>2 DEF O!vars, O!IInv, O!TypeOK, O!TableTypeOK, O!ForkOwnership, O!Held, O!HoldsFirst,
                O!HoldsBoth, O!HoldsRight, O!TableIsTruthful, O!EntriesErased, O!EatersAreShown
  <2> QED
    BY <2>1, <2>2 DEF O!Next
<1> QED
  BY <1>1, <1>2, PTL DEF O!Spec

\* Every variable keeps its type, for any number of philosophers.
THEOREM OrderedTypeCorrect == O!Spec => []O!TypeOK
BY OrderedInvariant, PTL DEF O!IInv

\* A mutex is owned exactly between the lock and the unlock of its fork, so no
\* thread ever unlocks a fork of somebody else or locks one it already owns.
THEOREM OrderedMutexDiscipline == O!Spec => []ForkOwnership
BY OrderedInvariant, PTL DEF O!IInv, ForkOwnership

\* The printed table credits forks to their owners only.
THEOREM TableCorrect == O!Spec => []O!TableIsTruthful
BY OrderedInvariant, PTL DEF O!IInv

-----------------------------------------------------------------------------

\* A thread blocked at its second fork waits for one that is blocked there too,
\* and that holds it as its first fork.
LEMMA NextInChain ==
  ASSUME O!IInv, \A p \in O!IDs : O!Blocked(p), NEW q \in O!IDs, pc[q] = "second"
  PROVE  \E r \in O!IDs : pc[r] = "second" /\ O!FirstFork(r) = O!SecondFork(q)
<1>1. O!SecondFork(q) \in O!IDs
  BY ForksOrdered
<1>2. forks[O!SecondFork(q)] \in O!IDs
  BY <1>1 DEF O!Blocked, O!Waits, O!IInv, O!TypeOK, O!TableTypeOK
<1>3. PICK r \in O!IDs : forks[O!SecondFork(q)] = r
  BY <1>2
<1>4. O!SecondFork(q) \in O!Held(r) /\ pc[r] \in {"think", "second"}
  BY <1>1, <1>3 DEF O!IInv, O!ForkOwnership, O!Blocked, O!Waits
<1> QED
  BY <1>4 DEF O!Held, O!HoldsFirst, O!HoldsBoth, O!HoldsRight

\* Somebody is at its second fork if everybody is blocked.
LEMMA ChainStarts ==
  ASSUME O!IInv, \A p \in O!IDs : O!Blocked(p)
  PROVE  \E q \in O!IDs : pc[q] = "second"
<1>1. 0 \in O!IDs
  BY SizeAssumption DEF O!IDs
<1>2. CASE pc[0] = "second"
  BY <1>1, <1>2
<1>3. CASE pc[0] = "think"
  <2>1. O!FirstFork(0) \in O!IDs
    BY <1>1, ForksOrdered
  <2>2. forks[O!FirstFork(0)] \in O!IDs
    BY <1>1, <1>3, <2>1 DEF O!Blocked, O!Waits, O!IInv, O!TypeOK, O!TableTypeOK
  <2>3. PICK q \in O!IDs : forks[O!FirstFork(0)] = q
    BY <2>2
  <2>4. O!FirstFork(0) \in O!Held(q) /\ pc[q] \in {"think", "second"}
    BY <2>1, <2>3 DEF O!IInv, O!ForkOwnership, O!Blocked, O!Waits
  <2> QED
    BY <2>4 DEF O!Held, O!HoldsFirst, O!HoldsBoth, O!HoldsRight
<1> QED
  BY <1>1, <1>2, <1>3 DEF O!Blocked, O!Waits

\* No philosopher holds, as its first fork, the second fork of an odd one.
LEMMA OddEndsChain ==
  ASSUME NEW q \in O!IDs, NEW r \in O!IDs, O!FirstFork(r) = O!SecondFork(q), q % 2 = 1
  PROVE  FALSE
BY SizeAssumption, RightForkOrdered
DEF O!IDs, O!FirstFork, O!SecondFork, O!LeftFirst, O!left_fork

\* Only the last philosopher can hold the second fork of an even one, and then
\* it is even itself and the one it waits for is the first.
LEMMA EvenInChain ==
  ASSUME NEW q \in O!IDs, NEW r \in O!IDs, O!FirstFork(r) = O!SecondFork(q), q % 2 # 1
  PROVE  q = 0 /\ r = SIZE - 1 /\ r % 2 # 1
BY SizeAssumption, RightForkOrdered
DEF O!IDs, O!FirstFork, O!SecondFork, O!LeftFirst, O!left_fork

\* For any number of philosophers, some thread can always take its next step: a
\* chain of threads blocked at their second fork has at most two links.
THEOREM DeadlockFree == O!Spec => []NoCircularWait
<1>1. O!IInv => NoCircularWait
  <2> SUFFICES ASSUME O!IInv, \A p \in O!IDs : O!Blocked(p) PROVE FALSE
    BY DEF NoCircularWait, O!NoCircularWait
  <2>1. PICK q \in O!IDs : pc[q] = "second"
    BY ChainStarts
  <2>2. PICK r \in O!IDs : pc[r] = "second" /\ O!FirstFork(r) = O!SecondFork(q)
    BY <2>1, NextInChain
  <2>3. q = 0 /\ r = SIZE - 1 /\ r % 2 # 1
    BY <2>2, OddEndsChain, EvenInChain
  <2>4. PICK s \in O!IDs : pc[s] = "second" /\ O!FirstFork(s) = O!SecondFork(r)
    BY <2>2, NextInChain
  <2>5. r = 0
    BY <2>3, <2>4, EvenInChain
  <2> QED
    BY <2>3, <2>5, SizeAssumption
<1> QED
  BY <1>1, OrderedInvariant, PTL

-----------------------------------------------------------------------------

\* An eater owns both of its forks.
LEMMA EatersHold ==
  ASSUME O!IInv, NEW p \in O!IDs, pc[p] \in {"sit", "eat"}
  PROVE  forks[O!left_fork(p)] = p /\ forks[O!right_fork(p)] = p
BY ForksOrdered DEF O!IInv, O!ForkOwnership, O!Held, O!HoldsFirst, O!HoldsBoth

\* The program implements the abstract table: no two neighbours eat together,
\* for any number of philosophers.
THEOREM OrderedImplements == O!Spec => OrderedImplementsDining
<1> DEFINE Eaters == {p \in O!IDs : who_is_eating[p] = 1}
<1>1. O!Init => O!Abstract!Init
  BY DEF O!Init, O!TableInit, O!Abstract!Init
<1>2. O!IInv /\ [O!Next]_(O!vars) => [O!Abstract!Next]_Eaters
  <2> SUFFICES ASSUME O!IInv, [O!Next]_(O!vars) PROVE [O!Abstract!Next]_Eaters
    OBVIOUS
  <2>1. CASE who_is_eating' = who_is_eating
    BY <2>1
  <2>2. ASSUME NEW p \in O!IDs, O!Goto(p, "sit", "eat"), O!SetEating(p, 1)
        PROVE  O!Abstract!StartEating(p)
    <3>1. who_is_eating[p] # 1
      BY <2>2 DEF O!IInv, O!EatersAreShown, O!Goto
    <3>2. ASSUME NEW q \in Eaters PROVE ~O!Abstract!Neighbours(p, q)
      <4>1. pc[q] = "eat" /\ pc[p] = "sit"
        BY <2>2, <3>2 DEF O!IInv, O!EatersAreShown, O!Goto
      <4>2. /\ forks[O!left_fork(p)] = p /\ forks[O!right_fork(p)] = p
            /\ forks[O!left_fork(q)] = q /\ forks[O!right_fork(q)] = q
        BY <4>1, EatersHold
      <4> QED
        BY <4>1, <4>2 DEF O!Abstract!Neighbours, O!Abstract!right_fork, O!left_fork, O!right_fork
    <3>3. Eaters' = Eaters \cup {p}
      BY <2>2 DEF O!SetEating, O!IInv, O!TypeOK, O!TableTypeOK
    <3> QED
      BY <3>1, <3>2, <3>3 DEF O!Abstract!StartEating
  <2>3. ASSUME NEW p \in O!IDs, O!Goto(p, "eat", "eraseLeft"), O!SetEating(p, 0)
        PROVE  O!Abstract!StopEating(p)
    BY <2>3
    DEF O!IInv, O!EatersAreShown, O!Goto, O!SetEating, O!Abstract!StopEating, O!TypeOK,
        O!TableTypeOK
  <2> QED
    BY <2>1, <2>2, <2>3
    DEF O!Next, O!thread_function, O!PickUpFirst, O!PickUpSecond, O!Eat, O!PutDownLeft,
        O!PutDownRight,
        O!LockFork, O!MarkFork, O!EraseFork, O!UnlockFork, O!vars, O!Abstract!Next,
        O!Abstract!IDs, O!IDs
<1> QED
  BY <1>1, <1>2, OrderedInvariant, PTL
  DEF O!Spec, OrderedImplementsDining, O!ImplementsDining, O!Abstract!Spec

\* The runs in which the door is at rest are runs of the ordered program: what is
\* proved of O!Spec holds where TLC looks.
THEOREM OrderedAlone == OrderedFairSpec => O!Spec
<1>1. OrderedInit => O!Init
  BY DEF OrderedInit
<1>2. [AtTable(O!Next)]_vars => [O!Next]_(O!vars)
  BY DEF AtTable, vars, O!vars
<1> QED
  BY <1>1, <1>2, PTL DEF OrderedFairSpec, O!Spec

-----------------------------------------------------------------------------
\* The counter at the door (zad3b)

Labels == {"think", "test", "waiting", "admit", "signal", "unlockOut"} \cup Seated

TypeOK ==
  /\ TableTypeOK /\ pc \in [IDs -> Labels]
  /\ eating_philosopthers_count \in Nat
  /\ eating_possibility_mutex \in IDs \cup {NoOne}
  /\ waiters \subseteq IDs

\* The thread between its lock and its unlock of eating_possibility_mutex.
AtDoor(p) == pc[p] \in {"test", "admit", "unlockIn", "decrement", "signal", "unlockOut"}

\* One thread at a time is at the door.
DoorOwned == \A p \in IDs : eating_possibility_mutex = p <=> AtDoor(p)

\* A thread sleeps nowhere but in its wait.
SleepersWait == \A p \in waiters : pc[p] = "waiting"

\* The counter is the number of threads between their two updates of it, although
\* threads that were woken come in without a test.
CounterIsExact == eating_philosopthers_count = Cardinality(Inside)

\* While anybody sleeps somebody is inside, is about to be, or is about to signal.
SomebodyWillSignal ==
  waiters # {} =>
    \E p \in IDs : \/ p \in Inside \/ pc[p] \in {"admit", "signal"}
                   \/ pc[p] = "waiting" /\ p \notin waiters

HoldsLeft(p)  == pc[p] \in {"markLeft", "right", "markRight", "sit", "eat", "eraseLeft",
                            "unlockLeft"}
HoldsRight(p) == pc[p] \in {"markRight", "sit", "eat", "eraseLeft", "unlockLeft",
                            "eraseRight", "unlockRight"}

\* A mutex is owned by p exactly while p is between its lock and unlock of it.
ForksOwned ==
  \A f \in IDs, p \in IDs :
    forks[f] = p <=> \/ HoldsLeft(p) /\ f = left_fork(p)
                     \/ HoldsRight(p) /\ f = right_fork(p)

EatersAreShown == \A p \in IDs : who_is_eating[p] = 1 <=> pc[p] = "eat"

DoorInv == DoorOwned /\ SleepersWait /\ CounterIsExact /\ SomebodyWillSignal

IInv == TypeOK /\ DoorInv /\ ForksOwned /\ EatersAreShown

-----------------------------------------------------------------------------
\* Facts about the ring of forks

\* The fork on the right, without the remainder the code computes.
LEMMA RightForkValue ==
  ASSUME NEW p \in IDs
  PROVE  right_fork(p) = IF p = SIZE - 1 THEN 0 ELSE p + 1
<1>1. CASE p = SIZE - 1
  BY <1>1, SizeAssumption DEF IDs, right_fork
<1>2. CASE p # SIZE - 1
  BY <1>2, SizeAssumption DEF IDs, right_fork
<1> QED
  BY <1>1, <1>2

\* Every philosopher has two different forks; the right one is the left one of the
\* next philosopher and of nobody else.
LEMMA ForksOf ==
  ASSUME NEW p \in IDs
  PROVE  /\ left_fork(p) \in IDs /\ right_fork(p) \in IDs
         /\ left_fork(p) # right_fork(p)
         /\ \A q \in IDs : right_fork(q) = right_fork(p) => q = p
BY RightForkValue, SizeAssumption DEF IDs, left_fork

\* A set of naturals that is not empty has a least element.
LEMMA LeastNatural ==
  ASSUME NEW T, T \subseteq Nat, T # {}
  PROVE  \E m \in T : \A k \in T : m <= k
<1> DEFINE Upto == {0 .. n : n \in T}
<1>1. Upto \subseteq FiniteSubsetsOf(Nat) /\ Upto # {}
  <2>1. \A n \in T : n \in Int /\ IsFiniteSet(0 .. n) /\ 0 .. n \subseteq Nat
    BY FS_Interval
  <2> QED
    BY <2>1 DEF FiniteSubsetsOf
<1>2. PICK x \in Upto : \A y \in Upto : ~(<<y, x>> \in StrictSubsetOrdering(Nat))
  <2> HIDE DEF Upto
  <2> QED
    BY <1>1, FS_StrictSubsetOrderingWellFounded, WFMin
<1>3. PICK m \in T : x = 0 .. m
  BY <1>2
<1>4. ASSUME NEW k \in T, k < m PROVE FALSE
  <2>1. 0 .. k \in Upto /\ 0 .. k \subseteq Nat /\ 0 .. m \subseteq Nat
    BY <1>4
  <2>2. 0 .. k \subseteq 0 .. m /\ m \in 0 .. m /\ m \notin 0 .. k
    BY <1>4
  <2>3. <<0 .. k, 0 .. m>> \in StrictSubsetOrdering(Nat)
    BY <2>1, <2>2 DEF StrictSubsetOrdering
  <2> QED
    BY <1>2, <1>3, <2>1, <2>3
<1> QED
  BY <1>4

\* What passes from each philosopher to the next has all of them.
LEMMA AroundTheTable ==
  ASSUME NEW S, S \subseteq IDs, S # {}, \A p \in S : right_fork(p) \in S
  PROVE  S = IDs
<1>1. 0 \in S
  <2> SUFFICES ASSUME 0 \notin S PROVE FALSE
    OBVIOUS
  <2> DEFINE Ahead == {SIZE - 1 - p : p \in S}
  <2>1. Ahead \subseteq Nat /\ Ahead # {}
    <3>1. \A p \in S : SIZE - 1 - p \in Nat
      BY SizeAssumption DEF IDs
    <3> QED
      BY <3>1
  <2>2. PICK m \in Ahead : \A k \in Ahead : m <= k
    <3> HIDE DEF Ahead
    <3> QED
      BY <2>1, LeastNatural
  <2>3. PICK p \in S : m = SIZE - 1 - p
    BY <2>2
  <2>4. right_fork(p) = p + 1 /\ p + 1 \in S
    BY <2>3, RightForkValue
  <2>5. SIZE - 1 - (p + 1) \in Ahead
    BY <2>4
  <2>6. m <= SIZE - 1 - (p + 1)
    BY <2>2, <2>5
  <2>7. p \in Int /\ SIZE \in Int
    BY SizeAssumption DEF IDs
  <2> HIDE DEF Ahead
  <2> QED
    BY <2>3, <2>6, <2>7
<1>2. ASSUME NEW q \in IDs, q \notin S PROVE FALSE
  <2> DEFINE Missed == IDs \ S
  <2>1. Missed \subseteq Nat /\ Missed # {}
    BY <1>2, SizeAssumption DEF IDs
  <2>2. PICK m \in Missed : \A k \in Missed : m <= k
    <3> HIDE DEF Missed
    <3> QED
      BY <2>1, LeastNatural
  <2>3. m # 0 /\ m - 1 \in IDs
    BY <1>1, <2>2, SizeAssumption DEF IDs
  <2>4. m - 1 \in S
    BY <2>2, <2>3, SizeAssumption DEF IDs
  <2>5. right_fork(m - 1) = m
    BY <2>3, <2>2, RightForkValue, SizeAssumption DEF IDs
  <2> QED
    BY <2>2, <2>4, <2>5
<1> QED
  BY <1>2

-----------------------------------------------------------------------------
\* Every step keeps the invariant

\* The philosophers inside are finitely many.
LEMMA InsideFinite ==
  /\ IsFiniteSet(Inside) /\ Cardinality(Inside) \in Nat
  /\ IsFiniteSet(Inside') /\ Cardinality(Inside') \in Nat
<1>1. IsFiniteSet(IDs)
  BY FS_Interval, SizeAssumption DEF IDs
<1>2. Inside \subseteq IDs /\ Inside' \subseteq IDs
  BY DEF Inside
<1> QED
  BY <1>1, <1>2, FS_Subset, FS_CardinalityType

\* A free mutex belongs to no thread.
LEMMA NoOneIsNobody == NoOne \notin IDs
BY SizeAssumption DEF NoOne, IDs

\* Where a thread owns a fork.
WithForks == {"markLeft", "right", "markRight", "sit", "eat",
              "eraseLeft", "unlockLeft", "eraseRight", "unlockRight"}

\* A step at the door, seen from the table.
LEMMA DoorKeepsTable ==
  ASSUME IInv, NEW p \in IDs, UNCHANGED tableVars,
         NEW from \in Labels \ WithForks, NEW to \in Labels \ WithForks, Goto(p, from, to)
  PROVE  TableTypeOK' /\ pc' \in [IDs -> Labels] /\ ForksOwned' /\ EatersAreShown'
<1> USE DEF WithForks
<1>1. \A q \in IDs : (HoldsLeft(q)' <=> HoldsLeft(q)) /\ (HoldsRight(q)' <=> HoldsRight(q))
  BY DEF IInv, TypeOK, Goto, HoldsLeft, HoldsRight
<1>2. TableTypeOK' /\ pc' \in [IDs -> Labels]
  BY DEF IInv, TypeOK, TableTypeOK, Goto, tableVars
<1>3. ForksOwned'
  BY <1>1 DEF IInv, ForksOwned, tableVars
<1>4. EatersAreShown'
  BY DEF IInv, TypeOK, EatersAreShown, Goto, tableVars
<1> QED
  BY <1>2, <1>3, <1>4

\* A step at the table, seen from the door.
LEMMA TableKeepsDoor ==
  ASSUME IInv, NEW p \in IDs, UNCHANGED doorVars,
         NEW from \in Seated \ {"unlockIn", "decrement"},
         NEW to \in Seated \ {"unlockIn", "decrement"}, Goto(p, from, to)
  PROVE  /\ DoorInv' /\ pc' \in [IDs -> Labels] /\ eating_philosopthers_count' \in Nat
         /\ eating_possibility_mutex' \in IDs \cup {NoOne} /\ waiters' \subseteq IDs
<1> USE DEF IInv, TypeOK, Goto, doorVars
<1>1. \A q \in IDs : /\ AtDoor(q)' <=> AtDoor(q)
                     /\ pc'[q] \in Seated <=> pc[q] \in Seated
                     /\ pc[q] \in {"waiting", "admit", "signal"} => pc'[q] = pc[q]
  BY DEF AtDoor, Seated
<1>2. Inside' = Inside
  BY <1>1 DEF Inside
<1>3. DoorOwned' /\ SleepersWait' /\ CounterIsExact'
  BY <1>1, <1>2 DEF DoorInv, DoorOwned, SleepersWait, CounterIsExact
<1>4. SomebodyWillSignal'
  BY <1>1, <1>2 DEF DoorInv, SomebodyWillSignal
<1>5. pc' \in [IDs -> Labels]
  BY DEF Labels
<1> QED
  BY <1>3, <1>4, <1>5 DEF DoorInv

\* The fork was free, so nobody held it; now its owner is at the mark.
LEMMA PickUpForksKeeps ==
  ASSUME IInv, NEW p \in IDs, PickUpForks(p)
  PROVE  IInv'
<1> USE DEF PickUpForks, IInv, EatersAreShown, Goto, TypeOK
<1>1. /\ DoorInv' /\ pc' \in [IDs -> Labels] /\ eating_philosopthers_count' \in Nat
      /\ eating_possibility_mutex' \in IDs \cup {NoOne} /\ waiters' \subseteq IDs
  BY TableKeepsDoor DEF Seated
<1>2. left_fork(p) \in IDs /\ right_fork(p) \in IDs /\ left_fork(p) # right_fork(p)
  BY ForksOf
<1>3. TableTypeOK' /\ EatersAreShown'
  BY <1>2 DEF TableTypeOK, LockFork, MarkFork
<1>4. ForksOwned'
  <2>1. CASE Goto(p, "left", "markLeft") /\ LockFork(p, left_fork(p))
    BY <1>2, <2>1
    DEF LockFork, ForksOwned, TableTypeOK, HoldsLeft, HoldsRight, NoOne, IDs
  <2>2. CASE Goto(p, "right", "markRight") /\ LockFork(p, right_fork(p))
    BY <1>2, <2>2
    DEF LockFork, ForksOwned, TableTypeOK, HoldsLeft, HoldsRight, NoOne, IDs
  <2>3. CASE \/ Goto(p, "markLeft", "right") /\ MarkFork(p, left_fork(p))
             \/ Goto(p, "markRight", "sit") /\ MarkFork(p, right_fork(p))
    BY <2>3 DEF MarkFork, ForksOwned, HoldsLeft, HoldsRight
  <2> QED
    BY <2>1, <2>2, <2>3
<1> QED
  BY <1>1, <1>3, <1>4

\* Eating touches no fork.
LEMMA EatKeeps ==
  ASSUME IInv, NEW p \in IDs, Eat(p)
  PROVE  IInv'
<1> USE DEF Eat, SetEating, IInv, Goto, TypeOK
<1>1. /\ DoorInv' /\ pc' \in [IDs -> Labels] /\ eating_philosopthers_count' \in Nat
      /\ eating_possibility_mutex' \in IDs \cup {NoOne} /\ waiters' \subseteq IDs
  BY TableKeepsDoor DEF Seated
<1>2. TableTypeOK' /\ EatersAreShown'
  BY DEF TableTypeOK, EatersAreShown
<1>3. ForksOwned'
  BY DEF ForksOwned, HoldsLeft, HoldsRight
<1> QED
  BY <1>1, <1>2, <1>3

\* Each fork is unlocked by the thread that owns it.
LEMMA PutDownForksKeeps ==
  ASSUME IInv, NEW p \in IDs, PutDownForks(p)
  PROVE  IInv'
<1> USE DEF PutDownForks, IInv, EatersAreShown, Goto, TypeOK
<1>1. /\ DoorInv' /\ pc' \in [IDs -> Labels] /\ eating_philosopthers_count' \in Nat
      /\ eating_possibility_mutex' \in IDs \cup {NoOne} /\ waiters' \subseteq IDs
  BY TableKeepsDoor DEF Seated
<1>2. left_fork(p) \in IDs /\ right_fork(p) \in IDs /\ left_fork(p) # right_fork(p)
  BY ForksOf
<1>3. TableTypeOK' /\ EatersAreShown'
  BY <1>2 DEF TableTypeOK, EraseFork, UnlockFork
<1>4. ForksOwned'
  <2>1. CASE Goto(p, "unlockLeft", "eraseRight") /\ UnlockFork(left_fork(p))
    BY <1>2, <2>1
    DEF UnlockFork, ForksOwned, TableTypeOK, HoldsLeft, HoldsRight, NoOne, IDs
  <2>2. CASE Goto(p, "unlockRight", "leave") /\ UnlockFork(right_fork(p))
    BY <1>2, <2>2
    DEF UnlockFork, ForksOwned, TableTypeOK, HoldsLeft, HoldsRight, NoOne, IDs
  <2>3. CASE \/ Goto(p, "eraseLeft", "unlockLeft") /\ EraseFork(left_fork(p))
             \/ Goto(p, "eraseRight", "unlockRight") /\ EraseFork(right_fork(p))
    BY <2>3 DEF EraseFork, ForksOwned, HoldsLeft, HoldsRight
  <2> QED
    BY <2>1, <2>2, <2>3
<1> QED
  BY <1>1, <1>3, <1>4

\* Coming to the door and being sent to sleep change neither the counter nor who
\* is inside.
LEMMA AskToEnterKeeps ==
  ASSUME IInv, NEW p \in IDs, AskToEnter(p)
  PROVE  IInv'
<1> USE DEF AskToEnter, LockDoor, IInv, TypeOK, Goto
<1>1. TableTypeOK' /\ pc' \in [IDs -> Labels] /\ ForksOwned' /\ EatersAreShown'
  BY DoorKeepsTable DEF Labels, Seated, WithForks
<1>2. Inside' = Inside
  BY DEF Inside, Seated
<1>3. DoorInv'
  BY <1>2 DEF DoorInv, DoorOwned, SleepersWait, CounterIsExact, SomebodyWillSignal,
              AtDoor, NoOne, IDs
<1> QED
  BY <1>1, <1>3

\* Who is sent to sleep finds somebody inside: the counter, which is exact, is at
\* its limit.
LEMMA TestCounterKeeps ==
  ASSUME IInv, NEW p \in IDs, TestCounter(p)
  PROVE  IInv'
<1> USE DEF TestCounter, UnlockDoor, IInv, TypeOK, Goto
<1>1. TableTypeOK' /\ pc' \in [IDs -> Labels] /\ ForksOwned' /\ EatersAreShown'
  BY DoorKeepsTable DEF Labels, Seated, WithForks
<1>2. Inside' = Inside
  BY DEF Inside, Seated
<1>3. DoorOwned' /\ SleepersWait' /\ CounterIsExact'
  <2>1. DoorOwned'
    BY NoOneIsNobody DEF DoorInv, DoorOwned, AtDoor
  <2>2. SleepersWait' /\ CounterIsExact'
    BY <1>2 DEF DoorInv, SleepersWait, CounterIsExact
  <2> QED
    BY <2>1, <2>2
<1>4. SomebodyWillSignal'
  <2>1. CASE MustWait
    <3>1. Cardinality(Inside) > 0
      BY <2>1, LimitAssumption, SizeAssumption DEF MustWait, DoorInv, CounterIsExact
    <3>2. Inside # {}
      BY <3>1, FS_EmptySet
    <3> QED
      BY <1>2, <3>2 DEF SomebodyWillSignal, Inside
  <2>2. CASE ~MustWait
    BY <1>2, <2>2 DEF DoorInv, SomebodyWillSignal
  <2> QED
    BY <2>1, <2>2
<1> QED
  BY <1>1, <1>3, <1>4 DEF DoorInv

\* A woken thread is about to be inside.
LEMMA ReturnFromWaitKeeps ==
  ASSUME IInv, NEW p \in IDs, ReturnFromWait(p)
  PROVE  IInv'
<1> USE DEF ReturnFromWait, LockDoor, IInv, TypeOK, Goto
<1>1. TableTypeOK' /\ pc' \in [IDs -> Labels] /\ ForksOwned' /\ EatersAreShown'
  BY DoorKeepsTable DEF Labels, Seated, WithForks
<1>2. Inside' = Inside
  BY DEF Inside, Seated
<1>3. DoorOwned' /\ SleepersWait' /\ CounterIsExact'
  BY <1>2 DEF DoorInv, DoorOwned, SleepersWait, CounterIsExact, AtDoor, NoOne, IDs
<1>4. SomebodyWillSignal'
  BY DEF SomebodyWillSignal
<1> QED
  BY <1>1, <1>3, <1>4 DEF DoorInv

\* The counter goes up as the thread becomes one of those inside.
LEMMA AdmitKeeps ==
  ASSUME IInv, NEW p \in IDs, Admit(p)
  PROVE  IInv'
<1> USE DEF Admit, UnlockDoor, IInv, TypeOK, Goto
<1>1. TableTypeOK' /\ pc' \in [IDs -> Labels] /\ ForksOwned' /\ EatersAreShown'
  BY DoorKeepsTable DEF Labels, Seated, WithForks
<1>2. DoorOwned' /\ SleepersWait'
  <2>1. DoorOwned'
    BY NoOneIsNobody DEF DoorInv, DoorOwned, AtDoor
  <2>2. SleepersWait'
    BY DEF DoorInv, SleepersWait
  <2> QED
    BY <2>1, <2>2
<1>3. p \in Inside' /\ SomebodyWillSignal'
  BY DEF SomebodyWillSignal, Inside, Seated
<1>4. CounterIsExact' /\ eating_philosopthers_count' \in Nat
  <2>1. CASE Goto(p, "admit", "unlockIn")
    <3>1. p \notin Inside /\ Inside' = Inside \cup {p}
      BY <2>1 DEF Inside, Seated
    <3>2. Cardinality(Inside') = Cardinality(Inside) + 1
      BY <3>1, InsideFinite, FS_AddElement
    <3> QED
      BY <2>1, <3>2 DEF DoorInv, CounterIsExact
  <2>2. CASE Goto(p, "unlockIn", "left")
    <3>1. Inside' = Inside
      BY <2>2 DEF Inside, Seated
    <3> QED
      BY <2>2, <3>1 DEF DoorInv, CounterIsExact
  <2> QED
    BY <2>1, <2>2
<1> QED
  BY <1>1, <1>2, <1>3, <1>4 DEF DoorInv

\* The counter goes down as the thread stops being inside, and then it is about
\* to signal.
LEMMA AskToLeaveKeeps ==
  ASSUME IInv, NEW p \in IDs, AskToLeave(p)
  PROVE  IInv'
<1> USE DEF AskToLeave, LockDoor, IInv, TypeOK, Goto
<1>1. TableTypeOK' /\ pc' \in [IDs -> Labels] /\ ForksOwned' /\ EatersAreShown'
  BY DoorKeepsTable DEF Labels, Seated, WithForks
<1>2. DoorOwned' /\ SleepersWait'
  <2>1. DoorOwned'
    BY NoOneIsNobody DEF DoorInv, DoorOwned, AtDoor
  <2>2. SleepersWait'
    BY DEF DoorInv, SleepersWait
  <2> QED
    BY <2>1, <2>2
<1>3. SomebodyWillSignal'
  BY DEF SomebodyWillSignal, Inside, Seated
<1>4. CounterIsExact' /\ eating_philosopthers_count' \in Nat
  <2>1. CASE Goto(p, "leave", "decrement")
    <3>1. Inside' = Inside
      BY <2>1 DEF Inside, Seated
    <3> QED
      BY <2>1, <3>1 DEF DoorInv, CounterIsExact
  <2>2. CASE Goto(p, "decrement", "signal")
    <3>1. p \in Inside /\ Inside' = Inside \ {p}
      BY <2>2 DEF Inside, Seated
    <3>2. Cardinality(Inside') = Cardinality(Inside) - 1
      BY <3>1, InsideFinite, FS_RemoveElement
    <3> QED
      BY <2>2, <3>2, InsideFinite DEF DoorInv, CounterIsExact
  <2> QED
    BY <2>1, <2>2
<1> QED
  BY <1>1, <1>2, <1>3, <1>4 DEF DoorInv

\* Either the signal wakes a sleeper, or the counter is at its limit and those
\* inside will signal.
LEMMA SignalKeeps ==
  ASSUME IInv, NEW p \in IDs, Signal(p)
  PROVE  IInv'
<1> USE DEF Signal, IInv, TypeOK, Goto
<1>1. TableTypeOK' /\ pc' \in [IDs -> Labels] /\ ForksOwned' /\ EatersAreShown'
  BY DoorKeepsTable DEF Labels, Seated, WithForks
<1>2. Inside' = Inside /\ waiters' \subseteq waiters
  BY DEF Inside, Seated
<1>3. DoorOwned' /\ SleepersWait' /\ CounterIsExact'
  BY <1>2 DEF DoorInv, DoorOwned, SleepersWait, CounterIsExact, AtDoor
<1>4. SomebodyWillSignal'
  <2>1. CASE MaySignal /\ waiters # {}
    <3>1. PICK w \in waiters : waiters' = waiters \ {w}
      BY <2>1
    <3>2. pc'[w] = "waiting" /\ w \notin waiters'
      BY <3>1 DEF DoorInv, SleepersWait
    <3> QED
      BY <3>2 DEF SomebodyWillSignal
  <2>2. CASE ~MaySignal
    <3>1. Cardinality(Inside) > 0
      BY <2>2, LimitAssumption, SizeAssumption DEF MaySignal, DoorInv, CounterIsExact
    <3>2. Inside # {}
      BY <3>1, FS_EmptySet
    <3> QED
      BY <1>2, <3>2 DEF SomebodyWillSignal, Inside
  <2>3. CASE waiters = {}
    BY <1>2, <2>3 DEF SomebodyWillSignal
  <2> QED
    BY <2>1, <2>2, <2>3
<1> QED
  BY <1>1, <1>2, <1>3, <1>4 DEF DoorInv

\* Leaving the door wakes nobody and needs to wake nobody.
LEMMA LeaveKeeps ==
  ASSUME IInv, NEW p \in IDs, Leave(p)
  PROVE  IInv'
<1> USE DEF Leave, UnlockDoor, IInv, TypeOK, Goto
<1>1. TableTypeOK' /\ pc' \in [IDs -> Labels] /\ ForksOwned' /\ EatersAreShown'
  BY DoorKeepsTable DEF Labels, Seated, WithForks
<1>2. Inside' = Inside
  BY DEF Inside, Seated
<1>3. DoorInv'
  BY <1>2, SizeAssumption
  DEF DoorInv, DoorOwned, SleepersWait, CounterIsExact, SomebodyWillSignal, AtDoor, NoOne, IDs
<1> QED
  BY <1>1, <1>3

\* A thread that wakes without a signal comes in and will signal itself.
LEMMA SpuriousWakeupKeeps ==
  ASSUME IInv, NEW p \in IDs, SpuriousWakeup(p)
  PROVE  IInv'
<1> USE DEF SpuriousWakeup, IInv, TypeOK, tableVars
<1>1. TableTypeOK' /\ ForksOwned' /\ EatersAreShown'
  BY DEF TableTypeOK, ForksOwned, HoldsLeft, HoldsRight, EatersAreShown
<1>2. DoorOwned' /\ SleepersWait' /\ CounterIsExact'
  BY DEF DoorInv, DoorOwned, SleepersWait, CounterIsExact, Inside, AtDoor
<1>3. SomebodyWillSignal'
  BY DEF DoorInv, SleepersWait, SomebodyWillSignal
<1> QED
  BY <1>1, <1>2, <1>3 DEF DoorInv

\* The strengthened invariant holds of every reachable state.
LEMMA InvariantHolds == Spec => []IInv
<1>1. Init => IInv
  <2> SUFFICES ASSUME Init PROVE IInv
    OBVIOUS
  <2>1. TypeOK /\ EatersAreShown /\ SleepersWait /\ SomebodyWillSignal
    BY DEF Init, TableInit, TypeOK, TableTypeOK, Labels, EatersAreShown, SleepersWait,
           SomebodyWillSignal
  <2>2. ForksOwned /\ DoorOwned
    BY SizeAssumption
    DEF Init, TableInit, ForksOwned, HoldsLeft, HoldsRight, DoorOwned, AtDoor, NoOne, IDs
  <2>3. CounterIsExact
    <3>1. Inside = {}
      BY DEF Init, Inside, Seated
    <3> QED
      BY <3>1, FS_EmptySet DEF Init, CounterIsExact
  <2> QED
    BY <2>1, <2>2, <2>3 DEF IInv, DoorInv
<1>2. IInv /\ [Next]_vars => IInv'
  <2> SUFFICES ASSUME IInv, [Next]_vars PROVE IInv'
    OBVIOUS
  <2>1. ASSUME NEW p \in IDs, thread_function(p) PROVE IInv'
    BY <2>1, AskToEnterKeeps, TestCounterKeeps, ReturnFromWaitKeeps, AdmitKeeps,
       PickUpForksKeeps, EatKeeps, PutDownForksKeeps, AskToLeaveKeeps, SignalKeeps, LeaveKeeps
    DEF thread_function
  <2>2. CASE UNCHANGED vars
    BY <2>2 DEF vars, doorVars, IInv, TypeOK, TableTypeOK, ForksOwned, HoldsLeft, HoldsRight,
                EatersAreShown, DoorInv, DoorOwned, SleepersWait, CounterIsExact,
                SomebodyWillSignal, AtDoor, Inside
  <2> QED
    BY <2>1, <2>2, SpuriousWakeupKeeps DEF Next
<1> QED
  BY <1>1, <1>2, PTL DEF Spec

\* Every variable keeps its type, for any number of philosophers and any limit.
THEOREM TypeCorrect == Spec => []TypeOK
BY InvariantHolds, PTL DEF IInv

\* A fork's mutex is owned exactly between its lock and its unlock, so no thread
\* ever unlocks a fork of somebody else or locks one it already owns.
THEOREM MutexDiscipline == Spec => []ForksOwned
BY InvariantHolds, PTL DEF IInv

\* The counter never loses or gains a philosopher, although threads that return
\* from the wait come in without testing it.
THEOREM CounterCorrect == Spec => []CounterIsExact
BY InvariantHolds, PTL DEF IInv, DoorInv

-----------------------------------------------------------------------------
\* What a standstill looks like

\* The thread of p waits for a mutex or for the signal.
Blocked(p) ==
  \/ pc[p] \in {"think", "leave"} /\ eating_possibility_mutex # NoOne
  \/ pc[p] = "waiting" /\ (p \in waiters \/ eating_possibility_mutex # NoOne)
  \/ pc[p] = "left" /\ forks[left_fork(p)] # NoOne
  \/ pc[p] = "right" /\ forks[right_fork(p)] # NoOne

\* Everybody waits only if everybody holds a left fork and waits for the right one.
StandstillIsFullTable ==
  (\A p \in IDs : Blocked(p)) => Inside = IDs /\ \A p \in IDs : pc[p] = "right"

\* While no more than LIMIT are counted in, some thread can take its next step.
LimitKeepsMoving ==
  eating_philosopthers_count <= LIMIT => \E p \in IDs : ~Blocked(p)

\* A blocked thread takes no step of its own.
LEMMA BlockedMeansStill ==
  ASSUME NEW p \in IDs, Blocked(p)
  PROVE  ~thread_function(p)
BY DEF Blocked, thread_function, AskToEnter, TestCounter, ReturnFromWait, Admit, PickUpForks,
       Eat, PutDownForks, AskToLeave, Signal, Leave, Goto, LockDoor, LockFork

\* The owner of the mutex at the door is never blocked.
LEMMA DoorIsFree ==
  ASSUME IInv, \A p \in IDs : Blocked(p)
  PROVE  eating_possibility_mutex = NoOne
<1>1. ASSUME NEW p \in IDs, eating_possibility_mutex = p PROVE FALSE
  <2>1. AtDoor(p)
    BY <1>1 DEF IInv, DoorInv, DoorOwned
  <2> QED
    BY <2>1 DEF Blocked, AtDoor
<1> QED
  BY <1>1 DEF IInv, TypeOK

\* Whoever owns a fork while everybody is blocked waits for its right one.
LEMMA OwnersWaitRight ==
  ASSUME IInv, \A p \in IDs : Blocked(p), NEW f \in IDs, forks[f] # NoOne
  PROVE  f = left_fork(f) /\ pc[f] = "right"
<1>1. PICK q \in IDs : forks[f] = q
  BY DEF IInv, TypeOK, TableTypeOK
<1>2. \/ HoldsLeft(q) /\ f = left_fork(q)
      \/ HoldsRight(q) /\ f = right_fork(q)
  BY <1>1 DEF IInv, ForksOwned
<1>3. Blocked(q)
  OBVIOUS
<1>4. pc[q] = "right" /\ f = left_fork(q)
  BY <1>2, <1>3 DEF Blocked, HoldsLeft, HoldsRight
<1> QED
  BY <1>4 DEF left_fork

\* Somebody waits for a right fork: if all of them slept, one would have been
\* about to signal.
LEMMA SomebodyWaitsRight ==
  ASSUME IInv, \A p \in IDs : Blocked(p)
  PROVE  \E p \in IDs : pc[p] = "right"
<1> SUFFICES ASSUME \A p \in IDs : pc[p] # "right" PROVE FALSE
  OBVIOUS
<1>1. \A p \in IDs : pc[p] # "left"
  <2> SUFFICES ASSUME NEW p \in IDs, pc[p] = "left" PROVE FALSE
    OBVIOUS
  <2>1. Blocked(p) /\ left_fork(p) \in IDs
    BY ForksOf
  <2>2. forks[left_fork(p)] # NoOne
    BY <2>1 DEF Blocked
  <2> QED
    BY <2>1, <2>2, OwnersWaitRight
<1>2. \A p \in IDs : pc[p] = "waiting" /\ p \in waiters
  BY <1>1, DoorIsFree DEF Blocked
<1>3. waiters # {}
  BY <1>2, SizeAssumption DEF IDs
<1> QED
  BY <1>2, <1>3 DEF IInv, DoorInv, SomebodyWillSignal, Inside, Seated

\* A wait for a right fork is passed on around the whole table.
LEMMA StandstillShape ==
  ASSUME IInv
  PROVE  StandstillIsFullTable
<1> SUFFICES ASSUME \A p \in IDs : Blocked(p)
             PROVE  Inside = IDs /\ \A p \in IDs : pc[p] = "right"
  BY DEF StandstillIsFullTable
<1> DEFINE WaitRight == {p \in IDs : pc[p] = "right"}
<1>1. WaitRight # {}
  BY SomebodyWaitsRight
<1>2. ASSUME NEW p \in WaitRight PROVE right_fork(p) \in WaitRight
  <2>1. Blocked(p) /\ pc[p] = "right" /\ right_fork(p) \in IDs
    BY ForksOf
  <2>2. forks[right_fork(p)] # NoOne
    BY <2>1 DEF Blocked
  <2> QED
    BY <2>1, <2>2, OwnersWaitRight
<1>3. WaitRight = IDs
  <2> HIDE DEF WaitRight
  <2>1. WaitRight \subseteq IDs
    BY DEF WaitRight
  <2> QED
    BY <1>1, <1>2, <2>1, AroundTheTable
<1> QED
  BY <1>3 DEF Inside, Seated

\* The only standstill the program can reach is the one the counter was meant to
\* exclude: every philosopher inside, with its left fork, waiting for the right.
\* No thread is ever left asleep with nobody to wake it.
THEOREM OnlyFullTableStops == Spec => []StandstillIsFullTable
BY InvariantHolds, StandstillShape, PTL

\* A bound on those inside is all it would take: as long as the counter stays
\* within its limit the program cannot come to a standstill.
THEOREM CounterWouldSuffice == Spec => []LimitKeepsMoving
<1>1. IInv => LimitKeepsMoving
  <2> SUFFICES ASSUME IInv, eating_philosopthers_count <= LIMIT, \A p \in IDs : Blocked(p)
               PROVE  FALSE
    BY DEF LimitKeepsMoving
  <2>1. Cardinality(Inside) = Cardinality(0 .. SIZE - 1)
    BY StandstillShape DEF StandstillIsFullTable, IDs
  <2>2. Cardinality(0 .. SIZE - 1) = SIZE
    BY FS_Interval, SizeAssumption
  <2> QED
    BY <2>1, <2>2, SizeAssumption, LimitAssumption DEF IInv, DoorInv, CounterIsExact
<1> QED
  BY <1>1, InvariantHolds, PTL

-----------------------------------------------------------------------------

\* The program implements the abstract table: no two neighbours eat together,
\* however many the counter lets in.
THEOREM Implements == Spec => ImplementsDining
<1> DEFINE Eaters == {p \in IDs : who_is_eating[p] = 1}
<1>1. Init => Abstract!Init
  BY DEF Init, TableInit, Abstract!Init
<1>2. IInv /\ [Next]_vars => [Abstract!Next]_Eaters
  <2> SUFFICES ASSUME IInv, [Next]_vars PROVE [Abstract!Next]_Eaters
    OBVIOUS
  <2>1. CASE who_is_eating' = who_is_eating
    BY <2>1
  <2>2. ASSUME NEW p \in IDs, Goto(p, "sit", "eat"), SetEating(p, 1)
        PROVE  Abstract!StartEating(p)
    <3>1. who_is_eating[p] # 1
      BY <2>2 DEF IInv, EatersAreShown, Goto
    <3>2. ASSUME NEW q \in Eaters PROVE ~Abstract!Neighbours(p, q)
      <4>1. pc[q] = "eat" /\ pc[p] = "sit"
        BY <2>2, <3>2 DEF IInv, EatersAreShown, Goto
      <4>2. /\ forks[left_fork(p)] = p /\ forks[right_fork(p)] = p
            /\ forks[left_fork(q)] = q /\ forks[right_fork(q)] = q
        BY <4>1, ForksOf DEF IInv, ForksOwned, HoldsLeft, HoldsRight
      <4> QED
        BY <4>1, <4>2 DEF Abstract!Neighbours, Abstract!right_fork, left_fork, right_fork
    <3>3. Eaters' = Eaters \cup {p}
      BY <2>2 DEF SetEating, IInv, TypeOK, TableTypeOK
    <3> QED
      BY <3>1, <3>2, <3>3 DEF Abstract!StartEating
  <2>3. ASSUME NEW p \in IDs, Goto(p, "eat", "eraseLeft"), SetEating(p, 0)
        PROVE  Abstract!StopEating(p)
    BY <2>3 DEF IInv, EatersAreShown, Goto, SetEating, Abstract!StopEating, TypeOK, TableTypeOK
  <2>4. ASSUME NEW p \in IDs, thread_function(p) PROVE \/ who_is_eating' = who_is_eating
                                                       \/ Eat(p)
    BY <2>4
    DEF thread_function, AskToEnter, TestCounter, ReturnFromWait, Admit, PickUpForks,
        PutDownForks, AskToLeave, Signal, Leave, LockFork, MarkFork, EraseFork, UnlockFork,
        tableVars
  <2> QED
    BY <2>1, <2>2, <2>3, <2>4
    DEF Next, Eat, SpuriousWakeup, vars, tableVars, Abstract!Next, Abstract!IDs, IDs
<1> QED
  BY <1>1, <1>2, InvariantHolds, PTL DEF Spec, ImplementsDining, Abstract!Spec

=============================================================================
