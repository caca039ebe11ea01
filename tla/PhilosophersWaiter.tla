------------------------- MODULE PhilosophersWaiter -------------------------
(***************************************************************************)
(* lab09/zad3b/philosophers.c: all philosophers pick up the left fork      *)
(* first, and a counter is meant to keep one of them away from the table.  *)
(* The counter is tested once, with an if, before a wait on a condition    *)
(* variable; a thread that returns from the wait does not test it again.   *)
(* A thread that comes back to the table between the signal and the moment *)
(* the woken thread gets the mutex takes the place the signal was for, so  *)
(* more than LIMIT philosophers may come in.  The model keeps this, and    *)
(* the spurious wakeups POSIX allows.                                      *)
(***************************************************************************)
EXTENDS Forks, FiniteSets

CONSTANT LIMIT          \* 4 in the code: "count > 3" waits, "count < 4" signals
ASSUME LimitAssumption == LIMIT \in 1 .. SIZE - 1

VARIABLES
  pc,                   \* where each philosopher's thread is
  eating_philosopthers_count,
  eating_possibility_mutex,   \* its owner, or NoOne
  waiters               \* the threads asleep on eating_possibility_cond

doorVars == <<eating_philosopthers_count, eating_possibility_mutex, waiters>>
vars == <<forks, who_has_fork, who_is_eating, pc, doorVars>>

Goto(p, from, to) == pc[p] = from /\ pc' = [pc EXCEPT ![p] = to]

Init ==
  /\ TableInit
  /\ pc = [p \in IDs |-> "think"]
  /\ eating_philosopthers_count = 0
  /\ eating_possibility_mutex = NoOne
  /\ waiters = {}

LockDoor(p) ==
  /\ eating_possibility_mutex = NoOne
  /\ eating_possibility_mutex' = p

UnlockDoor == eating_possibility_mutex' = NoOne

-----------------------------------------------------------------------------

\* The test that sends a thread to sleep ...
MustWait  == eating_philosopthers_count > LIMIT - 1
\* Slip: the threshold is tested for equality with the wait's own bound.
MaySignalAtLimit == eating_philosopthers_count = LIMIT

\* ... and the one that decides a signal.
MaySignal == eating_philosopthers_count < LIMIT

AskToEnter(p) ==
  /\ Goto(p, "think", "test") /\ LockDoor(p)
  /\ UNCHANGED <<tableVars, eating_philosopthers_count, waiters>>

\* pthread_cond_wait goes to sleep and releases the mutex in one step.
TestCounter(p) ==
  /\ UNCHANGED <<tableVars, eating_philosopthers_count>>
  /\ \/ /\ MustWait
        /\ Goto(p, "test", "waiting") /\ UnlockDoor
        /\ waiters' = waiters \cup {p}
     \/ /\ ~MustWait
        /\ Goto(p, "test", "admit")
        /\ UNCHANGED <<eating_possibility_mutex, waiters>>

\* A woken thread takes the mutex again and goes on without a second test.
ReturnFromWait(p) ==
  /\ p \notin waiters
  /\ Goto(p, "waiting", "admit") /\ LockDoor(p)
  /\ UNCHANGED <<tableVars, eating_philosopthers_count, waiters>>

Admit(p) ==
  \/ /\ Goto(p, "admit", "unlockIn")
     /\ eating_philosopthers_count' = eating_philosopthers_count + 1
     /\ UNCHANGED <<tableVars, eating_possibility_mutex, waiters>>
  \/ /\ Goto(p, "unlockIn", "left") /\ UnlockDoor
     /\ UNCHANGED <<tableVars, eating_philosopthers_count, waiters>>

\* Slip: only the left fork's mutex is taken.
PickUpLeftFork(p) ==
  /\ UNCHANGED doorVars
  /\ \/ Goto(p, "left", "markLeft") /\ LockFork(p, left_fork(p))
     \/ Goto(p, "markLeft", "sit") /\ MarkFork(p, left_fork(p))

PickUpForks(p) ==
  /\ UNCHANGED doorVars
  /\ \/ Goto(p, "left", "markLeft") /\ LockFork(p, left_fork(p))
     \/ Goto(p, "markLeft", "right") /\ MarkFork(p, left_fork(p))
     \/ Goto(p, "right", "markRight") /\ LockFork(p, right_fork(p))
     \/ Goto(p, "markRight", "sit") /\ MarkFork(p, right_fork(p))

Eat(p) ==
  /\ UNCHANGED doorVars
  /\ \/ Goto(p, "sit", "eat") /\ SetEating(p, 1)
     \/ Goto(p, "eat", "eraseLeft") /\ SetEating(p, 0)

PutDownForks(p) ==
  /\ UNCHANGED doorVars
  /\ \/ Goto(p, "eraseLeft", "unlockLeft") /\ EraseFork(left_fork(p))
     \/ Goto(p, "unlockLeft", "eraseRight") /\ UnlockFork(left_fork(p))
     \/ Goto(p, "eraseRight", "unlockRight") /\ EraseFork(right_fork(p))
     \/ Goto(p, "unlockRight", "leave") /\ UnlockFork(right_fork(p))

AskToLeave(p) ==
  \/ /\ Goto(p, "leave", "decrement") /\ LockDoor(p)
     /\ UNCHANGED <<tableVars, eating_philosopthers_count, waiters>>
  \/ /\ Goto(p, "decrement", "signal")
     /\ eating_philosopthers_count' = eating_philosopthers_count - 1
     /\ UNCHANGED <<tableVars, eating_possibility_mutex, waiters>>

\* pthread_cond_signal wakes one sleeping thread; without one it does nothing.
Signal(p) ==
  /\ Goto(p, "signal", "unlockOut")
  /\ IF MaySignal /\ waiters # {}
     THEN \E w \in waiters : waiters' = waiters \ {w}
     ELSE UNCHANGED waiters
  /\ UNCHANGED <<tableVars, eating_philosopthers_count, eating_possibility_mutex>>

\* Slip: the mutex is still locked when the thread goes back to thinking.
LeaveWithMutex(p) ==
  /\ Goto(p, "unlockOut", "think")
  /\ UNCHANGED <<tableVars, doorVars>>

Leave(p) ==
  /\ Goto(p, "unlockOut", "think") /\ UnlockDoor
  /\ UNCHANGED <<tableVars, eating_philosopthers_count, waiters>>

\* pthread_cond_wait may return without a signal.
SpuriousWakeup(p) ==
  /\ p \in waiters
  /\ waiters' = waiters \ {p}
  /\ UNCHANGED <<tableVars, pc, eating_philosopthers_count, eating_possibility_mutex>>

thread_function(p) ==
  \/ AskToEnter(p) \/ TestCounter(p) \/ ReturnFromWait(p) \/ Admit(p)
  \/ PickUpForks(p) \/ Eat(p) \/ PutDownForks(p)
  \/ AskToLeave(p) \/ Signal(p) \/ Leave(p)

Next == \E p \in IDs : thread_function(p) \/ SpuriousWakeup(p)

Spec == Init /\ [][Next]_vars

\* Every thread that is not blocked is scheduled in the end; a mutex or a signal
\* may go to any of those that wait for it, and no spurious wakeup is owed.
FairSpec == Spec /\ \A p \in IDs : WF_vars(thread_function(p))

-----------------------------------------------------------------------------

\* The philosophers the counter stands for: counted in, not yet counted out.
Seated == {"unlockIn", "left", "markLeft", "right", "markRight", "sit", "eat",
           "eraseLeft", "unlockLeft", "eraseRight", "unlockRight",
           "leave", "decrement"}

Inside == {p \in IDs : pc[p] \in Seated}

\* Somebody eats again and again, unless one day all philosophers have been let
\* in together and hold each other up for good.
EatingGoesOnUnlessFull ==
  []<>(\E p \in IDs : who_is_eating[p] = 1)
    \/ <>[](Inside = IDs)

\* A sleeping thread is woken in the end, without relying on spurious wakeups.
SleeperIsWoken == \A p \in IDs : p \in waiters ~> p \notin waiters

\* Whatever the counter does, neighbours never eat together.
Abstract == INSTANCE Dining WITH eating <- {p \in IDs : who_is_eating[p] = 1}
ImplementsDining == Abstract!Spec

=============================================================================
