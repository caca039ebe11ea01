------------------------------- MODULE Forks --------------------------------
(***************************************************************************)
(* The table the philosophers of lab09/zad3a and lab09/zad3b share: one    *)
(* mutex per fork and the two arrays the main thread prints.  A fork is    *)
(* picked up in two steps and put down in two steps, because the arrays    *)
(* are written while the mutex is held and the threads interleave between  *)
(* the two.                                                                *)
(*                                                                         *)
(* The mutexes are of type PTHREAD_MUTEX_NORMAL and are locked and         *)
(* unlocked by their owner only, so no pthread call returns an error and   *)
(* the ERROR_HANDLER branches are not taken.                               *)
(***************************************************************************)
EXTENDS Naturals

CONSTANT SIZE           \* number of philosophers, and of forks
ASSUME SizeAssumption == SIZE \in Nat /\ SIZE > 1

VARIABLES
  forks,                \* forks[f]: the philosopher that owns mutex f, or NoOne
  who_has_fork,         \* the printed table of forks, NoOne for the code's -1
  who_is_eating         \* the printed table of eaters

tableVars == <<forks, who_has_fork, who_is_eating>>

IDs == 0 .. SIZE - 1
NoOne == SIZE           \* stands for "unlocked" and for the code's -1

left_fork(p)  == p
right_fork(p) == (p + 1) % SIZE

TableTypeOK ==
  /\ forks \in [IDs -> IDs \cup {NoOne}]
  /\ who_has_fork \in [IDs -> IDs \cup {NoOne}]
  /\ who_is_eating \in [IDs -> {0, 1}]

TableInit ==
  /\ forks = [f \in IDs |-> NoOne]
  /\ who_has_fork = [f \in IDs |-> NoOne]
  /\ who_is_eating = [p \in IDs |-> 0]

\* pickup_fork: pthread_mutex_lock, which blocks while the fork is taken ...
LockFork(p, f) ==
  /\ forks[f] = NoOne
  /\ forks' = [forks EXCEPT ![f] = p]
  /\ UNCHANGED <<who_has_fork, who_is_eating>>

\* ... and then the entry in the printed table.
MarkFork(p, f) ==
  /\ who_has_fork' = [who_has_fork EXCEPT ![f] = p]
  /\ UNCHANGED <<forks, who_is_eating>>

\* putdown_fork: the entry is erased first, while the mutex is still held ...
EraseFork(f) ==
  /\ who_has_fork' = [who_has_fork EXCEPT ![f] = NoOne]
  /\ UNCHANGED <<forks, who_is_eating>>

\* ... and then the fork is unlocked.
UnlockFork(f) ==
  /\ forks' = [forks EXCEPT ![f] = NoOne]
  /\ UNCHANGED <<who_has_fork, who_is_eating>>

SetEating(p, value) ==
  /\ who_is_eating' = [who_is_eating EXCEPT ![p] = value]
  /\ UNCHANGED <<forks, who_has_fork>>

=============================================================================
