----------------------------- MODULE Philosophers ---------------------------
(***************************************************************************)
(* The two programs of lab09/zad3: that with the counter at the door,      *)
(* whose module this extends, and that with the ordered forks, at the same *)
(* table.  A behaviour of OrderedFairSpec is one of the second program,    *)
(* and the door stays as it is.                                            *)
(***************************************************************************)
EXTENDS PhilosophersWaiter

O == INSTANCE PhilosophersOrdered

\* No program but the first has a door.
AtTable(A) == A /\ UNCHANGED doorVars

OrderedInit ==
  /\ O!Init
  /\ eating_philosopthers_count = 0 /\ eating_possibility_mutex = NoOne /\ waiters = {}

\* The ordered program by itself, under its own fairness.
OrderedFairSpec ==
  /\ OrderedInit /\ [][AtTable(O!Next)]_vars
  /\ \A p \in IDs : WF_vars(AtTable(O!thread_function(p)))

-----------------------------------------------------------------------------
\* PhilosophersOrdered's properties.

\* A mutex is owned exactly between the lock and the unlock of its fork, although
\* the calls name the forks in different orders.
ForkOwnership == O!ForkOwnership

\* Some thread can always take its next step.
NoCircularWait == O!NoCircularWait

\* Again and again somebody eats.
SomebodyEatsAgain == O!SomebodyEatsAgain

\* Neighbours never eat together.
OrderedImplementsDining == O!ImplementsDining

=============================================================================
