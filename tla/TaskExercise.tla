----------------------------- MODULE TaskExercise ---------------------------
(***************************************************************************)
(* lab08/zad1 as two questions: how processes that have come through their *)
(* startup share the table (TaskBuffer), and how processes come and go     *)
(* (TaskStartup).  Each behaviour asks one of them, and the other's        *)
(* variables stay as they are.                                             *)
(***************************************************************************)
EXTENDS TaskBuffer

CONSTANTS ComingProducers, ComingConsumers, COMING_TAB_LENGTH

ASSUME ComingAssumption ==
  /\ COMING_TAB_LENGTH \in Nat \ {0}
  /\ ComingProducers \cap ComingConsumers = {}
  /\ IsFiniteSet(ComingProducers) /\ IsFiniteSet(ComingConsumers)

VARIABLES
  question,             \* "loops" or "startup"
  sem_key, shm_key, sets_made, segs_made, live_sets, live_segs,
  semval, initialised, missed,
  step, sem_id, shm_id, attached, is_sem_created, interrupted

S == INSTANCE TaskStartup WITH
       Producers <- ComingProducers, Consumers <- ComingConsumers,
       TASK_TAB_LENGTH <- COMING_TAB_LENGTH, pc <- step

startup == <<sem_key, shm_key, sets_made, segs_made, live_sets, live_segs, semval, initialised,
             missed, step, sem_id, shm_id, attached, is_sem_created, interrupted>>
allVars == <<question, vars, startup>>

ExerciseInit == question \in {"loops", "startup"} /\ Init /\ S!Init

InLoops(A)   == question = "loops" /\ A /\ UNCHANGED <<question, startup>>
InStartup(A) == question = "startup" /\ A /\ UNCHANGED <<question, vars>>

ExerciseNext == InLoops(Next) \/ InStartup(S!Next)

\* A process that stays runnable is scheduled; nobody need ever be interrupted.
ExerciseSpec ==
  /\ ExerciseInit /\ [][ExerciseNext]_allVars
  /\ \A p \in Producers : WF_allVars(InLoops(producer(p)))
  /\ \A c \in Consumers : WF_allVars(InLoops(consumer(c)))
  /\ \A p \in ComingProducers : WF_allVars(InStartup(S!producer(p)))
  /\ \A c \in ComingConsumers : WF_allVars(InStartup(S!consumer(c)))

-----------------------------------------------------------------------------
\* TaskBuffer's properties hold of both; these are TaskStartup's.

\* In every semaphore set in use each slot is accounted for.
SlotsAccounted == S!SlotsAccounted

\* One process initialises a set, before anybody works on it.
OneInitialises == S!OneInitialises

\* No set outlives the process that made it, unless a SIGINT cuts its removal short.
NoOrphanedSet == S!NoOrphanedSet

\* Whoever removes a set ends all that use it.
RemovalEndsUsers == S!RemovalEndsUsers

=============================================================================
