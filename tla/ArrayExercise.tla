---------------------------- MODULE ArrayExercise ---------------------------
(***************************************************************************)
(* lab08/zad2 as two questions: how the processes share the array once all *)
(* have opened the same objects (ReadersWriters), and what becomes of it   *)
(* while they come and go (ReadersWritersNames).  Each behaviour asks one  *)
(* of them, and the other's variables stay as they are.                    *)
(***************************************************************************)
EXTENDS ReadersWriters

CONSTANTS ComingReaders, ComingWriters, None, INTERRUPTS

ASSUME ComingAssumption ==
  /\ ComingReaders \cap ComingWriters = {} /\ None \notin ComingReaders \cup ComingWriters
  /\ IsFiniteSet(ComingReaders)

VARIABLES
  question,             \* "loops" or "names"
  object, has, sized, value, step, register, interrupts, late

N == INSTANCE ReadersWritersNames WITH Readers <- ComingReaders, Writers <- ComingWriters

names   == <<object, has, sized, value, step, register, interrupts, late>>
allVars == <<question, vars, names>>

ExerciseInit == question \in {"loops", "names"} /\ Init /\ N!Init

InLoops(A) == question = "loops" /\ A /\ UNCHANGED <<question, names>>

ExerciseNext ==
  \/ InLoops(Next)
  \/ question = "names" /\ N!Next /\ UNCHANGED <<question, vars>>

\* A process that stays runnable is scheduled; semaphores promise no order, and
\* nobody has to come or to go.
ExerciseSpec ==
  /\ ExerciseInit /\ [][ExerciseNext]_allVars
  /\ \A r \in Readers : WF_allVars(InLoops(reader(r)))
  /\ \A w \in Writers : WF_allVars(InLoops(writer(w)))

-----------------------------------------------------------------------------

\* Processes with one writers' semaphore exclude each other across generations.
ExclusionAcrossGenerations == N!ExclusionAcrossGenerations

\* Nobody waits for ever for the two semaphores as long as nobody comes or goes.
LoopsGoOn == question = "loops" => WorkGoesOn

=============================================================================
