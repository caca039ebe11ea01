---------------------------- MODULE ReadersWriters --------------------------
(***************************************************************************)
(* lab08/zad2: reader and writer processes on one shared array.  Readers   *)
(* keep a count under sem_reader; the first one in takes sem_writer for    *)
(* all of them and the last one out, which need not be the same process,   *)
(* gives it back.  A writer takes sem_writer for every modification.       *)
(*                                                                         *)
(* The processes have opened the same objects and are not interrupted; how *)
(* they find them, and what an interrupt does, is in ReadersWritersNames.  *)
(***************************************************************************)
EXTENDS Naturals, FiniteSets

CONSTANTS
  Readers, Writers,
  TAB_LENGTH,           \* cells of the array
  Value,                \* what a cell may hold
  Blank,                \* the value of a cell of the fresh, zero-filled array
  NoArray               \* a reader has printed nothing yet

ASSUME ReadersWritersAssumption ==
  /\ TAB_LENGTH \in Nat \ {0} /\ Blank \in Value
  /\ Readers \cap Writers = {}
  /\ IsFiniteSet(Readers) /\ IsFiniteSet(Writers)
  /\ NoArray \notin [0 .. TAB_LENGTH - 1 -> Value]

Processes == Readers \cup Writers
Cells     == 0 .. TAB_LENGTH - 1
Arrays    == [Cells -> Value]

VARIABLES
  sem_reader, sem_writer, readers_count,
  shared_array,
  pc, i,                \* of each process: its next step, its loop counter
  scanned,              \* of each reader: the cells it has looked at, as an array
  result,               \* of each reader: the array its last printed count is of
  committed             \* the array at the last sem_post of a writer

vars == <<sem_reader, sem_writer, readers_count, shared_array, pc, i, scanned,
          result, committed>>
semaphores == <<sem_reader, sem_writer, readers_count>>
data       == <<shared_array, i, scanned, result, committed>>

Labels == {"enter", "count", "first", "open", "scan", "print",
           "leave", "uncount", "last", "close", "wait", "modify", "post"}

TypeOK ==
  /\ sem_reader \in 0 .. 1 /\ sem_writer \in 0 .. 1
  /\ readers_count \in Nat
  /\ shared_array \in Arrays /\ committed \in Arrays
  /\ pc \in [Processes -> Labels]
  /\ i \in [Processes -> 0 .. TAB_LENGTH]
  /\ scanned \in [Readers -> Arrays]
  /\ result \in [Readers -> Arrays \cup {NoArray}]

FreshArray == [c \in Cells |-> Blank]

Init ==
  /\ sem_reader = 1 /\ sem_writer = 1 /\ readers_count = 0
  /\ shared_array = FreshArray /\ committed = FreshArray
  /\ pc = [x \in Processes |-> IF x \in Readers THEN "enter" ELSE "wait"]
  /\ i = [x \in Processes |-> 0]
  /\ scanned = [r \in Readers |-> FreshArray]
  /\ result = [r \in Readers |-> NoArray]

Goto(x, from, to) == pc[x] = from /\ pc' = [pc EXCEPT ![x] = to]

-----------------------------------------------------------------------------
\* reader.c

\* Slip: the count is updated without its semaphore.
LockCountForgotten(r) ==
  /\ Goto(r, "enter", "count") \/ Goto(r, "leave", "uncount")
  /\ UNCHANGED <<semaphores, data>>

LockCount(r) ==
  /\ Goto(r, "enter", "count") \/ Goto(r, "leave", "uncount")
  /\ sem_reader > 0
  /\ sem_reader' = sem_reader - 1
  /\ UNCHANGED <<sem_writer, readers_count, data>>

CountIn(r) ==
  /\ Goto(r, "count", "first")
  /\ readers_count' = readers_count + 1
  /\ UNCHANGED <<sem_reader, sem_writer, data>>

\* Slip: the count is compared as if it had not been increased yet.
FirstInOffByOne(r) ==
  /\ Goto(r, "first", "open")
  /\ IF readers_count = 0
     THEN sem_writer > 0 /\ sem_writer' = sem_writer - 1
     ELSE UNCHANGED sem_writer
  /\ UNCHANGED <<sem_reader, readers_count, data>>

\* Only the first reader waits for the writers, and it keeps the others waiting.
FirstIn(r) ==
  /\ Goto(r, "first", "open")
  /\ IF readers_count = 1
     THEN sem_writer > 0 /\ sem_writer' = sem_writer - 1
     ELSE UNCHANGED sem_writer
  /\ UNCHANGED <<sem_reader, readers_count, data>>

UnlockCount(r) ==
  /\ Goto(r, "open", "scan") \/ Goto(r, "close", "enter")
  /\ sem_reader' = sem_reader + 1
  /\ UNCHANGED <<sem_writer, readers_count, data>>

\* The loop of task_execute, one cell at a time.
ScanCell(r) ==
  /\ \/ i[r] + 1 < TAB_LENGTH /\ Goto(r, "scan", "scan")
     \/ i[r] + 1 = TAB_LENGTH /\ Goto(r, "scan", "print")
  /\ scanned' = [scanned EXCEPT ![r][i[r]] = shared_array[i[r]]]
  /\ i' = [i EXCEPT ![r] = IF @ + 1 = TAB_LENGTH THEN 0 ELSE @ + 1]
  /\ UNCHANGED <<semaphores, shared_array, result, committed>>

PrintCount(r) ==
  /\ Goto(r, "print", "leave")
  /\ result' = [result EXCEPT ![r] = scanned[r]]
  /\ UNCHANGED <<semaphores, shared_array, i, scanned, committed>>

CountOut(r) ==
  /\ Goto(r, "uncount", "last")
  /\ readers_count' = readers_count - 1
  /\ UNCHANGED <<sem_reader, sem_writer, data>>

\* Slips: every reader, or the last but one, gives the semaphore back.
LastOutAlwaysPosts(r) ==
  /\ Goto(r, "last", "close")
  /\ sem_writer' = sem_writer + 1
  /\ UNCHANGED <<sem_reader, readers_count, data>>

LastOutOffByOne(r) ==
  /\ Goto(r, "last", "close")
  /\ sem_writer' = IF readers_count = 1 THEN sem_writer + 1 ELSE sem_writer
  /\ UNCHANGED <<sem_reader, readers_count, data>>

LastOut(r) ==
  /\ Goto(r, "last", "close")
  /\ sem_writer' = IF readers_count = 0 THEN sem_writer + 1 ELSE sem_writer
  /\ UNCHANGED <<sem_reader, readers_count, data>>

reader(r) ==
  \/ LockCount(r) \/ CountIn(r) \/ FirstIn(r) \/ UnlockCount(r)
  \/ ScanCell(r) \/ PrintCount(r) \/ CountOut(r) \/ LastOut(r)

-----------------------------------------------------------------------------
\* writer.c

\* Slip: the writer does not wait for the array.
BeginModifyNoWait(w) ==
  /\ Goto(w, "wait", "modify")
  /\ \E iterations_number \in 1 .. TAB_LENGTH : i' = [i EXCEPT ![w] = iterations_number]
  /\ UNCHANGED <<semaphores, shared_array, scanned, result, committed>>

\* The number of cells to modify is drawn first; i counts them down.
BeginModify(w) ==
  /\ Goto(w, "wait", "modify")
  /\ sem_writer > 0
  /\ sem_writer' = sem_writer - 1
  /\ \E iterations_number \in 1 .. TAB_LENGTH : i' = [i EXCEPT ![w] = iterations_number]
  /\ UNCHANGED <<sem_reader, readers_count, shared_array, scanned, result, committed>>

ModifyCell(w) ==
  /\ \/ i[w] > 1 /\ Goto(w, "modify", "modify")
     \/ i[w] = 1 /\ Goto(w, "modify", "post")
  /\ \E index \in Cells, value \in Value :
       shared_array' = [shared_array EXCEPT ![index] = value]
  /\ i' = [i EXCEPT ![w] = @ - 1]
  /\ UNCHANGED <<semaphores, scanned, result, committed>>

\* Slip: the semaphore is not given back.
EndModifyKeep(w) ==
  /\ Goto(w, "post", "wait")
  /\ committed' = shared_array
  /\ UNCHANGED <<semaphores, shared_array, i, scanned, result>>

EndModify(w) ==
  /\ Goto(w, "post", "wait")
  /\ sem_writer' = sem_writer + 1
  /\ committed' = shared_array
  /\ UNCHANGED <<sem_reader, readers_count, shared_array, i, scanned, result>>

writer(w) == BeginModify(w) \/ ModifyCell(w) \/ EndModify(w)

Next == (\E r \in Readers : reader(r)) \/ (\E w \in Writers : writer(w))

Spec == Init /\ [][Next]_vars

-----------------------------------------------------------------------------

Reading(r) == pc[r] \in {"scan", "print"}
Writing(w) == pc[w] \in {"modify", "post"}

\* One writer, or any number of readers, has the array.
Exclusion ==
  /\ \A w \in Writers : Writing(w) => \A r \in Readers : ~Reading(r)
  /\ \A v, w \in Writers : Writing(v) /\ Writing(w) => v = w

Counted(r) == pc[r] \in {"first", "open", "scan", "print", "leave", "uncount"}
Inside     == {r \in Readers : Counted(r)}

\* The count is the number of readers between their two updates of it, and one
\* process at most is between a sem_wait and a sem_post on sem_reader.
Counting(r) == pc[r] \in {"count", "first", "open", "uncount", "last", "close"}

CountIsExact ==
  /\ readers_count = Cardinality(Inside)
  /\ sem_reader = IF \E r \in Readers : Counting(r) THEN 0 ELSE 1
  /\ \A r, s \in Readers : Counting(r) /\ Counting(s) => r = s

\* The readers own sem_writer from the first one's wait to the last one's post.
ReadersOwn ==
  \/ \E r \in Readers : pc[r] \in {"open", "scan", "print", "leave", "uncount"}
  \/ \E r \in Readers : pc[r] = "first" /\ readers_count > 1
  \/ \E r \in Readers : pc[r] = "last"

\* sem_writer is handed from reader to reader and never lost: it is taken
\* exactly while a writer or the readers as a group own it.
WriterSemaphoreOwned ==
  sem_writer = IF ReadersOwn \/ \E w \in Writers : Writing(w) THEN 0 ELSE 1

\* Somebody always gets to work in the end (readers may starve the writers, and
\* either may starve one process).
WorkGoesOn ==
  []<>(\/ \E r \in Readers : Reading(r)
       \/ \E w \in Writers : Writing(w))

\* The inductive invariant also needs to know which labels are whose.
LabelsFit ==
  \A x \in Processes : pc[x] \in {"wait", "modify", "post"} <=> x \in Writers

WriterAlone == \A w \in Writers : Writing(w) => ~ReadersOwn

WritersTakeTurns == \A v, w \in Writers : Writing(v) /\ Writing(w) => v = w

IInv ==
  TypeOK /\ LabelsFit /\ CountIsExact /\ WriterSemaphoreOwned /\ WriterAlone /\ WritersTakeTurns

\* Every scan is of one complete array.
Atomic == INSTANCE AtomicArray WITH array <- committed
ImplementsAtomicArray == Atomic!Spec

=============================================================================
