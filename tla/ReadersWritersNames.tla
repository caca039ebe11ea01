------------------------- MODULE ReadersWritersNames ------------------------
(***************************************************************************)
(* lab08/zad2: the names under which readers and writers find the array,   *)
(* the count and the two semaphores.  Each process may create the objects  *)
(* it needs, and each one that ends, for whatever reason, unlinks two of   *)
(* the names while the others go on with the objects they have opened.     *)
(* So processes of several generations may meet, and here, other than in   *)
(* ReadersWriters, the load and the store of the count are two steps.      *)
(*                                                                         *)
(* An object is called after the process that created it; a process starts *)
(* once.                                                                   *)
(***************************************************************************)
EXTENDS Integers

CONSTANTS
  Readers, Writers,
  None,
  INTERRUPTS            \* bound: processes that get a SIGINT

Processes == Readers \cup Writers

SHARED_MEM        == "/shared_mem"
READERS_COUNT     == "/readers_count"
READERS_SEMAPHORE == "/readers_semaphore"
WRITERS_SEMAPHORE == "/writers_semaphore"
Names      == {SHARED_MEM, READERS_COUNT, READERS_SEMAPHORE, WRITERS_SEMAPHORE}
Semaphores == {READERS_SEMAPHORE, WRITERS_SEMAPHORE}

VARIABLES
  object,               \* the object each name stands for, or None
  has,                  \* of each process: the objects it has opened
  sized,                \* segments that ftruncate() has given their size
  value,                \* of each semaphore and each count
  step, register,       \* of each process: what is next, the count it loaded
  interrupts,
  late                  \* history: a count in use was set to 0

vars == <<object, has, sized, value, step, register, interrupts, late>>

Init ==
  /\ object = [n \in Names |-> None]
  /\ has = [p \in Processes |-> [n \in Names |-> None]]
  /\ sized = {} /\ late = FALSE /\ interrupts = 0
  /\ value = [n \in Names |-> [p \in Processes |-> 0]]
  /\ step = [p \in Processes |-> "array"] /\ register = [p \in Processes |-> 0]

Goto(p, from, to) == step[p] = from /\ step' = [step EXCEPT ![p] = to]
Kept == UNCHANGED <<interrupts, late>>

\* The open functions with O_CREAT: what there is, or a new object.
Open(p, n) ==
  LET o == IF object[n] = None THEN p ELSE object[n] IN
  /\ object' = [object EXCEPT ![n] = o] /\ has' = [has EXCEPT ![p][n] = o]

\* ... and without it.
OpenOld(p, n) ==
  /\ object[n] # None
  /\ has' = [has EXCEPT ![p][n] = object[n]] /\ UNCHANGED object

\* sem_open() makes a new semaphore with the value 1.
OpenSemaphore(p, n) ==
  /\ Open(p, n)
  /\ value' = IF object[n] = None THEN [value EXCEPT ![n][p] = 1] ELSE value

Truncate(p, n) == sized' = sized \cup {<<n, has[p][n]>>}

Wait(p, n) ==
  /\ value[n][has[p][n]] > 0
  /\ value' = [value EXCEPT ![n][has[p][n]] = @ - 1]

Post(p, n) == value' = [value EXCEPT ![n][has[p][n]] = @ + 1]

-----------------------------------------------------------------------------
\* writer.c

WriterStarts(w) ==
  /\ \/ Goto(w, "array", "size") /\ Open(w, SHARED_MEM) /\ UNCHANGED <<sized, value>>
     \/ Goto(w, "size", "semaphore") /\ Truncate(w, SHARED_MEM) /\ UNCHANGED <<object, has, value>>
     \/ Goto(w, "semaphore", "wait") /\ OpenSemaphore(w, WRITERS_SEMAPHORE) /\ UNCHANGED sized
  /\ UNCHANGED register /\ Kept

WriterWorks(w) ==
  /\ \/ Goto(w, "wait", "work") /\ Wait(w, WRITERS_SEMAPHORE)
     \/ Goto(w, "work", "wait") /\ Post(w, WRITERS_SEMAPHORE)
  /\ UNCHANGED <<object, has, sized, register>> /\ Kept

-----------------------------------------------------------------------------
\* reader.c

\* shm_open() of the array, and of the count with O_EXCL: the creator sets the
\* size, and after both mmap() the value; a late-comer opens what there is, if it
\* is still there.
ReaderFindsMemory(r) ==
  /\ \/ Goto(r, "array", "create") /\ OpenOld(r, SHARED_MEM)
     \/ object[READERS_COUNT] = None /\ Goto(r, "create", "size") /\ Open(r, READERS_COUNT)
     \/ object[READERS_COUNT] # None /\ Goto(r, "create", "find") /\ UNCHANGED <<object, has>>
     \/ Goto(r, "find", "writers") /\ OpenOld(r, READERS_COUNT)
  /\ UNCHANGED <<sized, value, register>> /\ Kept

ReaderSizesCount(r) ==
  /\ Goto(r, "size", "reset") /\ Truncate(r, READERS_COUNT)
  /\ UNCHANGED <<object, has, value, register>> /\ Kept

ResetCount(r) ==
  /\ Goto(r, "reset", "writers")
  /\ value' = [value EXCEPT ![READERS_COUNT][r] = 0]
  /\ late' = (late \/ value[READERS_COUNT][r] # 0)
  /\ UNCHANGED <<object, has, sized, register, interrupts>>

ReaderFindsSemaphores(r) ==
  /\ \/ Goto(r, "writers", "readers") /\ OpenOld(r, WRITERS_SEMAPHORE) /\ UNCHANGED value
     \/ Goto(r, "readers", "enter") /\ OpenSemaphore(r, READERS_SEMAPHORE)
  /\ UNCHANGED <<sized, register>> /\ Kept

LockCount(r) ==
  /\ Goto(r, "enter", "in") \/ Goto(r, "work", "out")
  /\ Wait(r, READERS_SEMAPHORE)
  /\ UNCHANGED <<object, has, sized, register>> /\ Kept

count(r) == value[READERS_COUNT][has[r][READERS_COUNT]]

LoadCount(r) ==
  /\ <<READERS_COUNT, has[r][READERS_COUNT]>> \in sized
  /\ Goto(r, "in", "increment") \/ Goto(r, "out", "decrement")
  /\ register' = [register EXCEPT ![r] = count(r)]
  /\ UNCHANGED <<object, has, sized, value>> /\ Kept

\* A late-comer that gets here before the creator's ftruncate() is killed by
\* SIGBUS, which leaves the names alone.
BusError(r) ==
  /\ <<READERS_COUNT, has[r][READERS_COUNT]>> \notin sized
  /\ Goto(r, "in", "ended")
  /\ UNCHANGED <<object, has, sized, value, register>> /\ Kept

\* After a late reset the count may become negative.
StoreCount(r) ==
  /\ \/ Goto(r, "increment", "first")
        /\ value' = [value EXCEPT ![READERS_COUNT][has[r][READERS_COUNT]] = register[r] + 1]
     \/ Goto(r, "decrement", "last")
        /\ value' = [value EXCEPT ![READERS_COUNT][has[r][READERS_COUNT]] = register[r] - 1]
  /\ UNCHANGED <<object, has, sized, register>> /\ Kept

\* Slip: the count is compared as if it had not been increased yet.
FirstInOffByOne(r) ==
  /\ Goto(r, "first", "open")
  /\ IF count(r) = 0 THEN Wait(r, WRITERS_SEMAPHORE) ELSE UNCHANGED value
  /\ UNCHANGED <<object, has, sized, register>> /\ Kept

FirstIn(r) ==
  /\ Goto(r, "first", "open")
  /\ IF count(r) = 1 THEN Wait(r, WRITERS_SEMAPHORE) ELSE UNCHANGED value
  /\ UNCHANGED <<object, has, sized, register>> /\ Kept

LastOut(r) ==
  /\ Goto(r, "last", "close")
  /\ IF count(r) = 0 THEN Post(r, WRITERS_SEMAPHORE) ELSE UNCHANGED value
  /\ UNCHANGED <<object, has, sized, register>> /\ Kept

UnlockCount(r) ==
  /\ Goto(r, "open", "work") \/ Goto(r, "close", "enter")
  /\ Post(r, READERS_SEMAPHORE)
  /\ UNCHANGED <<object, has, sized, register>> /\ Kept

reader(r) ==
  \/ ReaderFindsMemory(r) \/ ReaderSizesCount(r) \/ ResetCount(r) \/ ReaderFindsSemaphores(r)
  \/ LockCount(r) \/ LoadCount(r) \/ BusError(r) \/ StoreCount(r)
  \/ FirstIn(r) \/ LastOut(r) \/ UnlockCount(r)

-----------------------------------------------------------------------------

\* shm_open() or sem_open() of a name that is not there ends a reader.
ReaderFails(r) ==
  /\ \/ object[SHARED_MEM] = None /\ Goto(r, "array", "unlink")
     \/ object[READERS_COUNT] = None /\ Goto(r, "find", "unlink")
     \/ object[WRITERS_SEMAPHORE] = None /\ Goto(r, "writers", "unlink")
  /\ UNCHANGED <<object, has, sized, value, register>> /\ Kept

Interrupt(p) ==
  /\ interrupts < INTERRUPTS
  /\ step[p] \notin {"unlink", "unlink_semaphore", "ended"}
  /\ step' = [step EXCEPT ![p] = "unlink"]
  /\ interrupts' = interrupts + 1
  /\ UNCHANGED <<object, has, sized, value, register, late>>

\* The function of atexit(): first the segment, then the semaphore.
Unlink(p) ==
  /\ \/ Goto(p, "unlink", "unlink_semaphore")
        /\ object' = [object EXCEPT ![IF p \in Readers THEN READERS_COUNT ELSE SHARED_MEM] = None]
     \/ Goto(p, "unlink_semaphore", "ended")
        /\ object' = [object EXCEPT ![IF p \in Readers THEN READERS_SEMAPHORE
                                                       ELSE WRITERS_SEMAPHORE] = None]
  /\ UNCHANGED <<has, sized, value, register>> /\ Kept

Next ==
  \/ \E r \in Readers : reader(r) \/ ReaderFails(r)
  \/ \E w \in Writers : WriterStarts(w) \/ WriterWorks(w)
  \/ \E p \in Processes : Interrupt(p) \/ Unlink(p)

-----------------------------------------------------------------------------

Reading(r) == step[r] = "work"
Writing(w) == step[w] = "work"

Same(p, q, n) == has[p][n] = has[q][n] /\ has[p][n] # None

\* Two readers of one count have a semaphore each, of either kind.
CountShared ==
  \E r, s \in Readers, n \in Semaphores :
    /\ Same(r, s, READERS_COUNT)
    /\ has[r][n] # has[s][n] /\ None \notin {has[r][n], has[s][n]}

\* Those who use one writers' semaphore exclude each other, whatever was
\* unlinked, created anew or left behind by an interrupted process, unless the
\* creator of the count (reader.c:101) wiped out who had counted in, or readers of
\* two generations keep one count under two semaphores, or one count for two
\* writers' semaphores.
ExclusionAcrossGenerations ==
  late \/ CountShared \/
  \A w \in Writers : Writing(w) =>
    /\ \A r \in Readers : Reading(r) => ~Same(r, w, WRITERS_SEMAPHORE)
    /\ \A v \in Writers \ {w} : Writing(v) => ~Same(v, w, WRITERS_SEMAPHORE)

=============================================================================
