-------------------------------- MODULE Finder ------------------------------
(***************************************************************************)
(* lab09/zad1/finder.c, zad2a/main.c and zad2b/main.c: threads look for a  *)
(* pattern in a file they read through one descriptor, block by block, and *)
(* main waits for them.  zad1 is built in three versions: a thread that    *)
(* has found the pattern cancels the others at once ("asynch") or at a     *)
(* point of theirs ("synchr"), or all go on and are counted ("detach").    *)
(* The Makefiles of zad2a and zad2b build the first version; zad2a adds a  *)
(* signal, zad2b a division by zero.                                       *)
(*                                                                         *)
(* Positions are in blocks of buffer_size, and of a block only the outcome *)
(* of the comparison is kept: the pattern lies in it, it starts in it and  *)
(* goes on in the next ("across"), only seems to ("partial"), or neither.  *)
(***************************************************************************)
EXTENDS Naturals

CONSTANTS
  QUANTITY,             \* threads_number
  BLOCKS,               \* the length of the file
  Contents              \* the kinds of blocks the file may have

ASSUME FinderAssumption ==
  /\ QUANTITY \in Nat \ {0} /\ BLOCKS \in Nat
  /\ Contents \subseteq {"none", "inside", "across", "partial"}

Threads  == 0 .. QUANTITY - 1
Main     == QUANTITY                    \* main, as the owner of a mutex
Nobody   == QUANTITY + 1
Versions == {"asynch", "synchr", "detach", "zad2a", "zad2b"}

VARIABLES
  version, file,
  signal,               \* zad2a: the signal and the flags of the command line
  divide_by_zero,       \* zad2b: the thread chosen for it
  process,              \* "running", "exited", "killed", "crashed", "stopped"
  main_pc, next,        \* main and its loop index i
  pc,
  threads_quantity, mutex_find, mutex_cancel,
  offset,               \* the offset of the shared descriptor
  position, stride,     \* d->position and the thread's own threads_quantity
  cancelled,            \* the threads on which pthread_cancel was called
  pending,              \* zad2a: who the signal is pending for
  scanned               \* the blocks that were read, and compared

control == <<version, file, signal, divide_by_zero>>
locks   == <<mutex_find, mutex_cancel>>
reading == <<offset, position, stride, scanned>>
main_   == <<main_pc, next>>
vars    == <<control, process, main_, pc, threads_quantity, locks, reading, cancelled, pending>>

\* Both flags of -m and both of -t; TERM stands for SIGUSR1 as well, and the
\* flags make no difference to SIGKILL and SIGSTOP.
NoSignal == [sig |-> "none", mask |-> "none", handler |-> FALSE, target |-> "process"]
Signals  ==
  [sig : {"TERM"}, mask : {"none", "process", "thread"}, handler : BOOLEAN,
   target : {"process", "thread"}]
    \cup {[NoSignal EXCEPT !.sig = s] : s \in {"none", "KILL", "STOP"}}

Init ==
  /\ version \in Versions
  /\ file \in [0 .. BLOCKS - 1 -> Contents]
  /\ signal \in IF version = "zad2a" THEN Signals ELSE {NoSignal}
  /\ divide_by_zero \in IF version = "zad2b" THEN Threads ELSE {0}
  /\ process = "running"
  /\ main_pc = "create" /\ next = 0
  /\ pc = [t \in Threads |-> "none"]
  /\ threads_quantity = QUANTITY
  /\ mutex_find = Nobody
  /\ mutex_cancel = IF version \in {"zad2a", "zad2b"} THEN Nobody ELSE Main
  /\ offset = 0
  /\ position = [t \in Threads |-> t]
  /\ stride = [t \in Threads |-> 0]
  /\ cancelled = {} /\ pending = {} /\ scanned = {}

Asynch == version \notin {"synchr", "detach"}

Goto(t, from, to) == pc[t] = from /\ pc' = [pc EXCEPT ![t] = to]

-----------------------------------------------------------------------------
\* find_pattern, from the start of the thread to its first block

\* zad2b: one thread is chosen to divide by zero before it does anything else.
DivideByZero(t) ==
  /\ pc[t] = "start" /\ t = divide_by_zero
  /\ process' = "killed"
  /\ UNCHANGED <<control, main_, pc, threads_quantity, locks, reading, cancelled, pending>>

\* zad2a: pthread_sigmask, then sleep(2), which is a cancellation point.
SetMask(t) ==
  /\ version = "zad2a" /\ Goto(t, "start", "sleep")
  /\ UNCHANGED <<control, process, main_, threads_quantity, locks, reading, cancelled, pending>>

SetCancelType(t) ==
  /\ \/ version = "zad2a" /\ Goto(t, "sleep", "quantity")
     \/ /\ version # "zad2a" /\ Goto(t, "start", "quantity")
        /\ version = "zad2b" => t # divide_by_zero
  /\ UNCHANGED <<control, process, main_, threads_quantity, locks, reading, cancelled, pending>>

\* The thread's own copy of threads_quantity, read under the mutex in "detach".
ReadQuantity(t) ==
  /\ Goto(t, "quantity", "buffer")
  /\ version = "detach" => mutex_cancel = Nobody
  /\ stride' = [stride EXCEPT ![t] = threads_quantity]
  /\ UNCHANGED <<control, process, main_, threads_quantity, locks, offset, position, scanned,
                 cancelled, pending>>

AllocateBuffer(t) ==
  /\ Goto(t, "buffer", "lock")
  /\ UNCHANGED <<control, process, main_, threads_quantity, locks, reading, cancelled, pending>>

-----------------------------------------------------------------------------
\* find_pattern, the loop

\* Slip: the descriptor is used without the mutex.
LockAndSeekUnlocked(t) ==
  /\ Goto(t, "lock", "read")
  /\ mutex_find' = t /\ offset' = position[t]
  /\ UNCHANGED <<control, process, main_, threads_quantity, mutex_cancel, position, stride,
                 scanned, cancelled, pending>>

LockAndSeek(t) ==
  /\ mutex_find = Nobody
  /\ Goto(t, "lock", "read")
  /\ mutex_find' = t /\ offset' = position[t]
  /\ UNCHANGED <<control, process, main_, threads_quantity, mutex_cancel, position, stride,
                 scanned, cancelled, pending>>

\* Once main has closed the descriptor the read fails and the thread ends.
ReadBlock(t) ==
  /\ mutex_find' = Nobody
  /\ \/ /\ offset < BLOCKS /\ main_pc # "clean"
        /\ Goto(t, "read", "scan")
        /\ scanned' = scanned \cup {offset}
        /\ offset' = offset + 1
     \/ /\ offset >= BLOCKS \/ main_pc = "clean"
        /\ Goto(t, "read", "exit")
        /\ UNCHANGED <<scanned, offset>>
  /\ UNCHANGED <<control, process, main_, threads_quantity, mutex_cancel, position, stride,
                 cancelled, pending>>

\* What the thread finds in its block.
Block(t) == IF position[t] < BLOCKS THEN file[position[t]] ELSE "none"

\* Every way to the end of the loop's body.
EndOfBlock(t, from) == Goto(t, from, IF version = "synchr" THEN "testcancel" ELSE "next")

Compare(t) ==
  /\ pc[t] = "scan"
  /\ CASE Block(t) = "none"   -> EndOfBlock(t, "scan")
       [] Block(t) = "inside" -> Goto(t, "scan", "found")
       [] OTHER             -> Goto(t, "scan", "lockRest")
  /\ UNCHANGED <<control, process, main_, threads_quantity, locks, reading, cancelled, pending>>

LockRest(t) ==
  /\ mutex_find = Nobody
  /\ Goto(t, "lockRest", "readRest")
  /\ mutex_find' = t /\ offset' = position[t] + 1
  /\ UNCHANGED <<control, process, main_, threads_quantity, mutex_cancel, position, stride,
                 scanned, cancelled, pending>>

\* The rest of the pattern is read from the next block; at the end of the file
\* there is none, and the thread ends.
ReadRest(t) ==
  /\ pc[t] = "readRest"
  /\ mutex_find' = Nobody
  /\ IF offset >= BLOCKS \/ main_pc = "clean" THEN Goto(t, "readRest", "exit")
     ELSE IF Block(t) = "across" THEN Goto(t, "readRest", "found")
     ELSE EndOfBlock(t, "readRest")
  /\ UNCHANGED <<control, process, main_, threads_quantity, mutex_cancel, reading,
                 cancelled, pending>>

TestCancel(t) ==
  /\ Goto(t, "testcancel", IF t \in cancelled THEN "exit" ELSE "next")
  /\ UNCHANGED <<control, process, main_, threads_quantity, locks, reading, cancelled, pending>>

NextBlock(t) ==
  /\ Goto(t, "next", "lock")
  /\ position' = [position EXCEPT ![t] = @ + stride[t]]
  /\ UNCHANGED <<control, process, main_, threads_quantity, locks, offset, stride, scanned,
                 cancelled, pending>>

-----------------------------------------------------------------------------
\* after_found_function

Report(t) ==
  /\ Goto(t, "found", IF version = "detach" THEN "next" ELSE "lockCancel")
  /\ UNCHANGED <<control, process, main_, threads_quantity, locks, reading, cancelled, pending>>

LockCancel(t) ==
  /\ mutex_cancel = Nobody
  /\ Goto(t, "lockCancel", "cancel")
  /\ mutex_cancel' = t
  /\ UNCHANGED <<control, process, main_, threads_quantity, mutex_find, reading, cancelled, pending>>

Targets == 0 .. threads_quantity - 1
Created == {t \in Threads : pc[t] # "none"}
Joined  == IF version = "detach" \/ main_pc = "create" THEN {} ELSE 0 .. next - 1

\* zad2a loops while threads[i] is not 0, which it never is again.
Spin(t) ==
  /\ version = "zad2a" /\ Goto(t, "cancel", "spin")
  /\ UNCHANGED <<control, process, main_, threads_quantity, locks, reading, cancelled, pending>>

CancelOthers(t) ==
  /\ version # "zad2a" /\ Targets \subseteq Created
  /\ Goto(t, "cancel", "exit")
  /\ cancelled' = cancelled \cup (Targets \ {t})
  /\ threads_quantity' = IF version = "synchr" THEN 0 ELSE threads_quantity
  /\ mutex_cancel' = Nobody
  /\ UNCHANGED <<control, process, main_, mutex_find, reading, pending>>

\* pthread_cancel on a thread that is not there: the entry is still 0 (zad2b
\* creates its threads without the mutex), or main has joined the thread and its
\* descriptor may be gone.
CancelNoThread(t) ==
  /\ version # "zad2a" /\ pc[t] = "cancel"
  /\ ~(Targets \subseteq Created) \/ (Targets \cap Joined) # {}
  /\ process' = "crashed"
  /\ UNCHANGED <<control, main_, pc, threads_quantity, locks, reading, cancelled, pending>>

-----------------------------------------------------------------------------
\* The end of a thread

\* A cancelled thread of the first version ends wherever it is, mutexes locked.
Cancelled(t) ==
  /\ Asynch /\ t \in cancelled
  /\ pc[t] \notin {"none", "start", "exit", "done", "stuck"}
  /\ pc' = [pc EXCEPT ![t] = "exit"]
  /\ UNCHANGED <<control, process, main_, threads_quantity, locks, reading, cancelled, pending>>

\* In malloc and printf that may leave the library's own locks taken, which the
\* cleanup handlers need.
CancelledInLibrary(t) ==
  /\ Asynch /\ t \in cancelled
  /\ pc[t] \in {"buffer", "lockRest", "found"}
  /\ pc' = [pc EXCEPT ![t] = "stuck"]
  /\ UNCHANGED <<control, process, main_, threads_quantity, locks, reading, cancelled, pending>>

\* Slip: the mutex is not given back.
FinishKeepsMutex(t) ==
  /\ Goto(t, "exit", "done")
  /\ IF version = "detach"
     THEN mutex_cancel = Nobody /\ mutex_cancel' = t /\ threads_quantity' = threads_quantity - 1
     ELSE UNCHANGED <<threads_quantity, mutex_cancel>>
  /\ UNCHANGED <<control, process, main_, mutex_find, reading, cancelled, pending>>

\* The cleanup handlers, thread_finish_info among them.
Finish(t) ==
  /\ Goto(t, "exit", "done")
  /\ IF version = "detach"
     THEN mutex_cancel = Nobody /\ threads_quantity' = threads_quantity - 1
     ELSE UNCHANGED threads_quantity
  /\ UNCHANGED <<control, process, main_, locks, reading, cancelled, pending>>

\* After main has freed thread_data a thread that uses it may crash.
UseAfterFree(t) ==
  /\ main_pc = "clean" /\ pc[t] \notin {"none", "done", "stuck"}
  /\ process' = "crashed"
  /\ UNCHANGED <<control, main_, pc, threads_quantity, locks, reading, cancelled, pending>>

Loop(t) ==
  \/ SetCancelType(t) \/ ReadQuantity(t) \/ AllocateBuffer(t) \/ LockAndSeek(t)
  \/ ReadBlock(t) \/ Compare(t) \/ LockRest(t) \/ ReadRest(t) \/ TestCancel(t)
  \/ NextBlock(t) \/ Report(t) \/ LockCancel(t) \/ Finish(t) \/ UseAfterFree(t)

\* The thread functions of the three programs.
find_pattern(t) ==
  /\ version \notin {"zad2a", "zad2b"}
  /\ Loop(t) \/ CancelOthers(t) \/ CancelNoThread(t)

find_pattern_a(t) == version = "zad2a" /\ (SetMask(t) \/ Loop(t) \/ Spin(t))

find_pattern_b(t) ==
  /\ version = "zad2b"
  /\ DivideByZero(t) \/ Loop(t) \/ CancelOthers(t) \/ CancelNoThread(t)

-----------------------------------------------------------------------------
\* main

MainGoto(from, to) == main_pc = from /\ main_pc' = to

CreateThread ==
  /\ main_pc = "create" /\ next < QUANTITY
  /\ pc' = [pc EXCEPT ![next] = "start"]
  /\ next' = next + 1
  /\ UNCHANGED <<control, process, main_pc, threads_quantity, locks, reading, cancelled, pending>>

AllCreated ==
  /\ next = QUANTITY
  /\ MainGoto("create", CASE version = "zad2a" -> "send" [] version = "detach" -> "poll"
                          [] OTHER -> "join")
  /\ mutex_cancel' = IF mutex_cancel = Main THEN Nobody ELSE mutex_cancel
  /\ next' = 0
  /\ UNCHANGED <<control, process, pc, threads_quantity, mutex_find, reading, cancelled, pending>>

\* The one of kill() and pthread_kill() the flags ask for; the thread is chosen
\* by rand(), and one that has ended takes no signal.
SendSignal ==
  /\ MainGoto("send", "join")
  /\ \/ signal.sig = "none" /\ UNCHANGED <<process, pending>>
     \/ signal.sig = "KILL" /\ process' = "killed" /\ UNCHANGED pending
     \/ signal.sig = "STOP" /\ process' = "stopped" /\ UNCHANGED pending
     \/ /\ signal.sig = "TERM" /\ UNCHANGED process
        /\ IF signal.target = "process" THEN pending' = Threads \cup {Main}
           ELSE \E t \in Threads : pending' = {t} \ {u \in Threads : pc[u] = "done"}
  /\ UNCHANGED <<control, next, pc, threads_quantity, locks, reading, cancelled>>

\* Slip: the threads keep the mask of main.
BlocksAsMain(t) == signal.mask = "process"

\* Threads inherit main's mask and then set their own.
Blocks(t) ==
  signal.mask = (IF t = Main \/ pc[t] = "start" THEN "process" ELSE "thread")

\* Any thread that may take the signal takes it for all.
Deliver(t) ==
  /\ t \in pending /\ ~Blocks(t)
  /\ t \in Threads => pc[t] # "done"
  /\ pending' = {}
  /\ process' = IF signal.handler THEN process ELSE "killed"
  /\ UNCHANGED <<control, main_, pc, threads_quantity, locks, reading, cancelled>>

\* The loop bound is read again for every thread.
Join ==
  /\ main_pc = "join" /\ next < threads_quantity /\ pc[next] = "done"
  /\ next' = next + 1
  /\ UNCHANGED <<control, process, main_pc, pc, threads_quantity, locks, reading, cancelled, pending>>

JoinedAll ==
  /\ next >= threads_quantity /\ MainGoto("join", "clean")
  /\ UNCHANGED <<control, process, next, pc, threads_quantity, locks, reading, cancelled, pending>>

\* Slip: the last thread is not waited for.
CountedOutOffByOne ==
  /\ mutex_cancel = Nobody /\ threads_quantity <= 1 /\ MainGoto("poll", "clean")
  /\ mutex_cancel' = Main
  /\ UNCHANGED <<control, process, next, pc, threads_quantity, mutex_find, reading, cancelled, pending>>

\* main leaves the loop with the mutex locked.
CountedOut ==
  /\ mutex_cancel = Nobody /\ threads_quantity = 0 /\ MainGoto("poll", "clean")
  /\ mutex_cancel' = Main
  /\ UNCHANGED <<control, process, next, pc, threads_quantity, mutex_find, reading, cancelled, pending>>

Return ==
  /\ main_pc = "clean" /\ process' = "exited"
  /\ UNCHANGED <<control, main_, pc, threads_quantity, locks, reading, cancelled, pending>>

main   == version \notin {"zad2a", "zad2b"} /\ (CreateThread \/ AllCreated \/ Join \/ JoinedAll \/ CountedOut \/ Return)
main_a == version = "zad2a" /\ (CreateThread \/ AllCreated \/ SendSignal \/ Join \/ JoinedAll \/ Return)
main_b == version = "zad2b" /\ (CreateThread \/ AllCreated \/ Join \/ JoinedAll \/ Return)

Next ==
  /\ process = "running"
  /\ \/ main \/ main_a \/ main_b
     \/ \E t \in Threads : \/ find_pattern(t) \/ find_pattern_a(t) \/ find_pattern_b(t)
                           \/ Cancelled(t) \/ CancelledInLibrary(t)
     \/ \E t \in Threads \cup {Main} : Deliver(t)

Spec == Init /\ [][Next]_vars

\* Every thread is scheduled and a cancelled one is told in the end.
Running(A) == process = "running" /\ A
FairSpec ==
  /\ Spec
  /\ WF_vars(Running(main \/ main_a \/ main_b))
  /\ \A t \in Threads :
       WF_vars(Running(find_pattern(t) \/ find_pattern_a(t) \/ find_pattern_b(t) \/ Cancelled(t)))

-----------------------------------------------------------------------------

\* Unless the pattern was found and the others were cancelled, a run that comes to
\* its end has read every block of the file: the threads' strides leave no gap and
\* no thread reads where another has moved the descriptor.  The exceptions: in
\* "detach" a thread that starts late takes the number of threads left for its
\* stride, and a single thread that has found the pattern has nobody to cancel.
AllBlocksScanned ==
  process = "exited" /\ cancelled = {} =>
    \/ scanned = 0 .. BLOCKS - 1
    \/ version = "detach" /\ \E t \in Threads : stride[t] # QUANTITY
    \/ version = "synchr" /\ threads_quantity = 0
    \/ version # "detach" /\ QUANTITY = 1

\* What the threads use is freed after they are done with it; in "synchr" the
\* thread that has found the pattern sets the quantity main waits for to 0.
FreedAfterThreads ==
  main_pc = "clean" /\ ~(version = "synchr" /\ threads_quantity = 0) =>
    \A t \in Threads : pc[t] = "done"

\* Every run ends although threads are cancelled with mutexes locked, except
\* when a thread was caught in the library or zad2a has found the pattern.
EndsUnlessStuck ==
  <>(process # "running" \/ \E t \in Threads : pc[t] \in {"stuck", "spin"})

\* The report of zad2a on signals that have a handler ("Ad. 3", "Ad. 5") and on
\* those the threads have blocked ("Ad. 4"): they do not end the program, except
\* that a thread may be hit before it has set its mask.
SignalSurvived ==
  process = "killed" /\ signal.sig = "TERM" =>
    /\ ~signal.handler
    /\ signal.mask = "thread" /\ signal.target = "thread" => \E t \in Threads : pc[t] = "start"

=============================================================================
