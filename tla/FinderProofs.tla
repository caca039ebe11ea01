----------------------------- MODULE FinderProofs ---------------------------
(***************************************************************************)
(* Finder for any number of threads and files of any length: what the      *)
(* threads use is freed after them, what signals may do, and that the      *)
(* strides of the threads leave no block unread.                           *)
(*                                                                         *)
(* The last one is an argument about lanes: thread t reads the blocks t,   *)
(* t + QUANTITY, t + 2 QUANTITY and so on, every block lies in one lane,   *)
(* and a thread that ends has come to the end of its lane.                 *)
(***************************************************************************)
EXTENDS Finder, FiniteSetTheorems, TLAPS

Early  == {"none", "start", "sleep", "quantity"}
Fetching == {"buffer", "lock", "read"}
HasRead == {"scan", "lockRest", "readRest", "testcancel", "next", "found", "lockCancel",
            "cancel", "spin"}
Cancelling == {"lockCancel", "cancel", "spin"}
Places == Early \cup Fetching \cup HasRead \cup {"exit", "done", "stuck"}

Unfinished == {t \in Threads : pc[t] # "done"}

\* In "synchr" a thread has found the pattern.
CalledOff == version = "synchr" /\ threads_quantity = 0

TypeOK ==
  /\ version \in Versions
  /\ file \in [0 .. BLOCKS - 1 -> Contents]
  /\ signal \in Signals /\ (version # "zad2a" => signal = NoSignal)
  /\ divide_by_zero \in Threads
  /\ process \in {"running", "exited", "killed", "crashed", "stopped"}
  /\ main_pc \in {"create", "send", "poll", "join", "clean"} /\ next \in 0 .. QUANTITY
  /\ pc \in [Threads -> Places]
  /\ threads_quantity \in 0 .. QUANTITY
  /\ mutex_find \in Threads \cup {Nobody} /\ mutex_cancel \in Threads \cup {Main, Nobody}
  /\ offset \in Nat
  /\ position \in [Threads -> Nat] /\ stride \in [Threads -> 0 .. QUANTITY]
  /\ cancelled \subseteq Threads /\ pending \subseteq Threads \cup {Main}
  /\ scanned \subseteq 0 .. BLOCKS - 1

\* threads_quantity counts the threads in "detach", and is QUANTITY or, once a
\* thread of "synchr" has called the others off, 0 in the other versions.
QuantityInv ==
  /\ version = "detach" => threads_quantity = Cardinality(Unfinished)
  /\ version = "synchr" => threads_quantity \in {0, QUANTITY}
  /\ version \notin {"detach", "synchr"} => threads_quantity = QUANTITY

\* How far main is: the threads it has not created yet, those it has joined.
MainInv ==
  /\ main_pc = "create" => \A t \in Threads : t >= next => pc[t] = "none"
  /\ main_pc = "send" => version = "zad2a" /\ next = 0
  /\ main_pc = "poll" => version = "detach"
  /\ main_pc = "join" => version # "detach" /\ \A t \in Threads : t < next => pc[t] = "done"
  /\ process = "exited" => main_pc = "clean"
  /\ FreedAfterThreads

\* The signal is pending for everybody, or for the one thread it was sent to.
SignalInv ==
  /\ pending # {} => signal.sig = "TERM"
  /\ signal.target = "thread" => pending \subseteq Threads
  /\ SignalSurvived

\* Nobody is told to end in "detach", and nobody goes on after it is told so.
RoleInv ==
  \A t \in Threads : version = "detach" => pc[t] \notin Cancelling \cup {"testcancel"}

\* As long as nobody is cancelled the mutex is held where the descriptor is used.
DescriptorInv ==
  cancelled = {} => \A t \in Threads :
    /\ pc[t] = "read" => mutex_find = t /\ offset = position[t]
    /\ pc[t] = "readRest" => mutex_find = t /\ offset = position[t] + 1

Lane(t, q) == t + q * QUANTITY

\* The strides are those of the lanes.
Strides ==
  \A t \in Threads :
    /\ pc[t] \in Early => stride[t] = 0 /\ position[t] = t
    /\ version # "detach" /\ ~CalledOff => stride[t] \in {0, QUANTITY}

\* Thread t is somewhere in its lane and has read all before, and after the read
\* the block it is at.
InLane(t) ==
  /\ \E k \in Nat : position[t] = Lane(t, k)
  /\ \A q \in Nat : Lane(t, q) < position[t] => Lane(t, q) \in scanned
  /\ pc[t] \in HasRead => position[t] \in scanned
  /\ pc[t] \in {"exit", "done"} =>
       \A q \in Nat : Lane(t, q) < BLOCKS => Lane(t, q) \in scanned

LaneInv ==
  cancelled = {} /\ ~CalledOff /\ (version = "detach" \/ QUANTITY > 1) =>
    \A t \in Threads : stride[t] \in {0, QUANTITY} => InLane(t)

IInv ==
  /\ TypeOK /\ QuantityInv /\ MainInv /\ SignalInv /\ RoleInv /\ DescriptorInv
  /\ Strides /\ LaneInv

-----------------------------------------------------------------------------
\* The steps of the threads

\* Every thread takes the number it was created with to its functions.
thread(t) ==
  \/ find_pattern(t) \/ find_pattern_a(t) \/ find_pattern_b(t)
  \/ Cancelled(t) \/ CancelledInLibrary(t)

\* The thread goes on, but not to the end, and leaves the count alone.
Moves(t) ==
  /\ \E from, to \in Places \ {"none", "done"} :
       /\ pc[t] = from /\ pc' = [pc EXCEPT ![t] = to]
       /\ version = "detach" => from \notin Cancelling /\ to \notin Cancelling \cup {"testcancel"}
  /\ threads_quantity' = threads_quantity /\ process' = process

\* The whole process ends with it.
Falls(t) ==
  /\ process' = "crashed" \/ (version = "zad2b" /\ process' = "killed")
  /\ UNCHANGED <<pc, threads_quantity, locks, reading, cancelled>>

\* Whatever a thread does, it moves, ends, calls the others off, or takes the
\* process with it (the programs' find_pattern and after_found_function).
LEMMA ThreadSteps ==
  ASSUME TypeOK, RoleInv, NEW t \in Threads, thread(t), process = "running"
  PROVE  /\ UNCHANGED <<control, main_, pending>>
         /\ Moves(t) \/ Falls(t) \/ CancelOthers(t) \/ Finish(t)
<1>0. pc[t] \in Places /\ (version = "detach" => pc[t] \notin Cancelling \cup {"testcancel"})
  BY DEF TypeOK, RoleInv
<1>1. CASE DivideByZero(t) /\ version = "zad2b"
  BY <1>1 DEF DivideByZero, Falls, main_
<1>2. CASE SetMask(t) \/ SetCancelType(t) \/ AllocateBuffer(t) \/ ReadQuantity(t)
  BY <1>0, <1>2 DEF SetMask, SetCancelType, AllocateBuffer, ReadQuantity, Goto, Moves, Places,
    Early, Fetching, HasRead, Cancelling
<1>3. CASE LockAndSeek(t) \/ ReadBlock(t) \/ LockRest(t) \/ NextBlock(t)
  BY <1>0, <1>3 DEF LockAndSeek, ReadBlock, LockRest, NextBlock, Goto, Moves, Places,
    Early, Fetching, HasRead, Cancelling
<1>4. CASE Compare(t) \/ ReadRest(t) \/ TestCancel(t)
  BY <1>0, <1>4 DEF Compare, ReadRest, TestCancel, EndOfBlock, Goto, Moves, Places,
    Early, Fetching, HasRead, Cancelling
<1>5. CASE Report(t) \/ LockCancel(t) \/ Spin(t)
  BY <1>0, <1>5 DEF Report, LockCancel, Spin, Goto, Moves, Places, Early, Fetching, HasRead,
    Cancelling
<1>6. CASE Cancelled(t) \/ CancelledInLibrary(t)
  BY <1>0, <1>6 DEF Cancelled, CancelledInLibrary, Asynch, Moves, Places, Early, Fetching, HasRead,
    Cancelling
<1>7. CASE UseAfterFree(t) \/ CancelNoThread(t)
  BY <1>7 DEF UseAfterFree, CancelNoThread, Falls
<1>8. CASE CancelOthers(t) \/ Finish(t)
  BY <1>8 DEF CancelOthers, Finish
<1> QED
  BY <1>1, <1>2, <1>3, <1>4, <1>5, <1>6, <1>7, <1>8
  DEF thread, find_pattern, find_pattern_a, find_pattern_b, Loop

\* The steps of main, of the three programs together.
MainSteps ==
  \/ CreateThread \/ AllCreated \/ SendSignal \/ Join \/ JoinedAll
  \/ (CountedOut /\ version \notin {"zad2a", "zad2b"}) \/ Return

\* Only main, a thread or a signal does anything.
LEMMA Steps ==
  ASSUME Next
  PROVE  /\ process = "running"
         /\ \/ MainSteps
            \/ \E t \in Threads : thread(t)
            \/ \E t \in Threads \cup {Main} : Deliver(t)
BY DEF Next, main, main_a, main_b, MainSteps, thread

-----------------------------------------------------------------------------
\* The count of the threads

\* The count and what it counts are finite.
LEMMA ThreadsFinite == IsFiniteSet(Threads) /\ Cardinality(Threads) = QUANTITY
<1>1. 0 \in Int /\ QUANTITY - 1 \in Int /\ QUANTITY \in Nat \ {0}
  BY FinderAssumption
<1>2. IsFiniteSet(0 .. QUANTITY - 1) /\ Cardinality(0 .. QUANTITY - 1) = (QUANTITY - 1) - 0 + 1
  BY <1>1, FS_Interval
<1> QED
  BY <1>1, <1>2 DEF Threads

\* A thread that ends leaves the unfinished ones (thread_finish_info's count).
LEMMA OneLess ==
  ASSUME TypeOK, NEW t \in Threads, Finish(t)
  PROVE  /\ Cardinality(Unfinished) \in Nat \ {0}
         /\ Cardinality(Unfinished') = Cardinality(Unfinished) - 1
<1>1. IsFiniteSet(Unfinished)
  BY ThreadsFinite, FS_Subset DEF Unfinished
<1>2. t \in Unfinished /\ Unfinished' = Unfinished \ {t}
  BY DEF TypeOK, Unfinished, Finish, Goto
<1>3. Cardinality(Unfinished) # 0
  BY <1>1, <1>2, FS_EmptySet
<1> QED
  BY <1>1, <1>2, <1>3, FS_CardinalityType, FS_RemoveElement

\* All other steps of threads and main leave the unfinished ones as they are.
LEMMA AsMany ==
  ASSUME TypeOK, MainInv,
         \/ \E t \in Threads : Moves(t) \/ Falls(t) \/ CancelOthers(t)
         \/ MainSteps
         \/ UNCHANGED pc
  PROVE  Unfinished' = Unfinished
<1>1. ASSUME NEW t \in Threads, Moves(t) \/ Falls(t) \/ CancelOthers(t)
      PROVE  Unfinished' = Unfinished
  BY <1>1 DEF TypeOK, Unfinished, Moves, Falls, CancelOthers, Goto
<1>2. CASE CreateThread
  <2>1. next \in Threads /\ pc[next] = "none"
    BY <1>2, FinderAssumption DEF CreateThread, MainInv, TypeOK, Threads
  <2> QED
    BY <1>2, <2>1 DEF CreateThread, TypeOK, Unfinished
<1>3. CASE MainSteps /\ ~CreateThread
  BY <1>3 DEF MainSteps, AllCreated, SendSignal, Join, JoinedAll, CountedOut, Return, Unfinished
<1>4. CASE UNCHANGED pc
  BY <1>4 DEF Unfinished
<1> QED
  BY <1>1, <1>2, <1>3, <1>4

\* Nobody is unfinished when nobody is counted.
LEMMA AllDone ==
  ASSUME TypeOK, Cardinality(Unfinished) = 0
  PROVE  \A t \in Threads : pc[t] = "done"
<1>1. IsFiniteSet(Unfinished)
  BY ThreadsFinite, FS_Subset DEF Unfinished
<1> QED
  BY <1>1, FS_EmptySet DEF Unfinished

-----------------------------------------------------------------------------
\* The invariant at the start and from step to step

\* Nothing is read, nobody started.
LEMMA Initially == Init => IInv
<1> SUFFICES ASSUME Init PROVE IInv
  OBVIOUS
<1> USE FinderAssumption
<1>1. TypeOK
  <2>1. NoSignal \in Signals
    <3>1. NoSignal = [NoSignal EXCEPT !.sig = "none"]
      BY DEF NoSignal
    <3> QED
      BY <3>1 DEF Signals
  <2>2. signal \in Signals /\ (version # "zad2a" => signal = NoSignal)
    BY <2>1 DEF Init
  <2>3. 0 \in Threads /\ Threads \subseteq Nat /\ \A t \in Threads : t \in Nat
    BY DEF Threads
  <2>4. divide_by_zero \in Threads
    BY <2>3 DEF Init
  <2>5. /\ position \in [Threads -> Nat] /\ stride \in [Threads -> 0 .. QUANTITY]
        /\ pc \in [Threads -> Places]
    BY <2>3 DEF Init, Places, Early
  <2>6. /\ mutex_find \in Threads \cup {Nobody} /\ mutex_cancel \in Threads \cup {Main, Nobody}
        /\ next \in 0 .. QUANTITY /\ threads_quantity \in 0 .. QUANTITY
    BY DEF Init
  <2> QED
    BY <2>2, <2>4, <2>5, <2>6 DEF Init, TypeOK
<1>2. QuantityInv
  BY ThreadsFinite DEF Init, QuantityInv, Unfinished
<1>3. MainInv /\ SignalInv /\ RoleInv /\ DescriptorInv
  BY DEF Init, MainInv, FreedAfterThreads, SignalInv, SignalSurvived, RoleInv, Cancelling, DescriptorInv
<1>4. Strides
  BY DEF Init, Strides
<1>5. LaneInv
  <2>1. ASSUME NEW t \in Threads PROVE InLane(t)
    <3>1. t = Lane(t, 0) /\ t \in Nat
      BY DEF Lane, Threads
    <3>2. \A q \in Nat : Lane(t, q) >= t
      BY DEF Lane, Threads
    <3> QED
      BY <3>1, <3>2 DEF Init, InLane, HasRead, Lane, Threads
  <2> QED
    BY <2>1 DEF LaneInv
<1> QED
  BY <1>1, <1>2, <1>3, <1>4, <1>5 DEF IInv

\* A thread leaves everything in its type.
LEMMA ThreadKeepsType ==
  ASSUME TypeOK, QuantityInv, RoleInv, NEW t \in Threads, thread(t), process = "running"
  PROVE  TypeOK'
<1> USE FinderAssumption
<1>0. UNCHANGED <<control, main_, pending>> /\ t \in Nat /\ pc[t] \in Places
  BY SMTT(60), ThreadSteps DEF Threads, TypeOK
<1>1. ASSUME Moves(t) \/ Falls(t) \/ CancelOthers(t) \/ Finish(t)
      PROVE  /\ pc' \in [Threads -> Places]
             /\ process' \in {"running", "exited", "killed", "crashed", "stopped"}
             /\ threads_quantity' \in 0 .. QUANTITY
  <2>1. CASE Moves(t)
    BY <2>1 DEF Moves, TypeOK
  <2>2. CASE Falls(t)
    BY <2>2 DEF Falls, TypeOK
  <2>3. CASE CancelOthers(t)
    BY <2>3 DEF CancelOthers, Goto, TypeOK, Places
  <2>4. CASE Finish(t)
    <3>1. threads_quantity' \in 0 .. QUANTITY
      <4>1. CASE version = "detach"
        BY SMTT(60), <2>4, <4>1, OneLess DEF Finish, TypeOK, QuantityInv
      <4>2. CASE version # "detach"
        BY <2>4, <4>2 DEF Finish, TypeOK
      <4> QED
        BY <4>1, <4>2
    <3> QED
      BY <2>4, <3>1 DEF Finish, Goto, TypeOK, Places
  <2> QED
    BY <1>1, <2>1, <2>2, <2>3, <2>4
<1>2. /\ mutex_find' \in Threads \cup {Nobody} /\ mutex_cancel' \in Threads \cup {Main, Nobody}
      /\ offset' \in Nat /\ position' \in [Threads -> Nat] /\ stride' \in [Threads -> 0 .. QUANTITY]
      /\ cancelled' \subseteq Threads /\ scanned' \subseteq 0 .. BLOCKS - 1
  <2>0. position[t] \in Nat /\ stride[t] \in Nat
    BY DEF TypeOK
  <2>1. CASE \/ DivideByZero(t) \/ SetMask(t) \/ SetCancelType(t) \/ AllocateBuffer(t) \/ Compare(t)
             \/ TestCancel(t) \/ Report(t) \/ Spin(t) \/ CancelNoThread(t) \/ Cancelled(t)
             \/ CancelledInLibrary(t) \/ Finish(t) \/ UseAfterFree(t)
    <3>1. UNCHANGED <<locks, reading, cancelled>>
      BY <2>1 DEF DivideByZero, SetMask, SetCancelType, AllocateBuffer, Compare, TestCancel, Report,
        Spin, CancelNoThread, Cancelled, CancelledInLibrary, Finish, UseAfterFree
    <3> QED
      BY <3>1 DEF TypeOK, locks, reading
  <2>2. CASE ReadQuantity(t)
    BY <2>2 DEF ReadQuantity, TypeOK, locks
  <2>3. CASE LockAndSeek(t) \/ LockRest(t)
    <3>1. mutex_find' = t /\ offset' \in Nat /\ UNCHANGED <<mutex_cancel, position, stride, scanned, cancelled>>
      BY <2>0, <2>3 DEF LockAndSeek, LockRest
    <3> QED
      BY <3>1 DEF TypeOK
  <2>4. CASE ReadBlock(t) \/ ReadRest(t)
    <3>1. mutex_find' = Nobody /\ UNCHANGED <<mutex_cancel, position, stride, cancelled>>
      BY <2>4 DEF ReadBlock, ReadRest, reading
    <3>2. offset' \in Nat /\ scanned' \subseteq 0 .. BLOCKS - 1
      <4>1. CASE ReadBlock(t) /\ offset < BLOCKS
        <5>1. offset' \in {offset, offset + 1} /\ scanned' \in {scanned, scanned \cup {offset}}
          BY <4>1 DEF ReadBlock
        <5>2. offset \in 0 .. BLOCKS - 1
          BY <4>1 DEF TypeOK
        <5> QED
          BY <5>1, <5>2 DEF TypeOK
      <4>2. CASE UNCHANGED <<offset, scanned>>
        BY <4>2 DEF TypeOK
      <4>3. \/ ReadBlock(t) /\ offset < BLOCKS
            \/ UNCHANGED <<offset, scanned>>
        BY <2>4 DEF ReadBlock, ReadRest, reading
      <4> QED
        BY <4>1, <4>2, <4>3
    <3> QED
      BY <3>1, <3>2 DEF TypeOK
  <2>5. CASE NextBlock(t)
    BY <2>0, <2>5 DEF NextBlock, TypeOK, locks
  <2>6. CASE LockCancel(t)
    BY <2>6 DEF LockCancel, TypeOK, reading
  <2>7. CASE CancelOthers(t)
    BY <2>7 DEF CancelOthers, Targets, Threads, TypeOK, reading
  <2> QED
    BY <2>1, <2>2, <2>3, <2>4, <2>5, <2>6, <2>7
    DEF thread, find_pattern, find_pattern_a, find_pattern_b, Loop
<1>3. Moves(t) \/ Falls(t) \/ CancelOthers(t) \/ Finish(t)
  BY ThreadSteps
<1> QED
  BY <1>0, <1>1, <1>2, <1>3 DEF TypeOK, control, main_

\* So do main and the signals.
LEMMA MainKeepsType ==
  ASSUME TypeOK, MainSteps \/ \E t \in Threads \cup {Main} : Deliver(t)
  PROVE  TypeOK'
<1> USE FinderAssumption
<1>1. CASE CreateThread
  BY <1>1 DEF CreateThread, TypeOK, control, locks, reading, Threads, Places, Early
<1>2. CASE AllCreated
  BY <1>2 DEF AllCreated, MainGoto, TypeOK, control, reading
<1>3. CASE SendSignal
  BY <1>3 DEF SendSignal, MainGoto, TypeOK, control, locks, reading
<1>4. CASE Join \/ JoinedAll
  <2>1. next' \in 0 .. QUANTITY /\ main_pc' \in {"join", "clean"}
    BY <1>4 DEF Join, JoinedAll, MainGoto, TypeOK
  <2> QED
    BY <1>4, <2>1 DEF Join, JoinedAll, TypeOK, control, locks, reading
<1>6. CASE CountedOut \/ Return
  BY <1>6 DEF CountedOut, Return, MainGoto, TypeOK, control, main_, locks, reading
<1>5. CASE \E t \in Threads \cup {Main} : Deliver(t)
  BY <1>5 DEF Deliver, TypeOK, control, main_, locks, reading
<1> QED
  BY <1>1, <1>2, <1>3, <1>4, <1>5, <1>6 DEF MainSteps

\* The count is right, and main knows who has ended.
LEMMA CountStep ==
  ASSUME TypeOK, QuantityInv, MainInv, RoleInv, Next
  PROVE  QuantityInv'
<1> USE FinderAssumption
<1>1. ASSUME NEW t \in Threads, thread(t)
      PROVE  QuantityInv'
  <2>0. version' = version /\ process = "running"
    BY <1>1, Steps, ThreadSteps DEF control
  <2>1. CASE Moves(t) \/ Falls(t)
    BY <2>0, <2>1, AsMany DEF QuantityInv, Moves, Falls
  <2>2. CASE CancelOthers(t)
    <3>1. version # "detach"
      BY <2>2 DEF RoleInv, CancelOthers, Goto, Cancelling
    <3> QED
      BY <2>0, <2>2, <3>1 DEF CancelOthers, QuantityInv
  <2>3. CASE Finish(t)
    BY <2>0, <2>3, OneLess DEF Finish, QuantityInv
  <2> QED
    BY <1>1, <2>0, <2>1, <2>2, <2>3, ThreadSteps
<1>2. CASE MainSteps
  <2>1. UNCHANGED <<version, threads_quantity>>
    BY <1>2 DEF MainSteps, CreateThread, AllCreated, SendSignal, Join, JoinedAll, CountedOut, Return,
      control
  <2> QED
    BY <1>2, <2>1, AsMany DEF QuantityInv
<1>3. CASE \E t \in Threads \cup {Main} : Deliver(t)
  BY <1>3, AsMany DEF Deliver, QuantityInv, control
<1> QED
  BY <1>1, <1>2, <1>3, Steps

LEMMA MainStep ==
  ASSUME TypeOK, QuantityInv, MainInv, RoleInv, Next
  PROVE  MainInv'
<1> USE FinderAssumption
<1>1. ASSUME NEW t \in Threads, thread(t)
      PROVE  MainInv'
  <2>0. UNCHANGED <<version, main_pc, next>> /\ process = "running" /\ process' # "exited"
    BY <1>1, Steps, ThreadSteps DEF control, main_, Moves, Falls, CancelOthers, Finish
  <2>1. \A u \in Threads : /\ pc[u] = "none" => pc'[u] = "none"
                           /\ pc[u] = "done" => pc'[u] = "done"
    <3>1. CASE Moves(t)
      BY <3>1 DEF Moves, TypeOK
    <3>2. CASE Falls(t)
      BY <3>2 DEF Falls
    <3>3. CASE CancelOthers(t) \/ Finish(t)
      BY <3>3 DEF CancelOthers, Finish, Goto, TypeOK
    <3> QED
      BY <1>1, <2>0, <3>1, <3>2, <3>3, ThreadSteps
  <2>2. CalledOff => CalledOff'
    <3>1. CASE Moves(t) \/ Falls(t) \/ CancelOthers(t)
      BY <2>0, <3>1 DEF Moves, Falls, CancelOthers, CalledOff
    <3>2. CASE Finish(t)
      BY <2>0, <3>2 DEF Finish, CalledOff
    <3> QED
      BY <1>1, <2>0, <3>1, <3>2, ThreadSteps
  <2> QED
    <3>1. FreedAfterThreads'
      BY <2>0, <2>1, <2>2 DEF MainInv, FreedAfterThreads, CalledOff
    <3>2. ASSUME main_pc = "create", NEW u \in Threads, u >= next PROVE pc'[u] = "none"
      BY <2>1, <3>2 DEF MainInv
    <3>3. ASSUME main_pc = "join" PROVE version # "detach" /\ \A u \in Threads : u < next => pc'[u] = "done"
      BY <2>1, <3>3 DEF MainInv
    <3> QED
      BY <2>0, <3>1, <3>2, <3>3 DEF MainInv
<1>2. CASE CreateThread
  BY <1>2 DEF CreateThread, MainInv, FreedAfterThreads, control, TypeOK, Threads
<1>3. CASE AllCreated
  BY <1>3 DEF AllCreated, MainGoto, MainInv, FreedAfterThreads, control, Threads
<1>4. CASE SendSignal
  BY <1>4, Steps DEF SendSignal, MainGoto, MainInv, FreedAfterThreads, control, Threads
<1>5. CASE Join
  BY <1>5 DEF Join, MainInv, FreedAfterThreads, control, TypeOK, Threads
<1>6. CASE JoinedAll
  BY <1>6 DEF JoinedAll, MainGoto, MainInv, FreedAfterThreads, QuantityInv, control, TypeOK, Threads
<1>7. CASE CountedOut
  BY <1>7, AllDone DEF CountedOut, MainGoto, MainInv, FreedAfterThreads, QuantityInv, control
<1>8. CASE Return \/ \E t \in Threads \cup {Main} : Deliver(t)
  BY <1>8, Steps DEF Return, Deliver, MainInv, FreedAfterThreads, control, main_
<1> QED
  BY <1>1, <1>2, <1>3, <1>4, <1>5, <1>6, <1>7, <1>8, Steps DEF MainSteps

LEMMA SignalStep ==
  ASSUME TypeOK, SignalInv, RoleInv, Next
  PROVE  SignalInv'
<1>0. process = "running"
  BY Steps
<1>1. ASSUME NEW t \in Threads, thread(t)
      PROVE  SignalInv'
  <2>1. UNCHANGED <<version, signal, pending>>
    BY <1>0, <1>1, ThreadSteps DEF control
  <2>2. process' # "killed" \/ signal.sig # "TERM"
    BY SMTT(60), <1>0, <1>1, ThreadSteps DEF Moves, Falls, CancelOthers, Finish, TypeOK, NoSignal
  <2> QED
    BY <2>1, <2>2 DEF SignalInv, SignalSurvived
<1>2. CASE MainSteps /\ ~SendSignal
  BY <1>0, <1>2 DEF MainSteps, CreateThread, AllCreated, Join, JoinedAll, CountedOut, Return,
    SignalInv, SignalSurvived, control
<1>3. CASE SendSignal
  <2>1. signal \in Signals /\ signal' = signal
    BY <1>3 DEF SendSignal, TypeOK, control
  <2>3. CASE signal.sig # "TERM"
    BY <1>3, <2>1, <2>3 DEF SendSignal, SignalInv, SignalSurvived
  <2>4. CASE signal.sig = "TERM"
    BY <1>0, <1>3, <2>1, <2>4 DEF SendSignal, SignalInv, SignalSurvived
  <2> QED
    BY <2>3, <2>4
<1>4. ASSUME NEW t \in Threads \cup {Main}, Deliver(t)
      PROVE  SignalInv'
  <2>1. UNCHANGED <<signal, pc>> /\ pending' = {} /\ t \in pending /\ ~Blocks(t)
        /\ (signal.handler => process' # "killed")
    BY <1>0, <1>4 DEF Deliver, control
  <2>2. signal.mask = "thread" /\ signal.target = "thread" => t \in Threads /\ pc[t] = "start"
    BY <2>1, FinderAssumption DEF SignalInv, Blocks, Threads, Main
  <2> QED
    BY <2>1, <2>2 DEF SignalInv, SignalSurvived
<1> QED
  BY <1>1, <1>2, <1>3, <1>4, Steps

LEMMA RoleStep ==
  ASSUME TypeOK, RoleInv, Next
  PROVE  RoleInv'
<1>0. process = "running"
  BY Steps
<1>1. ASSUME NEW t \in Threads, thread(t)
      PROVE  RoleInv'
  <2>1. version' = version
    BY <1>0, <1>1, ThreadSteps DEF control
  <2>2. CASE Moves(t)
    BY <2>1, <2>2 DEF Moves, RoleInv, TypeOK
  <2>3. CASE Falls(t) \/ CancelOthers(t) \/ Finish(t)
    BY <2>1, <2>3 DEF Falls, CancelOthers, Finish, Goto, RoleInv, TypeOK, Cancelling
  <2> QED
    BY <1>0, <1>1, <2>2, <2>3, ThreadSteps
<1>2. CASE MainSteps \/ \E t \in Threads \cup {Main} : Deliver(t)
  BY <1>2 DEF MainSteps, CreateThread, AllCreated, SendSignal, Join, JoinedAll, CountedOut, Return,
    Deliver, control, RoleInv, TypeOK, Cancelling
<1> QED
  BY <1>1, <1>2, Steps

-----------------------------------------------------------------------------
\* The descriptor and the lanes

\* What is read stays read, and calling the others off is not taken back.
LEMMA Grows ==
  ASSUME TypeOK, QuantityInv, RoleInv, Next
  PROVE  /\ cancelled \subseteq cancelled' /\ scanned \subseteq scanned'
         /\ version' = version /\ (CalledOff => CalledOff')
<1>0. process = "running"
  BY Steps
<1>1. ASSUME NEW t \in Threads, thread(t)
      PROVE  /\ cancelled \subseteq cancelled' /\ scanned \subseteq scanned'
             /\ version' = version /\ (CalledOff => CalledOff')
  <2>1. version' = version
    BY <1>0, <1>1, ThreadSteps DEF control
  <2>2. CalledOff => CalledOff'
    BY <1>0, <1>1, <2>1, ThreadSteps DEF Moves, Falls, CancelOthers, Finish, CalledOff
  <2>3. cancelled \subseteq cancelled' /\ scanned \subseteq scanned'
    BY <1>1 DEF thread, find_pattern, find_pattern_a, find_pattern_b, Loop, DivideByZero, SetMask,
      SetCancelType, ReadQuantity, AllocateBuffer, LockAndSeek, ReadBlock, Compare, LockRest, ReadRest,
      TestCancel, NextBlock, Report, LockCancel, Finish, UseAfterFree, CancelOthers, CancelNoThread,
      Spin, Cancelled, CancelledInLibrary, reading
  <2> QED
    BY <2>1, <2>2, <2>3
<1>2. CASE MainSteps \/ \E t \in Threads \cup {Main} : Deliver(t)
  BY <1>2 DEF MainSteps, CreateThread, AllCreated, SendSignal, Join, JoinedAll, CountedOut, Return,
    Deliver, control, reading, CalledOff
<1> QED
  BY <1>0, <1>1, <1>2, Steps

\* Main and the signals leave what threads read alone; a created thread starts.
LEMMA MainReadsNothing ==
  ASSUME TypeOK, MainInv, MainSteps \/ \E t \in Threads \cup {Main} : Deliver(t)
  PROVE  /\ UNCHANGED <<reading, mutex_find>>
         /\ \A t \in Threads : pc'[t] = pc[t] \/ (pc[t] = "none" /\ pc'[t] = "start")
<1>1. CASE CreateThread
  <2>1. next \in Threads /\ pc[next] = "none"
    BY <1>1, FinderAssumption DEF CreateThread, MainInv, TypeOK, Threads
  <2> QED
    BY <1>1, <2>1 DEF CreateThread, locks, TypeOK
<1>2. CASE (MainSteps \/ \E t \in Threads \cup {Main} : Deliver(t)) /\ ~CreateThread
  BY <1>2 DEF MainSteps, AllCreated, SendSignal, Join, JoinedAll, CountedOut, Return, Deliver, locks
<1> QED
  BY <1>1, <1>2

LEMMA DescriptorStep ==
  ASSUME TypeOK, QuantityInv, MainInv, RoleInv, DescriptorInv, Next
  PROVE  DescriptorInv'
<1> SUFFICES ASSUME cancelled' = {}, NEW u \in Threads
             PROVE  /\ pc'[u] = "read" => mutex_find' = u /\ offset' = position'[u]
                    /\ pc'[u] = "readRest" => mutex_find' = u /\ offset' = position'[u] + 1
  BY DEF DescriptorInv
<1>0. process = "running" /\ cancelled = {}
  BY Steps, Grows
<1>1. /\ pc[u] = "read" => mutex_find = u /\ offset = position[u]
      /\ pc[u] = "readRest" => mutex_find = u /\ offset = position[u] + 1
      /\ pc[u] \in {"read", "readRest"} => mutex_find # Nobody
  BY <1>0, FinderAssumption DEF DescriptorInv, Threads, Nobody
<1>2. ASSUME NEW t \in Threads, LockAndSeek(t) \/ LockRest(t)
      PROVE  /\ pc'[u] = "read" => mutex_find' = u /\ offset' = position'[u]
             /\ pc'[u] = "readRest" => mutex_find' = u /\ offset' = position'[u] + 1
  BY <1>1, <1>2 DEF LockAndSeek, LockRest, Goto, TypeOK
<1>3. ASSUME NEW t \in Threads, ReadBlock(t) \/ ReadRest(t)
      PROVE  pc'[u] \notin {"read", "readRest"}
  <2>1. pc[t] \in {"read", "readRest"} /\ \E x \in Places \ {"read", "readRest"} : pc' = [pc EXCEPT ![t] = x]
    BY <1>3 DEF ReadBlock, ReadRest, EndOfBlock, Goto, Places, HasRead
  <2>2. mutex_find = t
    BY <1>0, <2>1 DEF DescriptorInv
  <2> QED
    BY <1>1, <2>1, <2>2 DEF TypeOK
<1>4. ASSUME NEW t \in Threads, NextBlock(t)
      PROVE  /\ pc'[u] = "read" => mutex_find' = u /\ offset' = position'[u]
             /\ pc'[u] = "readRest" => mutex_find' = u /\ offset' = position'[u] + 1
  BY <1>1, <1>4 DEF NextBlock, Goto, TypeOK, locks
<1>5. ASSUME NEW t \in Threads, thread(t),
             ~(LockAndSeek(t) \/ LockRest(t) \/ ReadBlock(t) \/ ReadRest(t) \/ NextBlock(t))
      PROVE  UNCHANGED <<mutex_find, offset, position>> /\ pc'[u] \in {pc[u]} \cup (Places \ {"read", "readRest"})
  BY <1>0, <1>5 DEF thread, find_pattern, find_pattern_a, find_pattern_b, Loop, DivideByZero, SetMask,
      SetCancelType, ReadQuantity, AllocateBuffer, Compare,
      TestCancel, Report, LockCancel, Finish, UseAfterFree, CancelOthers, CancelNoThread,
      Spin, Cancelled, CancelledInLibrary, reading, locks, EndOfBlock, Goto, TypeOK, Places, Early,
      Fetching, HasRead
<1>6. CASE MainSteps \/ \E t \in Threads \cup {Main} : Deliver(t)
  BY <1>1, <1>6, MainReadsNothing DEF reading
<1> QED
  BY <1>1, <1>2, <1>3, <1>4, <1>5, <1>6, Steps

LEMMA StrideStep ==
  ASSUME TypeOK, QuantityInv, MainInv, RoleInv, Strides, Next
  PROVE  Strides'
<1> SUFFICES ASSUME NEW u \in Threads
             PROVE  /\ pc'[u] \in Early => stride'[u] = 0 /\ position'[u] = u
                    /\ version' # "detach" /\ ~CalledOff' => stride'[u] \in {0, QUANTITY}
  BY DEF Strides
<1>0. process = "running" /\ version' = version /\ (CalledOff => CalledOff')
  BY Steps, Grows
<1>1. /\ pc[u] \in Early => stride[u] = 0 /\ position[u] = u
      /\ version # "detach" /\ ~CalledOff => stride[u] \in {0, QUANTITY}
  BY DEF Strides
<1>2. ASSUME NEW t \in Threads, ReadQuantity(t) \/ NextBlock(t)
      PROVE  /\ pc'[u] \in Early => stride'[u] = 0 /\ position'[u] = u
             /\ version' # "detach" /\ ~CalledOff' => stride'[u] \in {0, QUANTITY}
  <2>1. version # "detach" => threads_quantity \in {0, QUANTITY}
    BY DEF QuantityInv
  <2>2. CASE u = t
    BY <1>0, <1>1, <1>2, <2>1, <2>2 DEF ReadQuantity, NextBlock, Goto, TypeOK, Early
  <2>3. CASE u # t
    BY <1>0, <1>1, <1>2, <2>3 DEF ReadQuantity, NextBlock, Goto, TypeOK
  <2> QED
    BY <2>2, <2>3
<1>3. ASSUME NEW t \in Threads, thread(t), ~ReadQuantity(t), ~NextBlock(t)
      PROVE  UNCHANGED <<position, stride>> /\ (pc'[u] \in Early => pc[u] \in Early)
  BY <1>0, <1>3 DEF thread, find_pattern, find_pattern_a, find_pattern_b, Loop, DivideByZero, SetMask,
      SetCancelType, AllocateBuffer, Compare, LockAndSeek, LockRest, ReadBlock, ReadRest,
      TestCancel, Report, LockCancel, Finish, UseAfterFree, CancelOthers, CancelNoThread,
      Spin, Cancelled, CancelledInLibrary, reading, EndOfBlock, Goto, TypeOK, Early
<1>4. CASE MainSteps \/ \E t \in Threads \cup {Main} : Deliver(t)
  BY <1>0, <1>1, <1>4, MainReadsNothing DEF Early, reading
<1> QED
  BY <1>0, <1>1, <1>2, <1>3, <1>4, Steps

LEMMA LaneType == \A t \in Threads, q \in Nat : t \in Nat /\ Lane(t, q) \in Nat
<1> SUFFICES ASSUME NEW t \in Threads, NEW q \in Nat
             PROVE  t \in Nat /\ Lane(t, q) \in Nat
  OBVIOUS
<1>1. q * QUANTITY \in Nat /\ t \in Nat
  BY FinderAssumption DEF Threads
<1> QED
  BY <1>1 DEF Lane

\* A lane is divided evenly: what is not beyond the next block of it is at this
\* one or before.
LEMMA LaneOrder ==
  ASSUME NEW t \in Nat, NEW k \in Nat, NEW q \in Nat, Lane(t, q) < Lane(t, k) + QUANTITY
  PROVE  Lane(t, q) <= Lane(t, k)
<1> USE FinderAssumption DEF Lane
<1>1. CASE q <= k
  <2>1. PICK d \in Nat : k = q + d
    BY <1>1
  <2>2. k * QUANTITY = q * QUANTITY + d * QUANTITY /\ d * QUANTITY \in Nat /\ q * QUANTITY \in Nat
    BY <2>1
  <2> QED
    BY <2>2
<1>2. CASE q > k
  <2>1. PICK d \in Nat : q = k + 1 + d
    BY <1>2
  <2>2. /\ q * QUANTITY = k * QUANTITY + QUANTITY + d * QUANTITY
        /\ d * QUANTITY \in Nat /\ k * QUANTITY \in Nat
    BY <2>1
  <2> QED
    BY <2>2
<1> QED
  BY <1>1, <1>2

\* Every block lies in the lane of one of the threads.
LEMMA EveryBlockInALane ==
  ASSUME NEW j \in Nat
  PROVE  \E t \in Threads, q \in Nat : j = Lane(t, q)
<1> USE FinderAssumption
<1>1. j % QUANTITY \in 0 .. QUANTITY - 1
  OBVIOUS
<1>2. j \div QUANTITY \in Nat
  OBVIOUS
<1>3. j = (j % QUANTITY) + (j \div QUANTITY) * QUANTITY
  OBVIOUS
<1> QED
  BY <1>1, <1>2, <1>3 DEF Threads, Lane

\* A thread that is where it was, or has come to the end, stays in its lane.
LEMMA StaysInLane ==
  ASSUME TypeOK, NEW u \in Threads, InLane(u), position'[u] = position[u], scanned \subseteq scanned',
         pc'[u] \in HasRead => pc[u] \in HasRead \/ position[u] \in scanned',
         pc'[u] \in {"exit", "done"} =>
           \/ pc[u] \in {"exit", "done"}
           \/ BLOCKS <= position[u]
           \/ pc[u] \in HasRead /\ BLOCKS <= position[u] + 1
  PROVE  InLane(u)'
<1> USE FinderAssumption
<1>1. position[u] \in Nat /\ u \in Nat /\ \A q \in Nat : Lane(u, q) \in Nat
  BY LaneType DEF TypeOK
<1>2. ASSUME pc'[u] \in {"exit", "done"}, NEW q \in Nat, Lane(u, q) < BLOCKS
      PROVE  Lane(u, q) \in scanned
  <2>1. CASE pc[u] \in {"exit", "done"}
    BY <1>2, <2>1 DEF InLane
  <2>2. CASE BLOCKS <= position[u]
    BY <1>1, <1>2, <2>2 DEF InLane
  <2>3. CASE pc[u] \in HasRead /\ BLOCKS <= position[u] + 1
    <3>1. Lane(u, q) < position[u] \/ Lane(u, q) = position[u]
      BY <1>1, <1>2, <2>3
    <3> QED
      BY <2>3, <3>1 DEF InLane
  <2> QED
    BY <1>2, <2>1, <2>2, <2>3
<1>3. /\ \E k \in Nat : position[u] = Lane(u, k)
      /\ \A q \in Nat : Lane(u, q) < position[u] => Lane(u, q) \in scanned
      /\ pc[u] \in HasRead => position[u] \in scanned
  BY DEF InLane
<1>4. \A q \in Nat : Lane(u, q) = Lane(u, q)'
  BY DEF Lane
<1> QED
  BY <1>2, <1>3, <1>4 DEF InLane

\* The next block of the lane (finder.c's d->position += threads_quantity).
LEMMA AdvancesInLane ==
  ASSUME TypeOK, NEW u \in Threads, InLane(u), stride[u] \in {0, QUANTITY}, NextBlock(u)
  PROVE  InLane(u)'
<1> USE FinderAssumption
<1>1. position[u] \in Nat /\ u \in Nat /\ \A q \in Nat : Lane(u, q) \in Nat
  BY LaneType DEF TypeOK
<1>2. /\ position'[u] = position[u] + stride[u] /\ scanned' = scanned
      /\ pc[u] = "next" /\ pc'[u] = "lock"
  BY DEF NextBlock, Goto, TypeOK
<1>3. PICK k \in Nat : position[u] = Lane(u, k)
  BY DEF InLane
<1>4. position[u] \in scanned
  BY <1>2 DEF InLane, HasRead
<1>5. ASSUME NEW q \in Nat, Lane(u, q) < position'[u]
      PROVE  Lane(u, q) \in scanned
  <2>1. Lane(u, q) <= position[u]
    BY <1>1, <1>2, <1>3, <1>5, LaneOrder
  <2>2. Lane(u, q) < position[u] \/ Lane(u, q) = position[u]
    BY <1>1, <2>1
  <2> QED
    BY <1>4, <2>2 DEF InLane
<1>6. \E m \in Nat : position'[u] = Lane(u, m)
  <2>1. CASE stride[u] = 0
    BY <1>1, <1>2, <1>3, <2>1
  <2>2. CASE stride[u] = QUANTITY
    <3>1. Lane(u, k + 1) = Lane(u, k) + QUANTITY
      BY <1>1 DEF Lane
    <3> QED
      BY <1>2, <1>3, <2>2, <3>1
  <2> QED
    BY <2>1, <2>2
<1>7. \A q \in Nat : Lane(u, q) = Lane(u, q)'
  BY DEF Lane
<1>8. pc'[u] \notin HasRead /\ pc'[u] \notin {"exit", "done"}
  BY <1>2 DEF HasRead
<1> QED
  BY <1>2, <1>5, <1>6, <1>7, <1>8 DEF InLane

LEMMA LaneStep ==
  ASSUME IInv, Next
  PROVE  LaneInv'
<1> USE FinderAssumption
<1> SUFFICES ASSUME cancelled' = {}, ~CalledOff', version' = "detach" \/ QUANTITY > 1,
                    NEW u \in Threads, stride'[u] \in {0, QUANTITY}
             PROVE  InLane(u)'
  BY DEF LaneInv
<1>0. TypeOK /\ QuantityInv /\ MainInv /\ RoleInv /\ DescriptorInv /\ Strides /\ LaneInv
  BY DEF IInv
<1>1. /\ process = "running" /\ cancelled = {} /\ ~CalledOff
      /\ version' = version /\ (version = "detach" \/ QUANTITY > 1)
      /\ scanned \subseteq scanned'
  BY <1>0, Steps, Grows
<1>2. stride[u] \in {0, QUANTITY} => InLane(u)
  BY <1>0, <1>1 DEF LaneInv
<1>3. CASE MainSteps \/ \E t \in Threads \cup {Main} : Deliver(t)
  <2>1. /\ UNCHANGED <<position, stride, scanned>>
        /\ pc'[u] = pc[u] \/ (pc[u] = "none" /\ pc'[u] = "start")
    BY <1>0, <1>3, MainReadsNothing DEF reading
  <2> QED
    BY <1>0, <1>1, <1>2, <2>1, StaysInLane DEF HasRead
<1>4. ASSUME NEW t \in Threads, t # u, thread(t)
      PROVE  InLane(u)'
  <2>1. pc'[u] = pc[u]
    BY <1>0, <1>1, <1>4, ThreadSteps DEF Moves, Falls, CancelOthers, Finish, Goto, TypeOK
  <2>2. position'[u] = position[u] /\ stride'[u] = stride[u]
    BY <1>0, <1>4 DEF thread, find_pattern, find_pattern_a, find_pattern_b, Loop, DivideByZero, SetMask,
      SetCancelType, ReadQuantity, AllocateBuffer, LockAndSeek, ReadBlock, Compare, LockRest, ReadRest,
      TestCancel, NextBlock, Report, LockCancel, Finish, UseAfterFree, CancelOthers, CancelNoThread,
      Spin, Cancelled, CancelledInLibrary, reading, TypeOK
  <2> QED
    BY <1>0, <1>1, <1>2, <2>1, <2>2, StaysInLane
<1>5. ASSUME thread(u)
      PROVE  InLane(u)'
  <2>0. pc[u] # "done" => main_pc # "clean"
    BY <1>0, <1>1 DEF MainInv, FreedAfterThreads, CalledOff
  <2>1. CASE ReadQuantity(u)
    <3>1. /\ UNCHANGED <<position, scanned>>
          /\ pc'[u] = "buffer" /\ stride[u] = 0
      BY <1>0, <2>1 DEF ReadQuantity, Goto, Strides, Early, TypeOK
    <3> QED
      BY <1>0, <1>1, <1>2, <3>1, StaysInLane DEF HasRead
  <2>2. CASE NextBlock(u)
    <3>1. stride[u] \in {0, QUANTITY}
      BY <2>2 DEF NextBlock
    <3> QED
      BY <1>0, <1>2, <2>2, <3>1, AdvancesInLane
  <2>3. CASE ReadBlock(u)
    <3>1. /\ UNCHANGED <<position, stride>>
          /\ \/ pc'[u] = "scan" /\ position[u] \in scanned'
             \/ pc'[u] = "exit" /\ BLOCKS <= position[u]
      <4>1. pc[u] = "read" /\ offset = position[u] /\ position[u] \in Nat /\ main_pc # "clean"
        BY <1>0, <1>1, <2>0, <2>3 DEF ReadBlock, Goto, DescriptorInv, TypeOK
      <4> QED
        BY <1>0, <2>3, <4>1 DEF ReadBlock, Goto, TypeOK
    <3> QED
      BY <1>0, <1>1, <1>2, <3>1, StaysInLane DEF HasRead
  <2>4. CASE ReadRest(u)
    <3>1. /\ UNCHANGED <<position, stride>> /\ pc[u] = "readRest"
          /\ \/ pc'[u] \in HasRead
             \/ pc'[u] = "exit" /\ BLOCKS <= position[u] + 1
      <4>1. /\ pc[u] = "readRest" /\ offset = position[u] + 1 /\ position[u] \in Nat
            /\ main_pc # "clean"
        BY <1>0, <1>1, <2>0, <2>4 DEF ReadRest, DescriptorInv, TypeOK
      <4> QED
        BY <1>0, <2>4, <4>1 DEF ReadRest, EndOfBlock, Goto, TypeOK, HasRead, reading
    <3> QED
      BY <1>0, <1>1, <1>2, <3>1, StaysInLane DEF HasRead
  <2>5. CASE Compare(u) \/ LockRest(u) \/ TestCancel(u) \/ Report(u) \/ LockCancel(u) \/ Spin(u)
    <3>1. /\ UNCHANGED <<position, stride>> /\ pc[u] \in HasRead /\ pc'[u] \in HasRead
      BY <1>0, <1>1, <2>5 DEF Compare, LockRest, TestCancel, Report, LockCancel, Spin, EndOfBlock, Goto,
        TypeOK, HasRead, reading
    <3> QED
      BY <1>0, <1>1, <1>2, <3>1, StaysInLane DEF HasRead
  <2>6. CASE SetMask(u) \/ SetCancelType(u) \/ AllocateBuffer(u) \/ LockAndSeek(u)
    <3>1. /\ UNCHANGED <<position, stride>> /\ pc'[u] \in {"sleep", "quantity", "lock", "read"}
      BY <1>0, <2>6 DEF SetMask, SetCancelType, AllocateBuffer, LockAndSeek, Goto, TypeOK, reading
    <3> QED
      BY <1>0, <1>1, <1>2, <3>1, StaysInLane DEF HasRead
  <2>7. CASE Finish(u)
    <3>1. /\ UNCHANGED <<position, stride>> /\ pc[u] = "exit" /\ pc'[u] = "done"
      BY <1>0, <2>7 DEF Finish, Goto, TypeOK, reading
    <3> QED
      BY <1>0, <1>1, <1>2, <3>1, StaysInLane DEF HasRead
  <2>8. CASE DivideByZero(u) \/ UseAfterFree(u) \/ CancelNoThread(u)
    <3>1. UNCHANGED <<position, stride, pc>>
      BY <2>8 DEF DivideByZero, UseAfterFree, CancelNoThread, reading
    <3> QED
      BY <1>0, <1>1, <1>2, <3>1, StaysInLane
  <2>9. CASE Cancelled(u) \/ CancelledInLibrary(u)
    BY <1>1, <2>9 DEF Cancelled, CancelledInLibrary
  <2>10. CASE CancelOthers(u)
    <3>1. version # "detach" /\ QUANTITY > 1
      BY <1>0, <1>1, <2>10 DEF RoleInv, CancelOthers, Goto, Cancelling
    <3>2. version # "synchr"
      BY <1>1, <2>10 DEF CancelOthers, CalledOff
    <3>3. Targets = Threads
      BY <1>0, <3>1, <3>2 DEF QuantityInv, Targets, Threads
    <3>4. 0 \in Threads /\ 1 \in Threads
      BY <3>1 DEF Threads
    <3> QED
      BY <2>10, <3>3, <3>4 DEF CancelOthers
  <2> QED
    BY <1>5, <2>1, <2>2, <2>3, <2>4, <2>5, <2>6, <2>7, <2>8, <2>9, <2>10
    DEF thread, find_pattern, find_pattern_a, find_pattern_b, Loop
<1> QED
  BY <1>3, <1>4, <1>5, Steps

-----------------------------------------------------------------------------

LEMMA Inductive == IInv /\ [Next]_vars => IInv'
<1> SUFFICES ASSUME IInv, [Next]_vars PROVE IInv'
  OBVIOUS
<1>1. CASE Next
  <2>1. TypeOK'
    BY <1>1, Steps, ThreadKeepsType, MainKeepsType DEF IInv
  <2> QED
    BY <1>1, <2>1, CountStep, MainStep, SignalStep, RoleStep, DescriptorStep, StrideStep, LaneStep
    DEF IInv
<1>2. CASE UNCHANGED vars
  <2>1. TypeOK' /\ QuantityInv' /\ MainInv' /\ SignalInv'
    BY <1>2 DEF IInv, vars, control, locks, reading, main_, TypeOK, QuantityInv, Unfinished, MainInv,
      FreedAfterThreads, SignalInv, SignalSurvived
  <2>2. RoleInv' /\ DescriptorInv' /\ Strides' /\ LaneInv'
    BY <1>2 DEF IInv, vars, control, locks, reading, main_, RoleInv, DescriptorInv, Strides, CalledOff,
      LaneInv, InLane, Lane
  <2> QED
    BY <2>1, <2>2 DEF IInv
<1> QED
  BY <1>1, <1>2

LEMMA Always == Spec => []IInv
BY Initially, Inductive, PTL DEF Spec

\* Every variable of the five programs keeps its type; no thread takes the
\* number of threads below 0 or main past the last of them.
THEOREM TypeCorrect == Spec => []TypeOK
<1>1. IInv => TypeOK
  BY DEF IInv
<1> QED
  BY <1>1, Always, PTL

\* main frees thread_data after the last thread has ended, whether it joins the
\* threads or counts them, unless a thread of "synchr" has set the number main
\* waits for to 0 (finder.c:47, 264 and 271).
THEOREM FreedInTime == Spec => []FreedAfterThreads
<1>1. IInv => FreedAfterThreads
  BY DEF IInv, MainInv
<1> QED
  BY <1>1, Always, PTL

\* A handled or blocked signal ends zad2a only when a thread is hit before it has
\* set its mask.
THEOREM SignalsDoAsReported == Spec => []SignalSurvived
<1>1. IInv => SignalSurvived
  BY DEF IInv, SignalInv
<1> QED
  BY <1>1, Always, PTL

\* When all have come to the end of their lanes, the whole file was read.
LEMMA LanesCoverTheFile == IInv => AllBlocksScanned
<1> USE FinderAssumption
<1> SUFFICES ASSUME IInv, process = "exited", cancelled = {},
                    ~(version = "detach" /\ \E t \in Threads : stride[t] # QUANTITY),
                    ~CalledOff, ~(version # "detach" /\ QUANTITY = 1)
             PROVE  scanned = 0 .. BLOCKS - 1
  BY DEF AllBlocksScanned, CalledOff
<1>1. \A t \in Threads : pc[t] = "done"
  BY DEF IInv, MainInv, FreedAfterThreads, CalledOff
<1>2. \A t \in Threads : stride[t] \in {0, QUANTITY}
  BY DEF IInv, Strides
<1>3. version = "detach" \/ QUANTITY > 1
  OBVIOUS
<1>4. \A t \in Threads : InLane(t)
  BY <1>2, <1>3 DEF IInv, LaneInv
<1>5. ASSUME NEW j \in 0 .. BLOCKS - 1
      PROVE  j \in scanned
  <2>1. PICK t \in Threads, q \in Nat : j = Lane(t, q)
    BY EveryBlockInALane
  <2>2. Lane(t, q) < BLOCKS
    BY <2>1
  <2> QED
    BY <1>1, <1>4, <2>1, <2>2 DEF InLane
<1> QED
  BY <1>5 DEF IInv, TypeOK

\* A run that comes to its end has read every block of the file, but for the
\* exceptions AllBlocksScanned names: the strides leave no gap and no thread
\* reads where another has moved the descriptor (finder.c:121 to 137 and 202).
THEOREM NothingSkipped == Spec => []AllBlocksScanned
BY LanesCoverTheFile, Always, PTL

=============================================================================
