------------------------- MODULE ReadersWritersProofs -----------------------
(***************************************************************************)
(* Proofs about lab08/zad2 for any number of readers and writers: first of *)
(* those that go round their loops (ReadersWriters), then of those that    *)
(* come and go (ReadersWritersNames).                                      *)
(***************************************************************************)
EXTENDS ArrayExercise, Integers, FiniteSetTheorems, TLAPS

\* The readers counted in are finitely many.
LEMMA InsideFinite ==
  /\ IsFiniteSet(Inside) /\ Cardinality(Inside) \in Nat
  /\ IsFiniteSet(Inside') /\ Cardinality(Inside') \in Nat
<1>1. IsFiniteSet(Readers) /\ Inside \subseteq Readers /\ Inside' \subseteq Readers
  BY ReadersWritersAssumption DEF Inside
<1> QED
  BY <1>1, FS_Subset, FS_CardinalityType

\* A reader may take sem_reader only while nobody counts.
LEMMA LockCountKeeps ==
  ASSUME IInv, NEW r \in Readers, LockCount(r)
  PROVE  IInv'
<1> USE DEF IInv, TypeOK, LockCount, Goto, data
<1>1. r \in Processes
  BY DEF Processes
<1>2. Inside' = Inside
  BY <1>1 DEF Inside, Counted, Processes, Labels
<1>3. \A s \in Readers : ~Counting(s)
  BY DEF CountIsExact
<1>4. CountIsExact'
  BY <1>1, <1>2, <1>3 DEF CountIsExact, Counting, Processes, Labels
<1>5. ReadersOwn' = ReadersOwn /\ \A w \in Writers : Writing(w)' = Writing(w)
  BY <1>1, <1>3 DEF ReadersOwn, Writing, Counting, Processes, Labels
<1>6. TypeOK' /\ LabelsFit'
  BY <1>1 DEF LabelsFit, Labels, Processes
<1> QED
  BY <1>4, <1>5, <1>6 DEF WriterSemaphoreOwned, WriterAlone, WritersTakeTurns

\* The reader that counts itself in joins the ones inside; it does not own
\* sem_writer unless they do.
LEMMA CountInKeeps ==
  ASSUME IInv, NEW r \in Readers, CountIn(r)
  PROVE  IInv'
<1> USE DEF IInv, TypeOK, CountIn, Goto, data
<1>1. r \in Processes /\ pc[r] = "count" /\ pc' = [pc EXCEPT ![r] = "first"]
  BY DEF Processes
<1>2. Inside' = Inside \cup {r} /\ r \notin Inside
  BY <1>1 DEF Inside, Counted, Processes
<1>3. Cardinality(Inside') = Cardinality(Inside) + 1
  BY <1>2, InsideFinite, FS_AddElement
<1>4. Counting(r) /\ Counting(r)' /\ \A s \in Readers : Counting(s)' <=> Counting(s)
  BY <1>1 DEF Counting, Processes
<1>5. CountIsExact'
  BY <1>3, <1>4 DEF CountIsExact
<1>6. readers_count # 0 <=> Inside # {}
  BY InsideFinite, FS_EmptySet DEF CountIsExact
<1>7. ReadersOwn' <=> ReadersOwn
  <2>1. \A s \in Readers : s # r => pc'[s] = pc[s] /\ ~Counting(s)
    BY <1>1, <1>4 DEF CountIsExact, Processes
  <2>2. ReadersOwn <=> \E s \in Readers : s # r /\ pc[s] \in {"scan", "print", "leave"}
    BY <1>1, <2>1 DEF ReadersOwn, Counting
  <2>3. Inside # {} <=> \E s \in Readers : s # r /\ pc[s] \in {"scan", "print", "leave"}
    BY <1>1, <2>1 DEF Inside, Counted, Counting
  <2>4. readers_count' > 1 <=> Inside # {}
    BY <1>6
  <2>5. ReadersOwn' <=> \/ \E s \in Readers : s # r /\ pc[s] \in {"scan", "print", "leave"}
                        \/ readers_count' > 1
    BY <1>1, <2>1 DEF ReadersOwn, Counting, Processes
  <2> QED
    BY <2>2, <2>3, <2>4, <2>5
<1>8. \A w \in Writers : Writing(w)' = Writing(w)
  BY <1>1 DEF Writing, Processes
<1>9. TypeOK' /\ LabelsFit'
  BY <1>1 DEF LabelsFit, Labels, Processes
<1> QED
  BY <1>5, <1>7, <1>8, <1>9 DEF WriterSemaphoreOwned, WriterAlone, WritersTakeTurns

\* The first reader takes sem_writer for all, a later one finds it owned.
LEMMA FirstInKeeps ==
  ASSUME IInv, NEW r \in Readers, FirstIn(r)
  PROVE  IInv'
<1> USE DEF IInv, TypeOK, FirstIn, Goto, data
<1>1. r \in Processes /\ pc[r] = "first" /\ pc' = [pc EXCEPT ![r] = "open"]
  BY DEF Processes
<1>2. Inside' = Inside /\ r \in Inside
  BY <1>1 DEF Inside, Counted, Processes
<1>3. CountIsExact'
  BY <1>1, <1>2 DEF CountIsExact, Counting, Processes
<1>4. readers_count >= 1
  BY <1>2, InsideFinite, FS_EmptySet DEF CountIsExact
<1>5. ReadersOwn'
  BY <1>1 DEF ReadersOwn, Processes
<1>6. \A w \in Writers : Writing(w)' = Writing(w)
  BY <1>1 DEF Writing, Processes
<1>7. TypeOK' /\ LabelsFit'
  BY <1>1 DEF LabelsFit, Labels, Processes
<1>8. CASE readers_count = 1
  <2>1. sem_writer = 1 /\ sem_writer' = 0
    BY <1>8
  <2>2. \A w \in Writers : ~Writing(w)
    BY <2>1 DEF WriterSemaphoreOwned
  <2> QED
    BY <1>3, <1>5, <1>6, <1>7, <2>1, <2>2
    DEF WriterSemaphoreOwned, WriterAlone, WritersTakeTurns
<1>9. CASE readers_count # 1
  <2>1. ReadersOwn /\ sem_writer' = sem_writer
    BY <1>1, <1>4, <1>9 DEF ReadersOwn
  <2> QED
    BY <1>3, <1>5, <1>6, <1>7, <2>1
    DEF WriterSemaphoreOwned, WriterAlone, WritersTakeTurns
<1> QED
  BY <1>8, <1>9

\* Posting sem_reader leaves nobody counting.
LEMMA UnlockCountKeeps ==
  ASSUME IInv, NEW r \in Readers, UnlockCount(r)
  PROVE  IInv'
<1> USE DEF IInv, TypeOK, UnlockCount, Goto, data
<1>1. r \in Processes /\ Counting(r) /\ ~Counting(r)'
  BY DEF Processes, Counting
<1>2. Inside' = Inside
  BY <1>1 DEF Inside, Counted, Processes, Labels
<1>3. \A s \in Readers : ~Counting(s)'
  BY <1>1 DEF CountIsExact, Counting, Processes
<1>4. CountIsExact'
  BY <1>1, <1>2, <1>3 DEF CountIsExact
<1>5. ReadersOwn' = ReadersOwn /\ \A w \in Writers : Writing(w)' = Writing(w)
  BY <1>1 DEF ReadersOwn, Writing, Processes, CountIsExact, Counting
<1>6. TypeOK' /\ LabelsFit'
  BY <1>1 DEF LabelsFit, Labels, Processes, CountIsExact
<1> QED
  BY <1>4, <1>5, <1>6 DEF WriterSemaphoreOwned, WriterAlone, WritersTakeTurns

\* The scan touches no semaphore.
LEMMA ScanKeeps ==
  ASSUME IInv, NEW r \in Readers, ScanCell(r) \/ PrintCount(r)
  PROVE  IInv'
<1> USE DEF IInv, TypeOK, ScanCell, PrintCount, Goto, semaphores
<1>1. r \in Processes
  BY DEF Processes
<1>2. Inside' = Inside /\ \A s \in Readers : Counting(s)' = Counting(s)
  BY <1>1 DEF Inside, Counted, Counting, Processes, Labels
<1>3. CountIsExact'
  BY <1>2 DEF CountIsExact
<1>4. ReadersOwn' = ReadersOwn /\ \A w \in Writers : Writing(w)' = Writing(w)
  BY <1>1 DEF ReadersOwn, Writing, Processes
<1>5. LabelsFit' /\ pc' \in [Processes -> Labels]
  BY <1>1 DEF LabelsFit, Labels, Processes
<1>6. TypeOK'
  <2>1. CASE ScanCell(r)
    <3>1. i[r] + 1 <= TAB_LENGTH /\ i[r] \in Nat /\ i[r] \in Cells
      BY <1>1, <2>1, ReadersWritersAssumption DEF Cells
    <3>2. i' \in [Processes -> 0 .. TAB_LENGTH]
      BY <1>1, <2>1, <3>1, ReadersWritersAssumption
    <3>3. shared_array[i[r]] \in Value /\ scanned[r] \in Arrays
      BY <3>1 DEF Arrays
    <3>4. [scanned[r] EXCEPT ![i[r]] = shared_array[i[r]]] \in Arrays
      BY <3>1, <3>3 DEF Arrays
    <3> QED
      BY <1>5, <2>1, <3>2, <3>4
  <2>2. CASE PrintCount(r)
    BY <1>5, <2>2
  <2> QED
    BY <2>1, <2>2
<1> QED
  BY <1>3, <1>4, <1>5, <1>6 DEF WriterSemaphoreOwned, WriterAlone, WritersTakeTurns

\* The reader that counts itself out may be the last.
LEMMA CountOutKeeps ==
  ASSUME IInv, NEW r \in Readers, CountOut(r)
  PROVE  IInv'
<1> USE DEF IInv, TypeOK, CountOut, Goto, data
<1>1. r \in Processes /\ pc[r] = "uncount" /\ pc' = [pc EXCEPT ![r] = "last"]
  BY DEF Processes
<1>2. Inside' = Inside \ {r} /\ r \in Inside
  BY <1>1 DEF Inside, Counted, Processes
<1>3. Cardinality(Inside') = Cardinality(Inside) - 1 /\ Cardinality(Inside) >= 1
  BY <1>2, InsideFinite, FS_RemoveElement, FS_EmptySet
<1>4. \A s \in Readers : Counting(s)' <=> Counting(s)
  BY <1>1 DEF Counting, Processes
<1>5. CountIsExact' /\ readers_count' \in Nat
  BY <1>3, <1>4, InsideFinite DEF CountIsExact
<1>6. ReadersOwn' /\ ReadersOwn /\ \A w \in Writers : Writing(w)' = Writing(w)
  BY <1>1 DEF ReadersOwn, Writing, Processes
<1>7. TypeOK' /\ LabelsFit'
  BY <1>1, <1>5 DEF LabelsFit, Labels, Processes
<1> QED
  BY <1>5, <1>6, <1>7 DEF WriterSemaphoreOwned, WriterAlone, WritersTakeTurns

\* The last reader gives sem_writer back; another one leaves it with the rest.
LEMMA LastOutKeeps ==
  ASSUME IInv, NEW r \in Readers, LastOut(r)
  PROVE  IInv'
<1> USE DEF IInv, TypeOK, LastOut, Goto, data
<1>1. r \in Processes /\ pc[r] = "last" /\ pc' = [pc EXCEPT ![r] = "close"]
  BY DEF Processes
<1>2. Inside' = Inside /\ \A s \in Readers : Counting(s)' <=> Counting(s)
  BY <1>1 DEF Inside, Counted, Counting, Processes
<1>3. CountIsExact'
  BY <1>2 DEF CountIsExact
<1>4. ReadersOwn /\ sem_writer = 0 /\ \A w \in Writers : ~Writing(w)
  BY <1>1 DEF ReadersOwn, WriterSemaphoreOwned, WriterAlone
<1>5. \A s \in Readers : s # r => pc'[s] = pc[s] /\ ~Counting(s)
  BY <1>1 DEF CountIsExact, Counting, Processes
<1>6. readers_count # 0 <=> Inside # {}
  BY InsideFinite, FS_EmptySet DEF CountIsExact
<1>7. ReadersOwn' <=> Inside # {}
  <2>1. Inside # {} <=> \E s \in Readers : s # r /\ pc[s] \in {"scan", "print", "leave"}
    BY <1>1, <1>5 DEF Inside, Counted, Counting
  <2>2. ReadersOwn' <=> \E s \in Readers : s # r /\ pc[s] \in {"scan", "print", "leave"}
    BY <1>1, <1>5 DEF ReadersOwn, Counting, Processes
  <2> QED
    BY <2>1, <2>2
<1>8. \A w \in Writers : ~Writing(w)'
  BY <1>1, <1>4 DEF Writing, Processes
<1>9. sem_writer' = IF readers_count = 0 THEN 1 ELSE 0
  BY <1>4
<1>10. TypeOK' /\ LabelsFit'
  BY <1>1, <1>9 DEF LabelsFit, Labels, Processes
<1> QED
  BY <1>3, <1>6, <1>7, <1>8, <1>9, <1>10 DEF WriterSemaphoreOwned, WriterAlone, WritersTakeTurns

\* A writer moves between "wait" and the other two labels with sem_writer only.
LEMMA WriterKeeps ==
  ASSUME IInv, NEW w \in Writers, writer(w)
  PROVE  IInv'
<1> USE DEF IInv, TypeOK, Goto
<1>1. w \in Processes /\ w \notin Readers
  BY ReadersWritersAssumption DEF Processes
<1>2. \A r \in Readers : pc'[r] = pc[r] /\ r \in Processes
  BY <1>1 DEF writer, BeginModify, ModifyCell, EndModify, Processes
<1>3. readers_count' = readers_count /\ sem_reader' = sem_reader
  BY DEF writer, BeginModify, ModifyCell, EndModify, semaphores
<1>4. Inside' = Inside
  BY <1>2 DEF Inside, Counted
<1>5. CountIsExact'
  BY <1>2, <1>3, <1>4 DEF CountIsExact, Counting
<1>6. ReadersOwn' = ReadersOwn
  BY <1>2, <1>3 DEF ReadersOwn
<1>7. LabelsFit' /\ pc' \in [Processes -> Labels]
  BY <1>1 DEF LabelsFit, Labels, writer, BeginModify, ModifyCell, EndModify
<1>8. CASE BeginModify(w)
  <2>1. sem_writer = 1 /\ sem_writer' = 0 /\ Writing(w)'
    BY <1>1, <1>8 DEF BeginModify, Writing
  <2>2. ~ReadersOwn /\ \A v \in Writers : ~Writing(v)
    BY <2>1 DEF WriterSemaphoreOwned
  <2>3. \A v \in Writers : v # w => ~Writing(v)'
    BY <1>1, <1>8, <2>2 DEF BeginModify, Writing, Processes
  <2>4. TypeOK'
    BY <1>1, <1>3, <1>7, <1>8, <2>1, ReadersWritersAssumption DEF BeginModify
  <2> QED
    BY <1>5, <1>6, <1>7, <2>1, <2>2, <2>3, <2>4
    DEF WriterSemaphoreOwned, WriterAlone, WritersTakeTurns
<1>9. CASE ModifyCell(w)
  <2>1. \A v \in Writers : Writing(v)' = Writing(v)
    BY <1>1, <1>9 DEF ModifyCell, Writing, Processes
  <2>2. shared_array' \in Arrays
    BY <1>9 DEF ModifyCell, Arrays
  <2>3. i' \in [Processes -> 0 .. TAB_LENGTH]
    <3>1. i[w] >= 1 /\ i[w] \in 0 .. TAB_LENGTH
      BY <1>1, <1>9 DEF ModifyCell
    <3>2. i[w] - 1 \in 0 .. TAB_LENGTH
      BY <3>1, ReadersWritersAssumption
    <3> QED
      BY <1>9, <3>2 DEF ModifyCell
  <2> QED
    BY <1>5, <1>6, <1>7, <1>9, <2>1, <2>2, <2>3
    DEF ModifyCell, semaphores, WriterSemaphoreOwned, WriterAlone, WritersTakeTurns
<1>10. CASE EndModify(w)
  <2>1. Writing(w) /\ ~Writing(w)' /\ sem_writer = 0 /\ sem_writer' = 1
    BY <1>1, <1>10 DEF EndModify, Writing, WriterSemaphoreOwned
  <2>2. ~ReadersOwn /\ \A v \in Writers : ~Writing(v)'
    BY <1>1, <1>10, <2>1
    DEF EndModify, Writing, WriterAlone, WritersTakeTurns, Processes
  <2> QED
    BY <1>5, <1>6, <1>7, <1>10, <2>1, <2>2
    DEF EndModify, WriterSemaphoreOwned, WriterAlone, WritersTakeTurns
<1> QED
  BY <1>8, <1>9, <1>10 DEF writer

\* The strengthened invariant holds of every reachable state.
LEMMA InvariantHolds == Spec => []IInv
<1>1. Init => IInv
  <2> SUFFICES ASSUME Init PROVE IInv
    OBVIOUS
  <2>1. TypeOK /\ LabelsFit
    BY ReadersWritersAssumption
    DEF Init, TypeOK, LabelsFit, Labels, Processes, Arrays, FreshArray
  <2>2. \A r \in Readers : pc[r] = "enter"
    BY DEF Init, Processes
  <2>3. Inside = {} /\ Cardinality(Inside) = 0
    BY <2>2, FS_EmptySet DEF Inside, Counted
  <2>4. \A w \in Writers : pc[w] = "wait"
    BY ReadersWritersAssumption DEF Init, Processes
  <2> QED
    BY <2>1, <2>2, <2>3, <2>4
    DEF IInv, Init, CountIsExact, Counting, WriterSemaphoreOwned, WriterAlone,
        WritersTakeTurns, ReadersOwn, Writing
<1>2. IInv /\ [Next]_vars => IInv'
  <2> SUFFICES ASSUME IInv, [Next]_vars PROVE IInv'
    OBVIOUS
  <2>1. ASSUME NEW r \in Readers, reader(r) PROVE IInv'
    BY <2>1, LockCountKeeps, CountInKeeps, FirstInKeeps, UnlockCountKeeps, ScanKeeps,
       CountOutKeeps, LastOutKeeps DEF reader
  <2>2. CASE UNCHANGED vars
    BY <2>2
    DEF vars, IInv, TypeOK, LabelsFit, CountIsExact, Counting, Inside, Counted,
        WriterSemaphoreOwned, WriterAlone, WritersTakeTurns, ReadersOwn, Writing
  <2> QED
    BY <2>1, <2>2, WriterKeeps DEF Next
<1> QED
  BY <1>1, <1>2, PTL DEF Spec

\* Every variable keeps its type, for any number of readers and writers.
THEOREM TypeCorrect == Spec => []TypeOK
BY InvariantHolds, PTL DEF IInv

\* The readers' count and their semaphore agree with where the readers are.
THEOREM CountCorrect == Spec => []CountIsExact
BY InvariantHolds, PTL DEF IInv

\* sem_writer is handed over and never lost, whoever is first and last.
THEOREM WriterSemaphoreCorrect == Spec => []WriterSemaphoreOwned
BY InvariantHolds, PTL DEF IInv

\* Writers exclude each other and all readers.
THEOREM MutualExclusion == Spec => []Exclusion
<1>1. IInv => Exclusion
  BY DEF IInv, WriterAlone, WritersTakeTurns, ReadersOwn, Exclusion, Reading
<1> QED
  BY <1>1, InvariantHolds, PTL

-----------------------------------------------------------------------------

\* What the refinement needs of the array: nobody but a writer that owns
\* sem_writer has touched it since the last complete modification, and a reader
\* has copied the cells before its index.
ArrayInv ==
  /\ (\A w \in Writers : ~Writing(w)) => shared_array = committed
  /\ \A r \in Readers :
       /\ pc[r] # "scan" => i[r] = 0
       /\ pc[r] = "scan" => /\ i[r] < TAB_LENGTH
                            /\ \A c \in Cells : c < i[r] => scanned[r][c] = committed[c]
       /\ pc[r] = "print" => scanned[r] = committed

\* While somebody reads, the array is what the last complete modification left.
LEMMA ReadersSeeCommitted ==
  ASSUME IInv, ArrayInv, NEW r \in Readers, Reading(r)
  PROVE  shared_array = committed /\ \A w \in Writers : ~Writing(w)
<1>1. ReadersOwn
  BY DEF Reading, ReadersOwn
<1> QED
  BY <1>1 DEF IInv, WriterAlone, ArrayInv

\* A reader's step outside its scan moves neither the array nor an index.
LEMMA ReaderOutsideScan ==
  ASSUME IInv, ArrayInv, NEW r \in Readers,
         LockCount(r) \/ CountIn(r) \/ FirstIn(r) \/ UnlockCount(r) \/ CountOut(r) \/ LastOut(r)
  PROVE  ArrayInv' /\ UNCHANGED <<committed, result>>
<1>1. r \in Processes /\ pc \in [Processes -> Labels]
  BY DEF Processes, IInv, TypeOK
<1>2. UNCHANGED data
  BY DEF LockCount, CountIn, FirstIn, UnlockCount, CountOut, LastOut
<1>3. \A x \in Processes : x # r => pc'[x] = pc[x]
  BY <1>1 DEF LockCount, CountIn, FirstIn, UnlockCount, CountOut, LastOut, Goto
<1>4. pc[r] \notin {"scan", "print"} /\ pc'[r] # "print"
  BY <1>1 DEF LockCount, CountIn, FirstIn, UnlockCount, CountOut, LastOut, Goto
<1>5. pc'[r] \notin {"modify", "post"}
  BY <1>1 DEF LockCount, CountIn, FirstIn, UnlockCount, CountOut, LastOut, Goto
<1>6. \A w \in Writers : Writing(w)' = Writing(w)
  BY <1>1, <1>3, ReadersWritersAssumption DEF Writing, Processes
<1>7. ASSUME NEW s \in Readers
      PROVE  /\ pc'[s] # "scan" => i'[s] = 0
             /\ pc'[s] = "scan" => /\ i'[s] < TAB_LENGTH
                                   /\ \A c \in Cells : c < i'[s] => scanned'[s][c] = committed'[c]
             /\ pc'[s] = "print" => scanned'[s] = committed'
  <2>1. CASE s = r
    BY <1>2, <1>4, <2>1, ReadersWritersAssumption DEF ArrayInv, data, Cells
  <2>2. CASE s # r
    BY <1>2, <1>3, <2>2 DEF ArrayInv, data, Processes
  <2> QED
    BY <2>1, <2>2
<1> QED
  BY <1>2, <1>6, <1>7 DEF ArrayInv, data

\* One more cell is copied from the array of the last complete modification.
LEMMA ScanCopies ==
  ASSUME IInv, ArrayInv, NEW r \in Readers, ScanCell(r)
  PROVE  ArrayInv' /\ UNCHANGED <<committed, result>>
<1> USE DEF ScanCell, Goto
<1>1. r \in Processes /\ pc \in [Processes -> Labels] /\ pc[r] = "scan"
  BY DEF Processes, IInv, TypeOK
<1>2. /\ i[r] \in Nat /\ i[r] < TAB_LENGTH /\ i[r] \in Cells /\ TAB_LENGTH \in Nat
      /\ i \in [Processes -> 0 .. TAB_LENGTH]
  BY <1>1, ReadersWritersAssumption DEF IInv, TypeOK, ArrayInv, Cells
<1>3. shared_array = committed /\ \A w \in Writers : ~Writing(w)
  BY <1>1, ReadersSeeCommitted DEF Reading
<1>4. /\ shared_array \in [Cells -> Value] /\ scanned \in [Readers -> [Cells -> Value]]
      /\ UNCHANGED <<shared_array, committed, result>>
  BY DEF IInv, TypeOK, Arrays
<1>5. \A c \in Cells : scanned'[r][c] = IF c = i[r] THEN committed[c] ELSE scanned[r][c]
  BY <1>2, <1>3, <1>4
<1>6. \A s \in Readers : s # r => pc'[s] = pc[s] /\ i'[s] = i[s] /\ scanned'[s] = scanned[s]
  BY <1>1, <1>2, <1>4 DEF Processes
<1>7. CASE i[r] + 1 < TAB_LENGTH
  <2>1. pc'[r] = "scan" /\ i'[r] = i[r] + 1
    BY <1>1, <1>2, <1>7
  <2>2. \A c \in Cells : c < i[r] + 1 => scanned'[r][c] = committed[c]
    BY <1>1, <1>2, <1>5 DEF ArrayInv, Cells
  <2> QED
    BY <1>2, <1>3, <1>4, <1>6, <1>7, <2>1, <2>2 DEF ArrayInv
<1>8. CASE i[r] + 1 = TAB_LENGTH
  <2>1. pc'[r] = "print" /\ i'[r] = 0
    BY <1>1, <1>2, <1>8
  <2>2. \A c \in Cells : scanned'[r][c] = committed[c]
    BY <1>1, <1>2, <1>5, <1>8 DEF ArrayInv, Cells
  <2>3. scanned'[r] = committed
    <3>1. scanned'[r] \in [Cells -> Value] /\ committed \in [Cells -> Value]
      BY <1>2, <1>3, <1>4
    <3> QED
      BY <2>2, <3>1
  <2> QED
    BY <1>3, <1>4, <1>6, <2>1, <2>3 DEF ArrayInv
<1> QED
  BY <1>7, <1>8

\* What is printed is the array of the last complete modification.
LEMMA PrintIsScan ==
  ASSUME IInv, ArrayInv, NEW r \in Readers, PrintCount(r)
  PROVE  ArrayInv' /\ Atomic!Scan(r)
<1>1. r \in Processes /\ pc \in [Processes -> Labels] /\ pc[r] = "print" /\ pc'[r] = "leave"
  BY DEF Processes, IInv, TypeOK, PrintCount, Goto
<1>2. scanned[r] = committed /\ i[r] = 0
  BY <1>1 DEF ArrayInv
<1>3. UNCHANGED <<shared_array, i, scanned, committed>> /\ \A x \in Processes : x # r => pc'[x] = pc[x]
  BY <1>1 DEF PrintCount, Goto
<1>4. \A w \in Writers : Writing(w)' = Writing(w)
  BY <1>1, <1>3, ReadersWritersAssumption DEF Writing, Processes
<1>5. ArrayInv'
  BY <1>1, <1>2, <1>3, <1>4 DEF ArrayInv, Processes
<1> QED
  BY <1>2, <1>5 DEF PrintCount, Atomic!Scan

\* A writer changes the array only while nobody reads, and what it leaves at its
\* sem_post is the next complete array.
LEMMA WriterModifies ==
  ASSUME IInv, ArrayInv, NEW w \in Writers, writer(w)
  PROVE  ArrayInv' /\ (Atomic!Modify \/ UNCHANGED <<committed, result>>)
<1> USE DEF Goto
<1>1. w \in Processes /\ w \notin Readers /\ pc \in [Processes -> Labels]
  BY ReadersWritersAssumption DEF Processes, IInv, TypeOK
<1>2. \A r \in Readers : pc'[r] = pc[r] /\ i'[r] = i[r] /\ scanned'[r] = scanned[r]
  BY <1>1 DEF writer, BeginModify, ModifyCell, EndModify, Processes, IInv, TypeOK
<1>3. \A r \in Readers : ~Reading(r)
  <2>1. Writing(w) => ~ReadersOwn
    BY DEF IInv, WriterAlone
  <2>2. BeginModify(w) => ~ReadersOwn
    BY DEF BeginModify, IInv, WriterSemaphoreOwned
  <2>3. ModifyCell(w) \/ EndModify(w) => Writing(w)
    BY DEF ModifyCell, EndModify, Writing
  <2> QED
    BY <2>1, <2>2, <2>3 DEF writer, ReadersOwn, Reading
<1>4. \A r \in Readers : /\ pc'[r] \notin {"scan", "print"}
                         /\ i'[r] = 0
  BY <1>2, <1>3 DEF Reading, ArrayInv
<1>5. CASE BeginModify(w)
  <2>1. UNCHANGED <<shared_array, committed, result>> /\ Writing(w)'
    BY <1>1, <1>5 DEF BeginModify, Writing
  <2> QED
    BY <1>4, <2>1 DEF ArrayInv
<1>6. CASE ModifyCell(w)
  <2>1. UNCHANGED <<committed, result>> /\ Writing(w)'
    BY <1>1, <1>6 DEF ModifyCell, Writing
  <2> QED
    BY <1>4, <2>1 DEF ArrayInv
<1>7. CASE EndModify(w)
  <2>1. committed' = shared_array /\ shared_array' = shared_array /\ result' = result
    BY <1>7 DEF EndModify
  <2>2. Atomic!Modify
    BY <2>1 DEF Atomic!Modify, IInv, TypeOK
  <2> QED
    BY <1>4, <2>1, <2>2 DEF ArrayInv
<1> QED
  BY <1>5, <1>6, <1>7 DEF writer

\* Every scan is of one complete array, for any number of readers and writers and
\* any length of the array.
THEOREM Implements == Spec => ImplementsAtomicArray
<1>1. Init => Atomic!Init /\ ArrayInv
  <2> SUFFICES ASSUME Init PROVE Atomic!Init /\ ArrayInv
    OBVIOUS
  <2>1. committed \in Arrays
    BY ReadersWritersAssumption DEF Init, FreshArray, Arrays
  <2>2. \A r \in Readers : r \in Processes /\ pc[r] = "enter" /\ i[r] = 0
    BY DEF Init, Processes
  <2> QED
    BY <2>1, <2>2 DEF Init, Atomic!Init, ArrayInv
<1>2. IInv /\ ArrayInv /\ [Next]_vars => ArrayInv' /\ [Atomic!Next]_<<committed, result>>
  <2> SUFFICES ASSUME IInv, ArrayInv, [Next]_vars
               PROVE  ArrayInv' /\ [Atomic!Next]_<<committed, result>>
    OBVIOUS
  <2>1. ASSUME NEW r \in Readers, reader(r)
        PROVE  ArrayInv' /\ [Atomic!Next]_<<committed, result>>
    BY <2>1, ReaderOutsideScan, ScanCopies, PrintIsScan DEF reader, Atomic!Next
  <2>2. ASSUME NEW w \in Writers, writer(w)
        PROVE  ArrayInv' /\ [Atomic!Next]_<<committed, result>>
    BY <2>2, WriterModifies DEF Atomic!Next
  <2>3. CASE UNCHANGED vars
    BY <2>3 DEF vars, ArrayInv, Writing
  <2> QED
    BY <2>1, <2>2, <2>3 DEF Next
<1> QED
  BY <1>1, <1>2, InvariantHolds, PTL DEF Spec, ImplementsAtomicArray, Atomic!Spec, Atomic!vars

\* What holds of the loops holds of the exercise, where they are one question.
THEOREM LoopsWithin == ExerciseSpec => Spec
<1>1. ExerciseInit => Init
  BY DEF ExerciseInit
<1>2. [ExerciseNext]_allVars => [Next]_vars
  BY DEF ExerciseNext, InLoops, allVars
<1> QED
  BY <1>1, <1>2, PTL DEF ExerciseSpec, Spec

-----------------------------------------------------------------------------
\* The names: processes of several generations

\* What a process has opened, and what is in the objects.
CountOf(p)  == has[p][N!READERS_COUNT]
LockOf(p)   == has[p][N!READERS_SEMAPHORE]
DoorOf(p)   == has[p][N!WRITERS_SEMAPHORE]
CountVal(k) == value[N!READERS_COUNT][k]
LockVal(c)  == value[N!READERS_SEMAPHORE][c]
DoorVal(c)  == value[N!WRITERS_SEMAPHORE][c]

\* How far a process has come: with its objects, ...
NoCount == {"array", "create", "find"}
NoDoor  == NoCount \cup {"size", "reset", "writers", "semaphore"}
NoLock  == NoDoor \cup {"readers"}
\* ... under the readers' semaphore, counted in, and past the writers'.
Locked    == {"in", "increment", "first", "open", "out", "decrement", "last", "close"}
CountedIn == {"first", "open", "work", "out", "decrement"}
LetIn     == {"open", "work", "out", "decrement", "last"}
Gone      == {"unlink", "unlink_semaphore", "ended"}
Working   == Locked \cup {"enter", "work"}
AllSteps  == NoLock \cup Working \cup {"wait"} \cup Gone

NTypeOK ==
  /\ object \in [N!Names -> N!Processes \cup {None}]
  /\ object[N!READERS_COUNT] \in ComingReaders \cup {None}
  /\ has \in [N!Processes -> [N!Names -> N!Processes \cup {None}]]
  /\ \A p \in N!Processes : CountOf(p) \in ComingReaders \cup {None}
  /\ value \in [N!Names -> [N!Processes -> Int]]
  /\ step \in [N!Processes -> AllSteps]
  /\ register \in [N!Processes -> Int]
  /\ late \in BOOLEAN

\* An object is called after a process that has it.
Shared == {N!READERS_COUNT, N!READERS_SEMAPHORE, N!WRITERS_SEMAPHORE}
NamesInv ==
  \A n \in Shared :
    /\ object[n] # None => has[object[n]][n] = object[n]
    /\ \A p \in N!Processes : has[p][n] # None => has[has[p][n]][n] = has[p][n]

\* A process has opened what it has come past.
StepsFit ==
  /\ \A p \in N!Processes :
       /\ step[p] \in NoCount => CountOf(p) = None
       /\ step[p] \in NoDoor  => DoorOf(p) = None
       /\ step[p] \in NoLock  => LockOf(p) = None
  /\ \A r \in ComingReaders :
       /\ step[r] \notin {"semaphore", "wait"}
       /\ step[r] \in {"size", "reset"} => CountOf(r) = r
       /\ step[r] \in {"writers", "readers"} \cup Working => CountOf(r) # None
       /\ step[r] \in {"readers"} \cup Working => DoorOf(r) # None
       /\ step[r] \in Working => LockOf(r) # None
  /\ \A w \in ComingWriters : step[w] \in {"wait", "work"} => DoorOf(w) # None

\* One reader at a time holds a readers' semaphore.
LockInv ==
  /\ \A c \in N!Processes : LockVal(c) \in {0, 1}
  /\ \A r \in ComingReaders : step[r] \in Locked => LockVal(LockOf(r)) = 0
  /\ \A r, s \in ComingReaders :
       step[r] \in Locked /\ step[s] \in Locked /\ LockOf(r) = LockOf(s) => r = s

\* The readers of one count agree on both semaphores.
Agreed ==
  \A r, s \in ComingReaders :
    CountOf(r) = CountOf(s) /\ CountOf(r) # None =>
      /\ LockOf(r) # None /\ LockOf(s) # None => LockOf(r) = LockOf(s)
      /\ DoorOf(r) # None /\ DoorOf(s) # None => DoorOf(r) = DoorOf(s)

\* A count is never below the number of those who are counted in and live; nobody
\* changes it between another's load and store.
Alive(k) == {r \in ComingReaders : step[r] \in CountedIn /\ CountOf(r) = k}
CountInv ==
  /\ \A k \in ComingReaders :
       /\ CountVal(k) >= Cardinality(Alive(k))
       /\ CountVal(k) > 0 =>
            \E s \in ComingReaders : CountOf(s) = k /\ LockOf(s) # None /\ DoorOf(s) # None
  /\ \A r \in ComingReaders :
       step[r] \in {"increment", "decrement"} => register[r] = CountVal(CountOf(r))

\* A count whose readers' semaphore was not taken along by a dead process.
Usable(k) ==
  \E s \in ComingReaders :
    /\ CountOf(s) = k /\ LockOf(s) # None
    /\ \/ LockVal(LockOf(s)) = 1
       \/ \E r \in ComingReaders : step[r] \in Locked /\ LockOf(r) = LockOf(s)

\* The readers of a count have the writers' semaphore from the first wait to the
\* last post; so have those who find a count that is not 0.
GroupOwns(k) ==
  \/ \E r \in ComingReaders : step[r] \in LetIn /\ CountOf(r) = k
  \/ /\ CountVal(k) > 0 /\ Usable(k)
     /\ CountVal(k) = 1 => \A r \in ComingReaders : step[r] = "first" => CountOf(r) # k

\* Who has writers' semaphore c: a writer, or the readers of count x.
Owns(x, c) ==
  \/ x \in ComingWriters /\ step[x] = "work" /\ DoorOf(x) = c
  \/ /\ x \in ComingReaders /\ GroupOwns(x)
     /\ \E s \in ComingReaders : CountOf(s) = x /\ DoorOf(s) = c

DoorInv ==
  \A c \in N!Processes :
    /\ DoorVal(c) \in {0, 1}
    /\ \A x \in N!Processes : Owns(x, c) => DoorVal(c) = 0
    /\ \A x, y \in N!Processes : Owns(x, c) /\ Owns(y, c) => x = y

NInv ==
  /\ NTypeOK /\ NamesInv /\ StepsFit /\ LockInv
  /\ late \/ ~Agreed \/ (CountInv /\ DoorInv)

LEMMA NameTypes ==
  /\ N!READERS_COUNT \in N!Names /\ N!READERS_SEMAPHORE \in N!Names
  /\ N!WRITERS_SEMAPHORE \in N!Names /\ N!SHARED_MEM \in N!Names
  /\ Shared \subseteq N!Names /\ N!SHARED_MEM \notin Shared
  /\ N!READERS_COUNT # N!SHARED_MEM
  /\ N!READERS_COUNT # N!READERS_SEMAPHORE /\ N!READERS_COUNT # N!WRITERS_SEMAPHORE
  /\ N!READERS_SEMAPHORE # N!WRITERS_SEMAPHORE
BY DEF N!Names, N!READERS_COUNT, N!READERS_SEMAPHORE, N!WRITERS_SEMAPHORE, N!SHARED_MEM,
       Shared

LEMMA ProcessTypes ==
  /\ N!Processes = ComingReaders \cup ComingWriters
  /\ ComingReaders \cap ComingWriters = {} /\ None \notin N!Processes
BY ComingAssumption DEF N!Processes

\* One object gets another value.
LEMMA ValueSet ==
  ASSUME value \in [N!Names -> [N!Processes -> Int]],
         NEW n \in N!Names, NEW c \in N!Processes, NEW x \in Int,
         value' = [value EXCEPT ![n][c] = x]
  PROVE  /\ value' \in [N!Names -> [N!Processes -> Int]]
         /\ value'[n][c] = x
         /\ \A m \in N!Names, d \in N!Processes :
              m # n \/ d # c => value'[m][d] = value[m][d]
<1>1. value'[n] = [value[n] EXCEPT ![c] = x]
  OBVIOUS
<1>2. \A m \in N!Names \ {n} : value'[m] = value[m]
  OBVIOUS
<1>3. [value[n] EXCEPT ![c] = x] \in [N!Processes -> Int]
  OBVIOUS
<1>4. value' = [value EXCEPT ![n] = [value[n] EXCEPT ![c] = x]]
  OBVIOUS
<1>5. value' \in [N!Names -> [N!Processes -> Int]]
  BY <1>3, <1>4
<1> QED
  BY <1>1, <1>2, <1>5

LEMMA WaitTakes ==
  ASSUME value \in [N!Names -> [N!Processes -> Int]], NEW p \in N!Processes,
         NEW n \in N!Names, has[p][n] \in N!Processes, N!Wait(p, n)
  PROVE  /\ value' \in [N!Names -> [N!Processes -> Int]]
         /\ value[n][has[p][n]] > 0 /\ value'[n][has[p][n]] = value[n][has[p][n]] - 1
         /\ \A m \in N!Names, d \in N!Processes :
              m # n \/ d # has[p][n] => value'[m][d] = value[m][d]
<1> DEFINE c == has[p][n]
           x == value[n][c] - 1
<1>1. x \in Int /\ value' = [value EXCEPT ![n][c] = x]
  BY DEF N!Wait
<1> HIDE DEF c, x
<1>2. c \in N!Processes
  BY DEF c
<1>3. /\ value' \in [N!Names -> [N!Processes -> Int]] /\ value'[n][c] = x
      /\ \A m \in N!Names, d \in N!Processes :
           m # n \/ d # c => value'[m][d] = value[m][d]
  BY <1>1, <1>2, ValueSet
<1> QED
  BY <1>3 DEF c, x, N!Wait

LEMMA PostGives ==
  ASSUME value \in [N!Names -> [N!Processes -> Int]], NEW p \in N!Processes,
         NEW n \in N!Names, has[p][n] \in N!Processes, N!Post(p, n)
  PROVE  /\ value' \in [N!Names -> [N!Processes -> Int]]
         /\ value'[n][has[p][n]] = value[n][has[p][n]] + 1
         /\ \A m \in N!Names, d \in N!Processes :
              m # n \/ d # has[p][n] => value'[m][d] = value[m][d]
<1> DEFINE c == has[p][n]
           x == value[n][c] + 1
<1>1. x \in Int /\ value' = [value EXCEPT ![n][c] = x]
  BY DEF N!Post
<1> HIDE DEF c, x
<1>2. c \in N!Processes
  BY DEF c
<1>3. /\ value' \in [N!Names -> [N!Processes -> Int]] /\ value'[n][c] = x
      /\ \A m \in N!Names, d \in N!Processes :
           m # n \/ d # c => value'[m][d] = value[m][d]
  BY <1>1, <1>2, ValueSet
<1> QED
  BY <1>3 DEF c, x

\* An opened object is that of the name, or a new one.
LEMMA Opening ==
  ASSUME NTypeOK, NEW p \in N!Processes, NEW n \in N!Names, N!Open(p, n) \/ N!OpenOld(p, n)
  PROVE  /\ has' \in [N!Processes -> [N!Names -> N!Processes \cup {None}]]
         /\ object' \in [N!Names -> N!Processes \cup {None}]
         /\ object'[n] # None /\ has'[p][n] = object'[n]
         /\ object[n] = None => object'[n] = p
         /\ object[n] # None => object'[n] = object[n]
         /\ \A m \in N!Names \ {n} : object'[m] = object[m]
         /\ \A q \in N!Processes, m \in N!Names :
              q # p \/ m # n => has'[q][m] = has[q][m]
<1> DEFINE o == IF object[n] = None THEN p ELSE object[n]
<1>1. /\ o \in N!Processes /\ o # None
      /\ object[n] = None => o = p
      /\ object[n] # None => o = object[n]
  BY ProcessTypes DEF NTypeOK
<1>2. object' = [object EXCEPT ![n] = o] /\ has' = [has EXCEPT ![p][n] = o]
  <2>1. CASE N!Open(p, n)
    BY <2>1 DEF N!Open
  <2>2. CASE N!OpenOld(p, n)
    BY <2>2 DEF N!OpenOld, NTypeOK
  <2> QED
    BY <2>1, <2>2
<1> HIDE DEF o
<1>3. /\ has'[p] = [has[p] EXCEPT ![n] = o] /\ has'[p] \in [N!Names -> N!Processes \cup {None}]
      /\ \A q \in N!Processes \ {p} : has'[q] = has[q]
  BY <1>1, <1>2 DEF NTypeOK
<1>4. has' \in [N!Processes -> [N!Names -> N!Processes \cup {None}]]
  BY <1>2, <1>3 DEF NTypeOK
<1> QED
  BY <1>1, <1>2, <1>3, <1>4 DEF NTypeOK

Static == NTypeOK /\ NamesInv /\ StepsFit

\* What StepsFit asks of one process.
Fits(p) ==
  /\ step[p] \in NoCount => CountOf(p) = None
  /\ step[p] \in NoDoor  => DoorOf(p) = None
  /\ step[p] \in NoLock  => LockOf(p) = None
  /\ p \in ComingReaders =>
       /\ step[p] \notin {"semaphore", "wait"}
       /\ step[p] \in {"size", "reset"} => CountOf(p) = p
       /\ step[p] \in {"writers", "readers"} \cup Working => CountOf(p) # None
       /\ step[p] \in {"readers"} \cup Working => DoorOf(p) # None
       /\ step[p] \in Working => LockOf(p) # None
  /\ p \in ComingWriters => (step[p] \in {"wait", "work"} => DoorOf(p) # None)

LEMMA FitsOne ==
  /\ StepsFit <=> \A p \in N!Processes : Fits(p)
  /\ StepsFit' <=> \A p \in N!Processes : Fits(p)'
BY ProcessTypes DEF StepsFit, Fits

\* A step of p leaves what the others are and have alone.
Others(p) ==
  \A q \in N!Processes \ {p} :
    /\ step'[q] = step[q] /\ register'[q] = register[q]
    /\ \A n \in N!Names : has'[q][n] = has[q][n]

LEMMA OthersFit ==
  ASSUME StepsFit, NEW p \in N!Processes, Others(p), Fits(p)'
  PROVE  StepsFit'
<1>1. ASSUME NEW q \in N!Processes, q # p PROVE Fits(q)'
  <2>1. CountOf(q)' = CountOf(q) /\ DoorOf(q)' = DoorOf(q) /\ LockOf(q)' = LockOf(q)
    BY <1>1, NameTypes DEF Others, CountOf, DoorOf, LockOf
  <2>2. step'[q] = step[q]
    BY <1>1 DEF Others
  <2>3. Fits(q)
    BY FitsOne
  <2> QED
    BY <2>1, <2>2, <2>3 DEF Fits
<1> QED
  BY <1>1, FitsOne

\* Opening an object keeps the names in order ...
LEMMA OpeningKeepsNames ==
  ASSUME NTypeOK, NamesInv, NEW p \in N!Processes, NEW n \in N!Names,
         N!Open(p, n) \/ N!OpenOld(p, n),
         n \in Shared => has[p][n] = None, n = N!READERS_COUNT => p \in ComingReaders
  PROVE  /\ NamesInv' /\ object'[N!READERS_COUNT] \in ComingReaders \cup {None}
         /\ \A q \in N!Processes : CountOf(q)' \in ComingReaders \cup {None}
<1>1. /\ object'[n] # None /\ has'[p][n] = object'[n]
      /\ object[n] = None => object'[n] = p
      /\ object[n] # None => object'[n] = object[n]
      /\ \A m \in N!Names \ {n} : object'[m] = object[m]
      /\ \A q \in N!Processes, m \in N!Names :
           q # p \/ m # n => has'[q][m] = has[q][m]
      /\ object' \in [N!Names -> N!Processes \cup {None}]
      /\ has' \in [N!Processes -> [N!Names -> N!Processes \cup {None}]]
  BY Opening
<1>2. ASSUME NEW m \in Shared
      PROVE  /\ object'[m] # None => has'[object'[m]][m] = object'[m]
             /\ \A q \in N!Processes : has'[q][m] # None => has'[has'[q][m]][m] = has'[q][m]
  <2>1. m \in N!Names /\ object[m] \in N!Processes \cup {None}
        /\ \A q \in N!Processes : has[q][m] \in N!Processes \cup {None}
    BY NameTypes DEF NTypeOK
  <2>2. /\ object[m] # None => has[object[m]][m] = object[m]
        /\ \A q \in N!Processes : has[q][m] # None => has[has[q][m]][m] = has[q][m]
    BY DEF NamesInv
  <2>3. CASE m # n
    BY <1>1, <2>1, <2>2, <2>3
  <2>4. CASE m = n
    <3>1. has[p][n] = None /\ p # None
      BY <2>4, ProcessTypes
    <3>2. \A q \in N!Processes : has[q][n] # p
      BY <2>2, <2>4, <3>1
    <3>3. object[n] # None => object[n] # p /\ has'[object[n]][n] = object[n]
      BY <1>1, <2>1, <2>2, <2>4, <3>1
    <3>4. object'[n] # None => has'[object'[n]][n] = object'[n]
      BY <1>1, <3>3
    <3>5. ASSUME NEW q \in N!Processes, has'[q][n] # None
          PROVE  has'[has'[q][n]][n] = has'[q][n]
      <4>1. CASE q = p
        BY <1>1, <3>4, <4>1
      <4>2. CASE q # p
        <5>1. has'[q][n] = has[q][n] /\ has[q][n] \in N!Processes /\ has[q][n] # p
          BY <1>1, <2>1, <2>4, <3>2, <3>5, <4>2
        <5>2. has[has[q][n]][n] = has[q][n]
          BY <2>2, <2>4, <3>5, <5>1
        <5>3. has'[has[q][n]][n] = has[has[q][n]][n]
          BY <1>1, <5>1
        <5> QED
          BY <5>1, <5>2, <5>3
      <4> QED
        BY <4>1, <4>2
    <3> QED
      BY <2>4, <3>4, <3>5
  <2> QED
    BY <2>3, <2>4
<1>3. NamesInv'
  BY <1>2 DEF NamesInv, Shared, N!READERS_COUNT, N!READERS_SEMAPHORE, N!WRITERS_SEMAPHORE
<1>4. object'[N!READERS_COUNT] \in ComingReaders \cup {None}
  BY <1>1, NameTypes DEF NTypeOK
<1>5. ASSUME NEW q \in N!Processes PROVE CountOf(q)' \in ComingReaders \cup {None}
  BY <1>1, <1>4, NameTypes DEF NTypeOK, CountOf
<1> QED
  BY <1>3, <1>4, <1>5

\* ... and so does losing a name.
LEMMA UnlinkingKeepsNames ==
  ASSUME NTypeOK, NamesInv, has' = has, \A n \in N!Names : object'[n] \in {object[n], None}
  PROVE  /\ NamesInv' /\ object'[N!READERS_COUNT] \in ComingReaders \cup {None}
         /\ \A q \in N!Processes : CountOf(q)' \in ComingReaders \cup {None}
<1>1. ASSUME NEW n \in Shared
      PROVE  /\ object'[n] # None => has'[object'[n]][n] = object'[n]
             /\ \A q \in N!Processes : has'[q][n] # None => has'[has'[q][n]][n] = has'[q][n]
  BY NameTypes DEF NamesInv
<1>2. NamesInv'
  BY <1>1 DEF NamesInv, Shared, N!READERS_COUNT, N!READERS_SEMAPHORE, N!WRITERS_SEMAPHORE
<1> QED
  BY <1>2, NameTypes DEF NTypeOK, CountOf

\* A step that opens nothing keeps the static part, ...
LEMMA StaysStatic ==
  ASSUME Static, NEW p \in N!Processes, NEW to \in AllSteps, has' = has,
         object' \in [N!Names -> N!Processes \cup {None}],
         \A n \in N!Names : object'[n] \in {object[n], None},
         value' \in [N!Names -> [N!Processes -> Int]], step' = [step EXCEPT ![p] = to],
         register' \in [N!Processes -> Int],
         \A q \in N!Processes \ {p} : register'[q] = register[q],
         late' \in BOOLEAN, Fits(p)'
  PROVE  Static' /\ Others(p)
<1> USE DEF Static
<1>1. Others(p)
  BY DEF Others, NTypeOK
<1>2. StepsFit'
  BY <1>1, OthersFit
<1>3. NamesInv' /\ object'[N!READERS_COUNT] \in ComingReaders \cup {None}
      /\ \A q \in N!Processes : CountOf(q)' \in ComingReaders \cup {None}
  BY UnlinkingKeepsNames
<1>4. NTypeOK'
  BY <1>3 DEF NTypeOK
<1> QED
  BY <1>1, <1>2, <1>3, <1>4

\* ... and so does one that opens an object.
LEMMA OpensStatic ==
  ASSUME Static, NEW p \in N!Processes, NEW to \in AllSteps, NEW n \in N!Names,
         N!Open(p, n) \/ N!OpenOld(p, n),
         n \in Shared => has[p][n] = None, n = N!READERS_COUNT => p \in ComingReaders,
         value' \in [N!Names -> [N!Processes -> Int]], step' = [step EXCEPT ![p] = to],
         register' = register, late' = late, Fits(p)'
  PROVE  Static' /\ Others(p)
<1> USE DEF Static
<1>1. /\ has' \in [N!Processes -> [N!Names -> N!Processes \cup {None}]]
      /\ object' \in [N!Names -> N!Processes \cup {None}]
      /\ \A q \in N!Processes, m \in N!Names :
           q # p \/ m # n => has'[q][m] = has[q][m]
  BY Opening
<1>2. Others(p)
  BY <1>1 DEF Others, NTypeOK
<1>3. StepsFit'
  BY <1>2, OthersFit
<1>4. NamesInv' /\ object'[N!READERS_COUNT] \in ComingReaders \cup {None}
      /\ \A q \in N!Processes : CountOf(q)' \in ComingReaders \cup {None}
  BY OpeningKeepsNames
<1>5. NTypeOK'
  BY <1>1, <1>4 DEF NTypeOK
<1> QED
  BY <1>2, <1>3, <1>4, <1>5

-----------------------------------------------------------------------------
\* The kinds of steps

\* p starts, finds the memory, fails or ends: no semaphore is used.
Quiet(p) ==
  /\ Others(p) /\ step'[p] \notin Locked \cup {"work"}
  /\ late => late'
  /\ late' \/ value' = value
  /\ \A n \in N!Names \ {N!READERS_COUNT}, c \in N!Processes : value'[n][c] = value[n][c]
  /\ LockOf(p)' = LockOf(p) /\ DoorOf(p)' = DoorOf(p)
  /\ CountOf(p)' = CountOf(p) \/ step[p] \in NoCount

\* p opens the semaphore n, and makes it when there is none.
Opens(p, n) ==
  /\ Others(p) /\ late' = late
  /\ step[p] \notin Locked \cup {"work"} /\ step'[p] \notin Locked \cup {"work"}
  /\ has[p][n] = None /\ has'[p][n] # None
  /\ \A m \in Shared \ {n} : has'[p][m] = has[p][m]
  /\ \/ value' = value
     \/ /\ has'[p][n] = p /\ value'[n][p] = 1
        /\ \A m \in N!Names, c \in N!Processes : m # n \/ c # p => value'[m][c] = value[m][c]

\* The loops change no names.
InLoop(p) ==
  /\ Others(p) /\ has' = has /\ late' = late
  /\ \/ p \in ComingWriters /\ N!WriterWorks(p)
     \/ /\ p \in ComingReaders
        /\ \/ N!LockCount(p) \/ N!LoadCount(p) \/ N!StoreCount(p)
           \/ N!FirstIn(p) \/ N!LastOut(p) \/ N!UnlockCount(p)

Kinds(p) ==
  Quiet(p) \/ Opens(p, N!READERS_SEMAPHORE) \/ Opens(p, N!WRITERS_SEMAPHORE) \/ InLoop(p)

LEMMA OpensSemaphore ==
  ASSUME Static, NEW p \in N!Processes,
         NEW n \in {N!READERS_SEMAPHORE, N!WRITERS_SEMAPHORE},
         \/ N!OpenSemaphore(p, n)
         \/ N!OpenOld(p, n) /\ value' = value,
         has[p][n] = None, NEW to \in AllSteps, step[p] \notin Locked \cup {"work"},
         to \notin Locked \cup {"work"}, step' = [step EXCEPT ![p] = to],
         register' = register, late' = late,
         has'[p][n] # None /\ (\A m \in Shared \ {n} : has'[p][m] = has[p][m]) => Fits(p)'
  PROVE  Static' /\ Opens(p, n)
<1>1. n \in N!Names /\ n \in Shared /\ n # N!READERS_COUNT
  BY NameTypes DEF Shared
<1>2. N!Open(p, n) \/ N!OpenOld(p, n)
  BY DEF N!OpenSemaphore
<1>3. /\ has'[p][n] # None
      /\ object[n] = None => has'[p][n] = p
      /\ \A m \in Shared \ {n} : has'[p][m] = has[p][m]
  BY <1>1, <1>2, Opening, NameTypes DEF Static
<1>4. /\ value' \in [N!Names -> [N!Processes -> Int]]
      /\ \/ value' = value
         \/ /\ has'[p][n] = p /\ value'[n][p] = 1
            /\ \A m \in N!Names, c \in N!Processes :
                 m # n \/ c # p => value'[m][c] = value[m][c]
  <2>1. CASE value' = value
    BY <2>1 DEF Static, NTypeOK
  <2>2. CASE object[n] = None /\ value' = [value EXCEPT ![n][p] = 1]
    BY <1>1, <1>3, <2>2, ValueSet DEF Static, NTypeOK
  <2> QED
    BY <2>1, <2>2 DEF N!OpenSemaphore
<1>5. Static' /\ Others(p)
  BY <1>1, <1>2, <1>3, <1>4, OpensStatic
<1> QED
  BY <1>3, <1>4, <1>5 DEF Opens, Static, NTypeOK

LEMMA WriterKind ==
  ASSUME Static, NEW w \in ComingWriters, N!WriterStarts(w) \/ N!WriterWorks(w)
  PROVE  Static' /\ Kinds(w)
<1> USE DEF N!Goto, N!Kept
<1>1. /\ w \in N!Processes /\ w \notin ComingReaders /\ Fits(w)
      /\ value \in [N!Names -> [N!Processes -> Int]] /\ step \in [N!Processes -> AllSteps]
      /\ object \in [N!Names -> N!Processes \cup {None}]
      /\ register \in [N!Processes -> Int] /\ late \in BOOLEAN
      /\ has[w] \in [N!Names -> N!Processes \cup {None}]
  BY ProcessTypes, FitsOne DEF Static, NTypeOK
<1>2. CASE /\ step[w] = "array" /\ step' = [step EXCEPT ![w] = "size"]
           /\ N!Open(w, N!SHARED_MEM) /\ UNCHANGED <<sized, value, register, interrupts, late>>
  <2>1. \A m \in Shared : has'[w][m] = has[w][m]
    BY <1>1, <1>2, Opening, NameTypes DEF Static
  <2>2. CountOf(w)' = CountOf(w) /\ LockOf(w)' = LockOf(w) /\ DoorOf(w)' = DoorOf(w)
    BY <2>1 DEF Shared, CountOf, LockOf, DoorOf
  <2>3. Fits(w)'
    BY <1>1, <1>2, <2>2 DEF Fits, NoCount, NoDoor, NoLock, Working, Locked
  <2>4. Static' /\ Others(w)
    BY <1>1, <1>2, <2>3, NameTypes, OpensStatic DEF AllSteps, NoLock, NoDoor
  <2> QED
    BY <1>1, <1>2, <2>2, <2>4 DEF Kinds, Quiet, Locked
<1>3. CASE /\ step[w] = "size" /\ step' = [step EXCEPT ![w] = "semaphore"]
           /\ UNCHANGED <<object, has, value, register, interrupts, late>>
  <2>1. CountOf(w)' = CountOf(w) /\ LockOf(w)' = LockOf(w) /\ DoorOf(w)' = DoorOf(w)
    BY <1>3 DEF CountOf, LockOf, DoorOf
  <2>2. Fits(w)'
    BY <1>1, <1>3, <2>1 DEF Fits, NoCount, NoDoor, NoLock, Working, Locked
  <2>3. Static' /\ Others(w)
    BY <1>1, <1>3, <2>2, StaysStatic DEF AllSteps, NoLock, NoDoor
  <2> QED
    BY <1>1, <1>3, <2>1, <2>3 DEF Kinds, Quiet, Locked
<1>4. CASE /\ step[w] = "semaphore" /\ step' = [step EXCEPT ![w] = "wait"]
           /\ N!OpenSemaphore(w, N!WRITERS_SEMAPHORE)
           /\ UNCHANGED <<sized, register, interrupts, late>>
  <2>1. has[w][N!WRITERS_SEMAPHORE] = None
    BY <1>1, <1>4 DEF Fits, NoDoor, DoorOf
  <2>2. has'[w][N!WRITERS_SEMAPHORE] # None => Fits(w)'
    BY <1>1, <1>4 DEF Fits, NoCount, NoDoor, NoLock, Working, Locked, DoorOf
  <2> QED
    BY <1>1, <1>4, <2>1, <2>2, OpensSemaphore
    DEF Kinds, AllSteps, Locked
<1>5. CASE N!WriterWorks(w)
  <2>1. has[w][N!WRITERS_SEMAPHORE] \in N!Processes
    BY <1>1, <1>5, NameTypes DEF N!WriterWorks, Fits, DoorOf
  <2>2. value' \in [N!Names -> [N!Processes -> Int]]
    BY <1>1, <1>5, <2>1, NameTypes, WaitTakes, PostGives DEF N!WriterWorks
  <2>3. PICK to \in {"wait", "work"} : step' = [step EXCEPT ![w] = to]
    BY <1>5 DEF N!WriterWorks
  <2>4. /\ has' = has /\ object' = object /\ register' = register /\ late' = late
        /\ step[w] \in {"wait", "work"}
    BY <1>5 DEF N!WriterWorks
  <2>5. Fits(w)'
    BY <1>1, <2>3, <2>4
    DEF Fits, NoCount, NoDoor, NoLock, Working, Locked, CountOf, DoorOf, LockOf
  <2>6. Static' /\ Others(w)
    BY <1>1, <2>2, <2>3, <2>4, <2>5, StaysStatic DEF AllSteps, Working
  <2> QED
    BY <1>5, <2>4, <2>6 DEF Kinds, InLoop
<1> QED
  BY <1>2, <1>3, <1>4, <1>5 DEF N!WriterStarts

\* Before the semaphores a reader is quiet.
LEMMA ReaderStartsKind ==
  ASSUME Static, NEW r \in ComingReaders,
         N!ReaderFindsMemory(r) \/ N!ReaderSizesCount(r) \/ N!ResetCount(r)
  PROVE  Static' /\ Kinds(r)
<1> USE DEF N!Goto, N!Kept
<1>1. /\ r \in N!Processes /\ r \notin ComingWriters /\ Fits(r)
      /\ value \in [N!Names -> [N!Processes -> Int]] /\ step \in [N!Processes -> AllSteps]
      /\ object \in [N!Names -> N!Processes \cup {None}]
      /\ register \in [N!Processes -> Int] /\ late \in BOOLEAN
      /\ has[r] \in [N!Names -> N!Processes \cup {None}]
  BY ProcessTypes, FitsOne DEF Static, NTypeOK
<1>2. ASSUME NEW n \in {N!SHARED_MEM, N!READERS_COUNT}, N!Open(r, n) \/ N!OpenOld(r, n),
             NEW to \in {"create", "size", "writers"}, step[r] \in NoCount,
             step' = [step EXCEPT ![r] = to], UNCHANGED <<value, register, late>>,
             n = N!SHARED_MEM <=> to = "create", to = "size" => object[n] = None
      PROVE  Static' /\ Kinds(r)
  <2>1. /\ n \in N!Names /\ (n \in Shared => n = N!READERS_COUNT)
        /\ has'[r][n] # None /\ (to = "size" => has'[r][n] = r)
        /\ \A m \in Shared \ {n} : has'[r][m] = has[r][m]
    BY <1>1, <1>2, Opening, NameTypes DEF Static
  <2>2. LockOf(r)' = LockOf(r) /\ DoorOf(r)' = DoorOf(r)
        /\ CountOf(r)' = IF to = "create" THEN CountOf(r) ELSE has'[r][n]
    BY <1>2, <2>1, NameTypes DEF Shared, CountOf, LockOf, DoorOf
  <2>3. Fits(r)'
    BY <1>1, <1>2, <2>1, <2>2 DEF Fits, NoCount, NoDoor, NoLock, Working, Locked
  <2>4. n \in Shared => has[r][n] = None
    <3>1. has[r][N!READERS_COUNT] = None
      BY <1>1, <1>2 DEF Fits, CountOf
    <3> QED
      BY <2>1, <3>1
  <2>5. Static' /\ Others(r)
    <3>1. to \in AllSteps /\ register' = register /\ late' = late
      BY <1>2 DEF AllSteps, NoLock, NoDoor, NoCount
    <3>2. value' \in [N!Names -> [N!Processes -> Int]]
      BY <1>1, <1>2
    <3> QED
      BY <1>1, <1>2, <2>1, <2>3, <2>4, <3>1, <3>2, OpensStatic
  <2> QED
    BY <1>1, <1>2, <2>2, <2>5 DEF Kinds, Quiet, Locked
<1>3. ASSUME NEW to \in {"find", "reset", "writers"}, has' = has, object' = object,
             register' = register, late => late', late' \in BOOLEAN,
             late' \/ value' = value,
             \A n \in N!Names \ {N!READERS_COUNT}, c \in N!Processes :
               value'[n][c] = value[n][c],
             value' \in [N!Names -> [N!Processes -> Int]],
             step' = [step EXCEPT ![r] = to],
             to = "find" => step[r] = "create", to = "reset" => CountOf(r) = r,
             to # "find" => step[r] \in {"size", "reset"} /\ CountOf(r) # None
      PROVE  Static' /\ Kinds(r)
  <2>1. CountOf(r)' = CountOf(r) /\ LockOf(r)' = LockOf(r) /\ DoorOf(r)' = DoorOf(r)
    BY <1>3 DEF CountOf, LockOf, DoorOf
  <2>2. Fits(r)'
    BY <1>1, <1>3, <2>1 DEF Fits, NoCount, NoDoor, NoLock, Working, Locked
  <2>3. Static' /\ Others(r)
    BY <1>1, <1>3, <2>2, StaysStatic DEF AllSteps, NoLock, NoDoor, NoCount
  <2> QED
    BY <1>1, <1>3, <2>1, <2>3 DEF Kinds, Quiet, Locked
<1>4. CASE N!ReaderFindsMemory(r)
  <2>1. \/ /\ step[r] = "array" /\ step' = [step EXCEPT ![r] = "create"]
           /\ N!OpenOld(r, N!SHARED_MEM)
        \/ /\ step[r] = "create" /\ step' = [step EXCEPT ![r] = "size"]
           /\ N!Open(r, N!READERS_COUNT) /\ object[N!READERS_COUNT] = None
        \/ /\ step[r] = "create" /\ step' = [step EXCEPT ![r] = "find"]
           /\ UNCHANGED <<object, has>>
        \/ /\ step[r] = "find" /\ step' = [step EXCEPT ![r] = "writers"]
           /\ N!OpenOld(r, N!READERS_COUNT)
    BY <1>4 DEF N!ReaderFindsMemory
  <2>2. UNCHANGED <<value, register, late>>
    BY <1>4 DEF N!ReaderFindsMemory
  <2> QED
    BY <1>1, <1>2, <1>3, <2>1, <2>2, NameTypes DEF NoCount
<1>5. CASE N!ReaderSizesCount(r)
  <2>1. CountOf(r) = r
    BY <1>1, <1>5 DEF N!ReaderSizesCount, Fits
  <2> QED
    BY <1>1, <1>3, <1>5, <2>1, ProcessTypes DEF N!ReaderSizesCount
<1>6. CASE N!ResetCount(r)
  <2>1. CountOf(r) = r /\ r # None
    BY <1>1, <1>6, ProcessTypes DEF N!ResetCount, Fits
  <2>2. /\ value' \in [N!Names -> [N!Processes -> Int]]
        /\ \A n \in N!Names \ {N!READERS_COUNT}, c \in N!Processes :
             value'[n][c] = value[n][c]
    BY <1>1, <1>6, ValueSet, NameTypes DEF N!ResetCount
  <2>3. late' \/ value' = value
    <3>1. CASE value[N!READERS_COUNT][r] = 0
      <4>1. value' = [value EXCEPT ![N!READERS_COUNT][r] = 0]
        BY <1>6 DEF N!ResetCount
      <4>2. [value[N!READERS_COUNT] EXCEPT ![r] = 0] = value[N!READERS_COUNT]
        BY <1>1, <3>1, NameTypes
      <4> QED
        BY <1>1, <4>1, <4>2, NameTypes
    <3>2. CASE value[N!READERS_COUNT][r] # 0
      BY <1>6, <3>2 DEF N!ResetCount
    <3> QED
      BY <3>1, <3>2
  <2> QED
    BY <1>1, <1>3, <1>6, <2>1, <2>2, <2>3 DEF N!ResetCount
<1> QED
  BY <1>4, <1>5, <1>6

\* Then it opens the semaphores.
LEMMA ReaderSemaphoresKind ==
  ASSUME Static, NEW r \in ComingReaders, N!ReaderFindsSemaphores(r)
  PROVE  Static' /\ Kinds(r)
<1> USE DEF N!Goto, N!Kept
<1>1. /\ r \in N!Processes /\ r \notin ComingWriters /\ Fits(r)
      /\ register' = register /\ late' = late
  BY ProcessTypes, FitsOne DEF Static, N!ReaderFindsSemaphores
<1>2. CASE /\ step[r] = "writers" /\ step' = [step EXCEPT ![r] = "readers"]
           /\ N!OpenOld(r, N!WRITERS_SEMAPHORE) /\ value' = value
  <2>1. has[r][N!WRITERS_SEMAPHORE] = None
    BY <1>1, <1>2 DEF Fits, NoDoor, DoorOf
  <2>2. ASSUME has'[r][N!WRITERS_SEMAPHORE] # None,
               \A m \in Shared \ {N!WRITERS_SEMAPHORE} : has'[r][m] = has[r][m]
        PROVE  Fits(r)'
    <3>1. DoorOf(r)' # None /\ CountOf(r)' = CountOf(r) /\ LockOf(r)' = LockOf(r)
      BY <2>2, NameTypes DEF Shared, DoorOf, CountOf, LockOf
    <3>2. step'[r] = "readers"
      BY <1>1, <1>2 DEF Static, NTypeOK
    <3> QED
      BY <1>1, <1>2, <3>1, <3>2 DEF Fits, NoCount, NoDoor, NoLock, Working, Locked
  <2>3. "readers" \in AllSteps /\ "readers" \notin Locked \cup {"work"}
        /\ step[r] \notin Locked \cup {"work"}
    BY <1>2 DEF AllSteps, NoLock, Locked
  <2> QED
    BY <1>1, <1>2, <2>1, <2>2, <2>3, OpensSemaphore DEF Kinds
<1>3. CASE /\ step[r] = "readers" /\ step' = [step EXCEPT ![r] = "enter"]
           /\ N!OpenSemaphore(r, N!READERS_SEMAPHORE)
  <2>1. has[r][N!READERS_SEMAPHORE] = None
    BY <1>1, <1>3 DEF Fits, NoLock, LockOf
  <2>2. ASSUME has'[r][N!READERS_SEMAPHORE] # None,
               \A m \in Shared \ {N!READERS_SEMAPHORE} : has'[r][m] = has[r][m]
        PROVE  Fits(r)'
    <3>1. LockOf(r)' # None /\ CountOf(r)' = CountOf(r) /\ DoorOf(r)' = DoorOf(r)
      BY <2>2, NameTypes DEF Shared, DoorOf, CountOf, LockOf
    <3>2. step'[r] = "enter"
      BY <1>1, <1>3 DEF Static, NTypeOK
    <3> QED
      BY <1>1, <1>3, <3>1, <3>2 DEF Fits, NoCount, NoDoor, NoLock, Working, Locked
  <2>3. "enter" \in AllSteps /\ "enter" \notin Locked \cup {"work"}
        /\ step[r] \notin Locked \cup {"work"}
    BY <1>3 DEF AllSteps, Working, Locked
  <2> QED
    BY <1>1, <1>3, <2>1, <2>2, <2>3, OpensSemaphore DEF Kinds
<1> QED
  BY <1>1, <1>2, <1>3 DEF N!ReaderFindsSemaphores

\* In the loop it goes from step to step with the objects it has.
LEMMA ReaderLoopKind ==
  ASSUME Static, NEW r \in ComingReaders,
         \/ N!LockCount(r) \/ N!LoadCount(r) \/ N!StoreCount(r)
         \/ N!FirstIn(r) \/ N!LastOut(r) \/ N!UnlockCount(r)
  PROVE  Static' /\ Kinds(r)
<1> USE DEF N!Goto, N!Kept, N!LockCount, N!LoadCount, N!StoreCount, N!FirstIn, N!LastOut,
            N!UnlockCount
<1>1. /\ r \in N!Processes /\ Fits(r)
      /\ value \in [N!Names -> [N!Processes -> Int]] /\ step \in [N!Processes -> AllSteps]
      /\ object \in [N!Names -> N!Processes \cup {None}]
      /\ register \in [N!Processes -> Int] /\ late \in BOOLEAN
      /\ has[r] \in [N!Names -> N!Processes \cup {None}]
  BY ProcessTypes, FitsOne DEF Static, NTypeOK
<1>2. step[r] \in Working
  BY DEF Working, Locked
<1>3. /\ has[r][N!READERS_COUNT] \in N!Processes
      /\ has[r][N!READERS_SEMAPHORE] \in N!Processes
      /\ has[r][N!WRITERS_SEMAPHORE] \in N!Processes
  BY <1>1, <1>2, NameTypes DEF Fits, CountOf, LockOf, DoorOf
<1>4. value' \in [N!Names -> [N!Processes -> Int]]
  <2>1. CASE \E n \in N!Names : has[r][n] \in N!Processes /\ (N!Wait(r, n) \/ N!Post(r, n))
    BY <1>1, <2>1, WaitTakes, PostGives
  <2>2. CASE \E x \in Int : value' = [value EXCEPT ![N!READERS_COUNT][has[r][N!READERS_COUNT]] = x]
    BY <1>1, <1>3, <2>2, ValueSet, NameTypes
  <2>3. CASE value' = value
    BY <1>1, <2>3
  <2>4. CASE N!StoreCount(r)
    <3>1. register[r] + 1 \in Int /\ register[r] - 1 \in Int
      BY <1>1
    <3> QED
      BY <2>2, <2>4, <3>1
  <2> QED
    BY <1>3, <2>1, <2>3, <2>4, NameTypes
<1>5. PICK to \in Working : step' = [step EXCEPT ![r] = to]
  BY DEF Working, Locked
<1>6. has' = has /\ object' = object /\ late' = late
  OBVIOUS
<1>7. /\ register' \in [N!Processes -> Int]
      /\ \A q \in N!Processes \ {r} : register'[q] = register[q]
  <2>1. N!count(r) \in Int
    BY <1>1, <1>3, NameTypes DEF N!count
  <2> QED
    BY <1>1, <2>1
<1>8. Fits(r)'
  <2>1. step'[r] = to
    BY <1>1, <1>5
  <2>2. CountOf(r)' = CountOf(r) /\ LockOf(r)' = LockOf(r) /\ DoorOf(r)' = DoorOf(r)
    BY <1>6 DEF CountOf, LockOf, DoorOf
  <2> QED
    BY <1>1, <1>2, <2>1, <2>2, ProcessTypes
    DEF Fits, NoCount, NoDoor, NoLock, Working, Locked
<1>9. Static' /\ Others(r)
  BY <1>1, <1>4, <1>5, <1>6, <1>7, <1>8, StaysStatic DEF AllSteps
<1> QED
  BY <1>6, <1>9 DEF Kinds, InLoop

\* A process that ends keeps its objects; the names lose some.
LEMMA EndKind ==
  ASSUME Static, NEW p \in N!Processes, NEW to \in Gone, step' = [step EXCEPT ![p] = to],
         UNCHANGED <<has, value, register, late>>,
         \/ object' = object
         \/ \E n \in N!Names : object' = [object EXCEPT ![n] = None]
  PROVE  Static' /\ Kinds(p)
<1>1. step'[p] = to
  BY DEF Static, NTypeOK
<1>2. CountOf(p)' = CountOf(p) /\ LockOf(p)' = LockOf(p) /\ DoorOf(p)' = DoorOf(p)
  BY DEF CountOf, LockOf, DoorOf
<1>3. Fits(p)'
  BY <1>1 DEF Fits, NoCount, NoDoor, NoLock, Working, Locked, Gone
<1>4. /\ object' \in [N!Names -> N!Processes \cup {None}]
      /\ \A n \in N!Names : object'[n] \in {object[n], None}
  BY DEF Static, NTypeOK
<1>5. Static' /\ Others(p)
  BY <1>3, <1>4, StaysStatic DEF Static, NTypeOK, AllSteps
<1> QED
  BY <1>1, <1>2, <1>5 DEF Kinds, Quiet, Gone, Locked

LEMMA StepKind ==
  ASSUME Static, N!Next
  PROVE  Static' /\ \E p \in N!Processes : Kinds(p)
<1>1. ASSUME NEW r \in ComingReaders, N!reader(r) \/ N!ReaderFails(r)
      PROVE  Static' /\ Kinds(r)
  <2>1. CASE N!BusError(r) \/ N!ReaderFails(r)
    <3>1. PICK to \in Gone : step' = [step EXCEPT ![r] = to]
      BY <2>1 DEF N!BusError, N!ReaderFails, N!Goto, Gone
    <3> QED
      BY <2>1, <3>1, EndKind, ProcessTypes DEF N!BusError, N!ReaderFails, N!Kept
  <2> QED
    BY <1>1, <2>1, ReaderStartsKind, ReaderSemaphoresKind, ReaderLoopKind DEF N!reader
<1>2. ASSUME NEW p \in N!Processes, N!Interrupt(p) \/ N!Unlink(p)
      PROVE  Static' /\ Kinds(p)
  <2>1. PICK to \in Gone : step' = [step EXCEPT ![p] = to]
    BY <1>2 DEF N!Interrupt, N!Unlink, N!Goto, Gone
  <2>2. \/ object' = object
        \/ \E n \in N!Names : object' = [object EXCEPT ![n] = None]
    <3>1. CASE N!Interrupt(p)
      BY <3>1 DEF N!Interrupt
    <3>2. CASE N!Unlink(p)
      <4> DEFINE n == IF p \in ComingReaders THEN N!READERS_COUNT ELSE N!SHARED_MEM
                 m == IF p \in ComingReaders THEN N!READERS_SEMAPHORE ELSE N!WRITERS_SEMAPHORE
      <4>1. n \in N!Names /\ m \in N!Names
        BY NameTypes
      <4>2. object' = [object EXCEPT ![n] = None] \/ object' = [object EXCEPT ![m] = None]
        BY <3>2 DEF N!Unlink
      <4> HIDE DEF n, m
      <4> QED
        BY <4>1, <4>2
    <3> QED
      BY <1>2, <3>1, <3>2
  <2>3. UNCHANGED <<has, value, register, late>>
    BY <1>2 DEF N!Interrupt, N!Unlink, N!Kept
  <2> QED
    BY <2>1, <2>2, <2>3, EndKind
<1> QED
  BY <1>1, <1>2, WriterKind, ProcessTypes DEF N!Next

-----------------------------------------------------------------------------
\* The readers' semaphores

\* What the other readers are and have stays.
LEMMA OtherReaders ==
  ASSUME NEW p \in N!Processes, Others(p), NEW s \in ComingReaders, s # p
  PROVE  /\ step'[s] = step[s] /\ register'[s] = register[s]
         /\ CountOf(s)' = CountOf(s) /\ LockOf(s)' = LockOf(s) /\ DoorOf(s)' = DoorOf(s)
BY NameTypes, ProcessTypes DEF Others, CountOf, LockOf, DoorOf

LEMMA LoopObjects ==
  ASSUME Static, NEW r \in ComingReaders, step[r] \in Working
  PROVE  /\ r \in N!Processes /\ step[r] \in AllSteps
         /\ CountOf(r) \in ComingReaders /\ CountOf(r) \in N!Processes
         /\ LockOf(r) \in N!Processes /\ DoorOf(r) \in N!Processes
<1>1. r \in N!Processes /\ CountOf(r) # None /\ LockOf(r) # None /\ DoorOf(r) # None
  BY ProcessTypes DEF Static, StepsFit
<1> QED
  BY <1>1, NameTypes, ProcessTypes DEF Static, NTypeOK, CountOf, LockOf, DoorOf

\* What the steps in a reader's loop do to the semaphores and the count.
LoopFrame(r) ==
  /\ step[r] \in Working /\ step'[r] \in Working
  /\ \A s \in N!Processes :
       CountOf(s)' = CountOf(s) /\ LockOf(s)' = LockOf(s) /\ DoorOf(s)' = DoorOf(s)
  /\ \A c \in N!Processes \ {LockOf(r)} : LockVal(c)' = LockVal(c)
  /\ \A c \in N!Processes \ {DoorOf(r)} : DoorVal(c)' = DoorVal(c)
  /\ \A k \in N!Processes \ {CountOf(r)} : CountVal(k)' = CountVal(k)

LockSame(r)  == LockVal(LockOf(r))' = LockVal(LockOf(r))
DoorSame(r)  == DoorVal(DoorOf(r))' = DoorVal(DoorOf(r))
CountSame(r) == CountVal(CountOf(r))' = CountVal(CountOf(r))

Takes(r) ==
  /\ \/ step[r] = "enter" /\ step'[r] = "in"
     \/ step[r] = "work" /\ step'[r] = "out"
  /\ LockVal(LockOf(r)) > 0 /\ LockVal(LockOf(r))' = LockVal(LockOf(r)) - 1
  /\ DoorSame(r) /\ CountSame(r) /\ register' = register

Gives(r) ==
  /\ \/ step[r] = "open" /\ step'[r] = "work"
     \/ step[r] = "close" /\ step'[r] = "enter"
  /\ LockVal(LockOf(r))' = LockVal(LockOf(r)) + 1
  /\ DoorSame(r) /\ CountSame(r) /\ register' = register

Loads(r) ==
  /\ \/ step[r] = "in" /\ step'[r] = "increment"
     \/ step[r] = "out" /\ step'[r] = "decrement"
  /\ register'[r] = CountVal(CountOf(r))
  /\ LockSame(r) /\ DoorSame(r) /\ CountSame(r)

Stores(r, from, to, x) ==
  /\ step[r] = from /\ step'[r] = to /\ CountVal(CountOf(r))' = register[r] + x
  /\ LockSame(r) /\ DoorSame(r) /\ register' = register

ComesIn(r) ==
  /\ step[r] = "first" /\ step'[r] = "open"
  /\ IF CountVal(CountOf(r)) = 1
     THEN DoorVal(DoorOf(r)) > 0 /\ DoorVal(DoorOf(r))' = DoorVal(DoorOf(r)) - 1
     ELSE DoorSame(r)
  /\ LockSame(r) /\ CountSame(r) /\ register' = register

GoesOut(r) ==
  /\ step[r] = "last" /\ step'[r] = "close"
  /\ IF CountVal(CountOf(r)) = 0
     THEN DoorVal(DoorOf(r))' = DoorVal(DoorOf(r)) + 1
     ELSE DoorSame(r)
  /\ LockSame(r) /\ CountSame(r) /\ register' = register

LEMMA LoopEffect ==
  ASSUME Static, NEW r \in ComingReaders, InLoop(r)
  PROVE  /\ LoopFrame(r)
         /\ \/ Takes(r) \/ Gives(r) \/ Loads(r) \/ ComesIn(r) \/ GoesOut(r)
            \/ Stores(r, "increment", "first", 1) \/ Stores(r, "decrement", "last", -1)
<1> USE DEF N!Goto, N!Kept
<1>1. \/ N!LockCount(r) \/ N!LoadCount(r) \/ N!StoreCount(r)
      \/ N!FirstIn(r) \/ N!LastOut(r) \/ N!UnlockCount(r)
  BY ProcessTypes DEF InLoop
<1>2. step[r] \in Working
  BY <1>1 DEF N!LockCount, N!LoadCount, N!StoreCount, N!FirstIn, N!LastOut, N!UnlockCount,
              Working, Locked
<1>3. /\ r \in N!Processes /\ LockOf(r) \in N!Processes /\ DoorOf(r) \in N!Processes
      /\ CountOf(r) \in N!Processes
      /\ value \in [N!Names -> [N!Processes -> Int]] /\ step \in [N!Processes -> AllSteps]
      /\ register \in [N!Processes -> Int]
  BY <1>2, LoopObjects DEF Static, NTypeOK
<1>4. \A s \in N!Processes : CountOf(s)' = CountOf(s) /\ LockOf(s)' = LockOf(s)
                           /\ DoorOf(s)' = DoorOf(s)
  BY DEF InLoop, CountOf, LockOf, DoorOf
<1> USE DEF CountVal, LockVal, DoorVal, LoopFrame, LockSame, DoorSame, CountSame
<1>5. CASE N!LockCount(r)
  <2>1. LockOf(r) = has[r][N!READERS_SEMAPHORE] /\ N!Wait(r, N!READERS_SEMAPHORE)
    BY <1>5 DEF LockOf, N!LockCount
  <2>2. /\ LockVal(LockOf(r)) > 0 /\ value'[N!READERS_SEMAPHORE][LockOf(r)] = LockVal(LockOf(r)) - 1
        /\ \A m \in N!Names, d \in N!Processes :
             m # N!READERS_SEMAPHORE \/ d # LockOf(r) => value'[m][d] = value[m][d]
    BY <1>3, <2>1, WaitTakes, NameTypes
  <2> QED
    BY <1>2, <1>3, <1>4, <1>5, <2>2, NameTypes
    DEF N!LockCount, Takes, Working, Locked
<1>6. CASE N!UnlockCount(r)
  <2>1. LockOf(r) = has[r][N!READERS_SEMAPHORE] /\ N!Post(r, N!READERS_SEMAPHORE)
    BY <1>6 DEF LockOf, N!UnlockCount
  <2>2. /\ value'[N!READERS_SEMAPHORE][LockOf(r)] = LockVal(LockOf(r)) + 1
        /\ \A m \in N!Names, d \in N!Processes :
             m # N!READERS_SEMAPHORE \/ d # LockOf(r) => value'[m][d] = value[m][d]
    BY <1>3, <2>1, PostGives, NameTypes
  <2> QED
    BY <1>2, <1>3, <1>4, <1>6, <2>2, NameTypes
    DEF N!UnlockCount, Gives, Working, Locked
<1>7. CASE N!LoadCount(r)
  <2>1. N!count(r) = CountVal(CountOf(r))
    BY DEF N!count, CountOf
  <2> QED
    BY <1>2, <1>3, <1>4, <1>7, <2>1, NameTypes
    DEF N!LoadCount, Loads, Working, Locked
<1>8. CASE N!StoreCount(r)
  <2>1. PICK x \in Int :
          /\ value' = [value EXCEPT ![N!READERS_COUNT][CountOf(r)] = x]
          /\ \/ step[r] = "increment" /\ step'[r] = "first" /\ x = register[r] + 1
             \/ step[r] = "decrement" /\ step'[r] = "last" /\ x = register[r] - 1
    <3>1. register[r] + 1 \in Int /\ register[r] - 1 \in Int
      BY <1>3
    <3> QED
      BY <1>3, <1>8, <3>1 DEF N!StoreCount, CountOf
  <2>2. /\ value'[N!READERS_COUNT][CountOf(r)] = x
        /\ \A m \in N!Names, d \in N!Processes :
             m # N!READERS_COUNT \/ d # CountOf(r) => value'[m][d] = value[m][d]
    BY <1>3, <2>1, ValueSet, NameTypes
  <2> QED
    BY <1>2, <1>3, <1>4, <1>8, <2>1, <2>2, NameTypes
    DEF N!StoreCount, Stores, Working, Locked
<1>9. CASE N!FirstIn(r)
  <2>1. N!count(r) = CountVal(CountOf(r)) /\ DoorOf(r) = has[r][N!WRITERS_SEMAPHORE]
    BY DEF N!count, CountOf, DoorOf
  <2>2. CASE CountVal(CountOf(r)) = 1
    <3>1. N!Wait(r, N!WRITERS_SEMAPHORE)
      BY <1>9, <2>1, <2>2 DEF N!FirstIn
    <3>2. /\ DoorVal(DoorOf(r)) > 0
          /\ value'[N!WRITERS_SEMAPHORE][DoorOf(r)] = DoorVal(DoorOf(r)) - 1
          /\ \A m \in N!Names, d \in N!Processes :
               m # N!WRITERS_SEMAPHORE \/ d # DoorOf(r) => value'[m][d] = value[m][d]
      BY <1>3, <2>1, <3>1, WaitTakes, NameTypes
    <3> QED
      BY <1>2, <1>3, <1>4, <1>9, <2>2, <3>2, NameTypes
    DEF N!FirstIn, ComesIn, Working, Locked
  <2>3. CASE CountVal(CountOf(r)) # 1
    BY <1>2, <1>3, <1>4, <1>9, <2>1, <2>3, NameTypes
    DEF N!FirstIn, ComesIn, Working, Locked
  <2> QED
    BY <2>2, <2>3
<1>10. CASE N!LastOut(r)
  <2>1. N!count(r) = CountVal(CountOf(r)) /\ DoorOf(r) = has[r][N!WRITERS_SEMAPHORE]
    BY DEF N!count, CountOf, DoorOf
  <2>2. CASE CountVal(CountOf(r)) = 0
    <3>1. N!Post(r, N!WRITERS_SEMAPHORE)
      BY <1>10, <2>1, <2>2 DEF N!LastOut
    <3>2. /\ value'[N!WRITERS_SEMAPHORE][DoorOf(r)] = DoorVal(DoorOf(r)) + 1
          /\ \A m \in N!Names, d \in N!Processes :
               m # N!WRITERS_SEMAPHORE \/ d # DoorOf(r) => value'[m][d] = value[m][d]
      BY <1>3, <2>1, <3>1, PostGives, NameTypes
    <3> QED
      BY <1>2, <1>3, <1>4, <1>10, <2>2, <3>2, NameTypes
    DEF N!LastOut, GoesOut, Working, Locked
  <2>3. CASE CountVal(CountOf(r)) # 0
    BY <1>2, <1>3, <1>4, <1>10, <2>1, <2>3, NameTypes
    DEF N!LastOut, GoesOut, Working, Locked
  <2> QED
    BY <2>2, <2>3
<1> QED
  BY <1>1, <1>5, <1>6, <1>7, <1>8, <1>9, <1>10

LEMMA WriterEffect ==
  ASSUME Static, NEW w \in ComingWriters, InLoop(w)
  PROVE  /\ DoorOf(w) \in N!Processes
         /\ \A q \in N!Processes :
              CountOf(q)' = CountOf(q) /\ LockOf(q)' = LockOf(q) /\ DoorOf(q)' = DoorOf(q)
         /\ \A c \in N!Processes :
              /\ CountVal(c)' = CountVal(c) /\ LockVal(c)' = LockVal(c)
              /\ c # DoorOf(w) => DoorVal(c)' = DoorVal(c)
         /\ \/ /\ step[w] = "wait" /\ step'[w] = "work"
               /\ DoorVal(DoorOf(w)) > 0 /\ DoorVal(DoorOf(w))' = DoorVal(DoorOf(w)) - 1
            \/ /\ step[w] = "work" /\ step'[w] = "wait"
               /\ DoorVal(DoorOf(w))' = DoorVal(DoorOf(w)) + 1
<1>1. w \in N!Processes /\ w \notin ComingReaders /\ N!WriterWorks(w) /\ has' = has
  BY ProcessTypes DEF InLoop
<1>2. step[w] \in {"wait", "work"}
  BY <1>1 DEF N!WriterWorks, N!Goto
<1>3. /\ DoorOf(w) \in N!Processes /\ DoorOf(w) = has[w][N!WRITERS_SEMAPHORE]
      /\ value \in [N!Names -> [N!Processes -> Int]] /\ step \in [N!Processes -> AllSteps]
  BY <1>1, <1>2, NameTypes DEF Static, NTypeOK, StepsFit, DoorOf
<1>4. CASE step[w] = "wait"
  <2>1. N!Wait(w, N!WRITERS_SEMAPHORE) /\ step'[w] = "work"
    BY <1>1, <1>3, <1>4 DEF N!WriterWorks, N!Goto
  <2>2. /\ DoorVal(DoorOf(w)) > 0
        /\ value'[N!WRITERS_SEMAPHORE][DoorOf(w)] = DoorVal(DoorOf(w)) - 1
        /\ \A m \in N!Names, c \in N!Processes :
             m # N!WRITERS_SEMAPHORE \/ c # DoorOf(w) => value'[m][c] = value[m][c]
    BY <1>1, <1>3, <2>1, WaitTakes, NameTypes DEF DoorVal
  <2> QED
    BY <1>1, <1>3, <1>4, <2>1, <2>2, NameTypes
    DEF CountOf, LockOf, DoorOf, CountVal, LockVal, DoorVal
<1>5. CASE step[w] = "work"
  <2>1. N!Post(w, N!WRITERS_SEMAPHORE) /\ step'[w] = "wait"
    BY <1>1, <1>3, <1>5 DEF N!WriterWorks, N!Goto
  <2>2. /\ value'[N!WRITERS_SEMAPHORE][DoorOf(w)] = DoorVal(DoorOf(w)) + 1
        /\ \A m \in N!Names, c \in N!Processes :
             m # N!WRITERS_SEMAPHORE \/ c # DoorOf(w) => value'[m][c] = value[m][c]
    BY <1>1, <1>3, <2>1, PostGives, NameTypes DEF DoorVal
  <2> QED
    BY <1>1, <1>3, <1>5, <2>1, <2>2, NameTypes
    DEF CountOf, LockOf, DoorOf, CountVal, LockVal, DoorVal
<1> QED
  BY <1>2, <1>4, <1>5

\* The objects a process has, and what is in them.
LEMMA ObjectTypes ==
  ASSUME Static
  PROVE  /\ \A c \in N!Processes :
              CountVal(c) \in Int /\ LockVal(c) \in Int /\ DoorVal(c) \in Int
         /\ \A p \in N!Processes :
              /\ CountOf(p) \in ComingReaders \cup {None}
              /\ LockOf(p) \in N!Processes \cup {None} /\ DoorOf(p) \in N!Processes \cup {None}
BY NameTypes DEF Static, NTypeOK, CountVal, LockVal, DoorVal, CountOf, LockOf, DoorOf

\* The semaphore a process is about to open is not called after it.
LEMMA NotYetMade ==
  ASSUME Static, NEW p \in N!Processes, NEW q \in N!Processes
  PROVE  /\ LockOf(p) = None => LockOf(q) # p
         /\ DoorOf(p) = None => DoorOf(q) # p
BY ProcessTypes DEF Static, NamesInv, Shared, LockOf, DoorOf

LEMMA LockKept ==
  ASSUME Static, Static', LockInv, NEW p \in N!Processes, Kinds(p)
  PROVE  LockInv'
<1>1. \A s \in ComingReaders : s # p => step'[s] = step[s] /\ LockOf(s)' = LockOf(s)
  BY OtherReaders DEF Kinds, Quiet, Opens, InLoop
<1>2. \A s \in ComingReaders : s \in N!Processes
  BY ProcessTypes
<1>3. \A s \in ComingReaders : step[s] \in Locked => LockOf(s) \in N!Processes
  BY LoopObjects DEF Working
<1>4. CASE Quiet(p)
  <2>1. \A c \in N!Processes : LockVal(c)' = LockVal(c)
    BY <1>4, NameTypes DEF Quiet, LockVal
  <2>2. step'[p] \notin Locked
    BY <1>4 DEF Quiet
  <2> QED
    BY <1>1, <1>3, <2>1, <2>2 DEF LockInv
<1>5. CASE Opens(p, N!READERS_SEMAPHORE)
  <2>1. \A c \in N!Processes : LockVal(c)' = LockVal(c) \/ (c = p /\ LockVal(c)' = 1)
    BY <1>5, NameTypes DEF Opens, LockVal
  <2>2. step'[p] \notin Locked /\ LockOf(p) = None
    BY <1>5 DEF Opens, LockOf
  <2>3. \A s \in ComingReaders : LockOf(s) # p
    BY <1>2, <2>2, NotYetMade
  <2> QED
    BY <1>1, <1>3, <2>1, <2>2, <2>3 DEF LockInv
<1>6. CASE Opens(p, N!WRITERS_SEMAPHORE)
  <2>1. \A c \in N!Processes : LockVal(c)' = LockVal(c)
    BY <1>6, NameTypes DEF Opens, LockVal
  <2>2. step'[p] \notin Locked
    BY <1>6 DEF Opens
  <2> QED
    BY <1>1, <1>3, <2>1, <2>2 DEF LockInv
<1>7. CASE InLoop(p) /\ p \in ComingWriters
  <2>1. \A c \in N!Processes : LockVal(c)' = LockVal(c)
    BY <1>7, WriterEffect
  <2>2. p \notin ComingReaders
    BY <1>7, ProcessTypes
  <2> QED
    BY <1>1, <1>3, <2>1, <2>2 DEF LockInv
<1>8. CASE InLoop(p) /\ p \in ComingReaders
  <2>1. LoopFrame(p) /\ LockOf(p) \in N!Processes /\ LockOf(p)' = LockOf(p)
    BY <1>8, LoopEffect, LoopObjects DEF LoopFrame
  <2>2. \A c \in N!Processes \ {LockOf(p)} : LockVal(c)' = LockVal(c)
    BY <2>1 DEF LoopFrame
  <2>3. CASE Takes(p)
    BY <1>1, <1>3, <1>8, <2>1, <2>2, <2>3 DEF LockInv, Takes
  <2>4. CASE Gives(p)
    <3>1. step[p] \in Locked /\ step'[p] \notin Locked /\ LockVal(LockOf(p))' = 1
      BY <1>8, <2>4 DEF Gives, LockInv, Locked
    <3> QED
      BY <1>1, <1>3, <1>8, <2>1, <2>2, <3>1 DEF LockInv
  <2>5. CASE LockSame(p) /\ step[p] \in Locked /\ step'[p] \in Locked
    BY <1>1, <1>3, <1>8, <2>1, <2>2, <2>5 DEF LockInv, LockSame
  <2>6. Takes(p) \/ Gives(p) \/ (LockSame(p) /\ step[p] \in Locked /\ step'[p] \in Locked)
    BY <1>8, LoopEffect DEF Loads, ComesIn, GoesOut, Stores, Locked
  <2> QED
    BY <2>3, <2>4, <2>5, <2>6
<1> QED
  BY <1>4, <1>5, <1>6, <1>7, <1>8, ProcessTypes DEF Kinds

-----------------------------------------------------------------------------
\* The count and the writers' semaphore

\* A reader opens each object once: who agree now have agreed before.
LEMMA AgreedBefore ==
  ASSUME Static, NEW p \in N!Processes, Kinds(p), Agreed'
  PROVE  /\ \A s \in ComingReaders : CountOf(s) # None => CountOf(s)' = CountOf(s)
         /\ \A s \in ComingReaders : LockOf(s) # None => LockOf(s)' = LockOf(s)
         /\ \A s \in ComingReaders : DoorOf(s) # None => DoorOf(s)' = DoorOf(s)
         /\ Agreed
<1>1. ASSUME NEW s \in ComingReaders
      PROVE  /\ CountOf(s) # None => CountOf(s)' = CountOf(s)
             /\ LockOf(s) # None => LockOf(s)' = LockOf(s)
             /\ DoorOf(s) # None => DoorOf(s)' = DoorOf(s)
  <2>1. CASE s # p
    BY <2>1, OtherReaders DEF Kinds, Quiet, Opens, InLoop
  <2>2. CASE s = p /\ Quiet(p)
    BY <2>2 DEF Static, StepsFit, Quiet
  <2>3. CASE s = p /\ \E n \in Shared : Opens(p, n)
    BY <2>3 DEF Opens, Shared, CountOf, LockOf, DoorOf
  <2>4. CASE s = p /\ InLoop(p)
    BY <2>4 DEF InLoop, CountOf, LockOf, DoorOf
  <2> QED
    BY <2>1, <2>2, <2>3, <2>4 DEF Kinds, Shared
<1>2. ASSUME NEW r \in ComingReaders, NEW s \in ComingReaders,
             CountOf(r) = CountOf(s), CountOf(r) # None
      PROVE  /\ LockOf(r) # None /\ LockOf(s) # None => LockOf(r) = LockOf(s)
             /\ DoorOf(r) # None /\ DoorOf(s) # None => DoorOf(r) = DoorOf(s)
  <2>1. /\ CountOf(r)' = CountOf(s)' /\ CountOf(r)' # None
        /\ LockOf(r) # None => LockOf(r)' = LockOf(r)
        /\ LockOf(s) # None => LockOf(s)' = LockOf(s)
        /\ DoorOf(r) # None => DoorOf(r)' = DoorOf(r)
        /\ DoorOf(s) # None => DoorOf(s)' = DoorOf(s)
    BY <1>1, <1>2
  <2>2. /\ LockOf(r)' # None /\ LockOf(s)' # None => LockOf(r)' = LockOf(s)'
        /\ DoorOf(r)' # None /\ DoorOf(s)' # None => DoorOf(r)' = DoorOf(s)'
    BY <2>1 DEF Agreed
  <2> QED
    BY <2>1, <2>2
<1> QED
  BY <1>1, <1>2 DEF Agreed

\* Two readers of one count are not both under the semaphore.
LEMMA OneUnderLock ==
  ASSUME Static, LockInv, Agreed, NEW r \in ComingReaders, NEW s \in ComingReaders,
         step[r] \in Locked, step[s] \in Locked, CountOf(r) = CountOf(s)
  PROVE  r = s
BY LoopObjects, ProcessTypes DEF Working, LockInv, Agreed

LEMMA AliveFinite ==
  ASSUME NEW k
  PROVE  /\ IsFiniteSet(Alive(k)) /\ Cardinality(Alive(k)) \in Nat
         /\ Cardinality(Alive(k)) = 0 => Alive(k) = {}
<1>1. Alive(k) \subseteq ComingReaders /\ IsFiniteSet(ComingReaders)
  BY ComingAssumption DEF Alive
<1> QED
  BY <1>1, FS_Subset, FS_CardinalityType, FS_EmptySet

\* What the steps do to those who are counted in.
LEMMA CountKept ==
  ASSUME Static, CountInv, NEW p \in N!Processes, Others(p),
         \A s \in ComingReaders : CountOf(s) # None => CountOf(s)' = CountOf(s),
         \A s \in ComingReaders : LockOf(s) # None => LockOf(s)' = LockOf(s),
         \A s \in ComingReaders : DoorOf(s) # None => DoorOf(s)' = DoorOf(s),
         \A k \in ComingReaders : CountVal(k)' = CountVal(k),
         p \in ComingReaders =>
           /\ step'[p] \in CountedIn => step[p] \in CountedIn
           /\ step'[p] \in {"increment", "decrement"} => register'[p] = CountVal(CountOf(p))'
  PROVE  CountInv'
<1>1. ASSUME NEW s \in ComingReaders, s # p
      PROVE  /\ step'[s] = step[s] /\ register'[s] = register[s] /\ CountOf(s)' = CountOf(s)
             /\ step[s] \in Working => CountOf(s) \in ComingReaders
  BY <1>1, OtherReaders, LoopObjects
<1>2. ASSUME NEW k \in ComingReaders
      PROVE  /\ CountVal(k)' >= Cardinality(Alive(k))'
             /\ CountVal(k)' > 0 =>
                  \E s \in ComingReaders : CountOf(s)' = k /\ LockOf(s)' # None /\ DoorOf(s)' # None
  <2>1. Alive(k)' \subseteq Alive(k)
    <3>1. ASSUME NEW s \in ComingReaders, step'[s] \in CountedIn, CountOf(s)' = k
          PROVE  step[s] \in CountedIn /\ CountOf(s) = k
      <4>1. step[s] \in CountedIn
        BY <1>1, <3>1
      <4>2. CountOf(s) # None
        BY <4>1, LoopObjects, ProcessTypes DEF CountedIn, Working, Locked
      <4> QED
        BY <3>1, <4>1, <4>2
    <3> QED
      BY <3>1 DEF Alive
  <2>2. /\ Cardinality(Alive(k))' <= Cardinality(Alive(k))
        /\ Cardinality(Alive(k))' \in Nat /\ Cardinality(Alive(k)) \in Nat
    BY <2>1, AliveFinite, FS_Subset, FS_CardinalityType
  <2>3. CountVal(k) \in Int /\ CountVal(k)' = CountVal(k) /\ CountVal(k) >= Cardinality(Alive(k))
    BY ObjectTypes, ProcessTypes DEF CountInv
  <2>4. ASSUME CountVal(k)' > 0
        PROVE  \E s \in ComingReaders : CountOf(s)' = k /\ LockOf(s)' # None /\ DoorOf(s)' # None
    <3>1. PICK s \in ComingReaders : CountOf(s) = k /\ LockOf(s) # None /\ DoorOf(s) # None
      BY <2>3, <2>4 DEF CountInv
    <3>2. k # None
      BY ProcessTypes
    <3> QED
      BY <3>1, <3>2
  <2> QED
    BY <2>2, <2>3, <2>4
<1>3. ASSUME NEW r \in ComingReaders, step'[r] \in {"increment", "decrement"}
      PROVE  register'[r] = CountVal(CountOf(r))'
  <2>1. CASE r # p
    <3>1. /\ step[r] \in {"increment", "decrement"} /\ register'[r] = register[r]
          /\ CountOf(r)' = CountOf(r)
      BY <1>1, <1>3, <2>1
    <3>2. CountOf(r) \in ComingReaders /\ register[r] = CountVal(CountOf(r))
      BY <3>1, LoopObjects DEF CountInv, Working, Locked
    <3>3. CountVal(CountOf(r))' = CountVal(CountOf(r))
      BY <3>1, <3>2 DEF CountVal
    <3> QED
      BY <3>1, <3>2, <3>3
  <2> QED
    BY <1>3, <2>1
<1> QED
  BY <1>2, <1>3 DEF CountInv

LEMMA CountStored ==
  ASSUME Static, LockInv, Agreed, CountInv, NEW r \in ComingReaders, InLoop(r), LoopFrame(r),
         \/ Stores(r, "increment", "first", 1) \/ Stores(r, "decrement", "last", -1)
  PROVE  /\ CountInv'
         /\ step[r] = "increment" => CountVal(CountOf(r))' = CountVal(CountOf(r)) + 1
         /\ step[r] = "decrement" => CountVal(CountOf(r))' = CountVal(CountOf(r)) - 1
<1> DEFINE k == CountOf(r)
<1>1. /\ r \in N!Processes /\ k \in ComingReaders /\ k \in N!Processes
      /\ LockOf(r) # None /\ DoorOf(r) # None /\ step[r] \in Locked
      /\ CountVal(k) \in Int /\ register[r] = CountVal(k)
  BY LoopObjects, ObjectTypes, ProcessTypes DEF Working, Stores, Locked, CountInv
<1>2. ASSUME NEW s \in ComingReaders
      PROVE  /\ CountOf(s)' = CountOf(s) /\ LockOf(s)' = LockOf(s) /\ DoorOf(s)' = DoorOf(s)
             /\ s # r => step'[s] = step[s] /\ register'[s] = register[s]
  BY <1>1, ProcessTypes, OtherReaders DEF LoopFrame, InLoop
<1>3. \A j \in ComingReaders \ {k} : CountVal(j)' = CountVal(j)
  BY ProcessTypes DEF LoopFrame
<1>4. /\ step[r] = "increment" => step'[r] = "first" /\ CountVal(k)' = CountVal(k) + 1
      /\ step[r] = "decrement" => step'[r] = "last" /\ CountVal(k)' = CountVal(k) - 1
      /\ step[r] \in {"increment", "decrement"}
  <2>1. CountVal(CountOf(r))' = CountVal(k)'
    BY <1>2 DEF CountVal
  <2> QED
    BY <1>1, <2>1 DEF Stores
<1>5. ASSUME NEW j \in ComingReaders \ {k} PROVE Alive(j)' = Alive(j)
  BY <1>2, <1>5 DEF Alive
<1>6. /\ step[r] = "increment" => Alive(k)' = Alive(k) \cup {r} /\ r \notin Alive(k)
      /\ step[r] = "decrement" => Alive(k)' = Alive(k) \ {r} /\ r \in Alive(k)
  BY <1>2, <1>4 DEF Alive, CountedIn
<1>7. CountVal(k)' >= Cardinality(Alive(k))'
  <2>1. CountVal(k) >= Cardinality(Alive(k)) /\ Cardinality(Alive(k)) \in Nat
    BY <1>1, AliveFinite DEF CountInv
  <2>2. CASE step[r] = "increment"
    <3>1. Cardinality(Alive(k))' = Cardinality(Alive(k)) + 1
      BY <1>6, <2>2, AliveFinite, FS_AddElement
    <3> QED
      BY <1>1, <1>4, <2>1, <2>2, <3>1
  <2>3. CASE step[r] = "decrement"
    <3>1. Cardinality(Alive(k))' = Cardinality(Alive(k)) - 1
      BY <1>6, <2>3, AliveFinite, FS_RemoveElement
    <3> QED
      BY <1>1, <1>4, <2>1, <2>3, <3>1
  <2> QED
    BY <1>4, <2>2, <2>3
<1>8. ASSUME NEW j \in ComingReaders
      PROVE  /\ CountVal(j)' >= Cardinality(Alive(j))'
             /\ CountVal(j)' > 0 =>
                  \E s \in ComingReaders : CountOf(s)' = j /\ LockOf(s)' # None /\ DoorOf(s)' # None
  <2>1. CASE j = k
    BY <1>1, <1>2, <1>7, <2>1
  <2>2. CASE j # k
    <3>1. CountVal(j)' = CountVal(j) /\ Alive(j)' = Alive(j)
      BY <1>3, <1>5, <2>2
    <3> QED
      BY <1>2, <3>1 DEF CountInv
  <2> QED
    BY <2>1, <2>2
<1>9. ASSUME NEW s \in ComingReaders, step'[s] \in {"increment", "decrement"}
      PROVE  register'[s] = CountVal(CountOf(s))'
  <2>1. s # r
    BY <1>4, <1>9
  <2>2. /\ step[s] \in {"increment", "decrement"} /\ register'[s] = register[s]
        /\ CountOf(s)' = CountOf(s)
    BY <1>2, <1>9, <2>1
  <2>3. CountOf(s) \in ComingReaders /\ register[s] = CountVal(CountOf(s))
    BY <2>2, LoopObjects DEF CountInv, Working, Locked
  <2>4. CountOf(s) # k
    BY <1>1, <2>1, <2>2, OneUnderLock DEF Locked
  <2>5. CountVal(CountOf(s))' = CountVal(CountOf(s))
    BY <1>3, <2>2, <2>3, <2>4 DEF CountVal
  <2> QED
    BY <2>2, <2>3, <2>5
<1>10. CountInv'
  BY <1>8, <1>9 DEF CountInv
<1> QED
  <2>1. CountVal(CountOf(r))' = CountVal(k)'
    BY <1>2 DEF CountVal
  <2> QED
    BY <1>4, <1>10, <2>1

\* Who owns what stays in order as long as nobody gets a semaphore that is not
\* taken for him, ...
LEMMA DoorStays ==
  ASSUME DoorInv, \A c \in N!Processes : DoorVal(c)' = DoorVal(c),
         \A x, c \in N!Processes : Owns(x, c)' => Owns(x, c)
  PROVE  DoorInv'
BY DEF DoorInv

\* ... whoever takes one takes it from nobody, ...
LEMMA DoorTaken ==
  ASSUME DoorInv, NEW o \in N!Processes, NEW d \in N!Processes,
         DoorVal(d) > 0, DoorVal(d)' = DoorVal(d) - 1,
         \A c \in N!Processes \ {d} : DoorVal(c)' = DoorVal(c),
         \A x, c \in N!Processes : Owns(x, c)' => Owns(x, c) \/ (x = o /\ c = d)
  PROVE  DoorInv'
<1>1. DoorVal(d) = 1 /\ DoorVal(d)' = 0 /\ \A x \in N!Processes : ~Owns(x, d)
  BY DEF DoorInv
<1> QED
  BY <1>1 DEF DoorInv

\* ... whoever gives one away had it, ...
LEMMA DoorGiven ==
  ASSUME DoorInv, NEW o \in N!Processes, NEW d \in N!Processes,
         Owns(o, d), ~Owns(o, d)', DoorVal(d)' = DoorVal(d) + 1,
         \A c \in N!Processes \ {d} : DoorVal(c)' = DoorVal(c),
         \A x, c \in N!Processes : Owns(x, c)' => Owns(x, c)
  PROVE  DoorInv'
<1>1. DoorVal(d)' = 1 /\ \A x \in N!Processes : ~Owns(x, d)'
  BY DEF DoorInv
<1> QED
  BY <1>1 DEF DoorInv

\* ... and a new one belongs to nobody.
LEMMA DoorMade ==
  ASSUME DoorInv, NEW d \in N!Processes, DoorVal(d)' = 1,
         \A x \in N!Processes : ~Owns(x, d),
         \A c \in N!Processes \ {d} : DoorVal(c)' = DoorVal(c),
         \A x, c \in N!Processes : Owns(x, c)' => Owns(x, c)
  PROVE  DoorInv'
BY DEF DoorInv

\* A step of p leaves the writers' semaphores of the other writers alone.
LEMMA WritersOwn ==
  ASSUME NEW p \in N!Processes, Others(p), NEW x \in N!Processes, NEW c \in N!Processes,
         x \in ComingWriters, x # p
  PROVE  Owns(x, c)' <=> Owns(x, c)
BY NameTypes, ProcessTypes DEF Owns, Others, DoorOf

\* p, who starts or ends, gets nothing.
LEMMA DoorQuiet ==
  ASSUME Static, LockInv, Agreed, DoorInv, NEW p \in N!Processes, Quiet(p), ~late'
  PROVE  DoorInv' /\ \A k \in N!Processes : CountVal(k)' = CountVal(k)
<1>1. /\ Others(p) /\ step'[p] \notin Locked \cup {"work"}
      /\ \A c \in N!Processes : /\ DoorVal(c)' = DoorVal(c) /\ LockVal(c)' = LockVal(c)
                                /\ CountVal(c)' = CountVal(c)
      /\ LockOf(p)' = LockOf(p) /\ DoorOf(p)' = DoorOf(p)
      /\ CountOf(p)' = CountOf(p) \/ (LockOf(p) = None /\ DoorOf(p) = None /\ p # None)
  BY NameTypes, ProcessTypes DEF Quiet, DoorVal, LockVal, CountVal, Static, StepsFit, NoDoor, NoLock
<1>2. ASSUME NEW s \in ComingReaders, s # p
      PROVE  /\ step'[s] = step[s] /\ CountOf(s)' = CountOf(s) /\ LockOf(s)' = LockOf(s)
             /\ DoorOf(s)' = DoorOf(s)
  BY <1>1, <1>2, OtherReaders
<1>3. \A s \in ComingReaders : LockOf(s) \in N!Processes \cup {None} /\ s \in N!Processes
  BY ObjectTypes, ProcessTypes
<1>4. ASSUME NEW x \in ComingReaders, Usable(x)' PROVE Usable(x)
  <2>1. PICK s \in ComingReaders :
          /\ CountOf(s)' = x /\ LockOf(s)' # None
          /\ \/ LockVal(LockOf(s))' = 1
             \/ \E r \in ComingReaders : step'[r] \in Locked /\ LockOf(r)' = LockOf(s)'
    BY <1>4 DEF Usable
  <2>2. CountOf(s) = x /\ LockOf(s)' = LockOf(s) /\ LockOf(s) # None
    BY <1>1, <1>2, <2>1
  <2>3. LockVal(LockOf(s))' = LockVal(LockOf(s))
    BY <1>1, <1>3, <2>2 DEF LockVal
  <2>4. ASSUME NEW r \in ComingReaders, step'[r] \in Locked, LockOf(r)' = LockOf(s)'
        PROVE  step[r] \in Locked /\ LockOf(r) = LockOf(s)
    BY <1>1, <1>2, <2>2, <2>4
  <2> QED
    BY <2>1, <2>2, <2>3, <2>4 DEF Usable
<1>5. ASSUME NEW x \in ComingReaders, GroupOwns(x)' PROVE GroupOwns(x)
  <2>1. CASE \E r \in ComingReaders : step'[r] \in LetIn /\ CountOf(r)' = x
    BY <1>1, <1>2, <2>1 DEF GroupOwns, LetIn, Locked
  <2>2. CASE /\ CountVal(x)' > 0 /\ Usable(x)'
             /\ CountVal(x)' = 1 => \A r \in ComingReaders : step'[r] = "first" => CountOf(r)' # x
    <3>1. CountVal(x) > 0 /\ Usable(x) /\ CountVal(x)' = CountVal(x)
      BY <1>1, <1>4, <2>2, ProcessTypes
    <3>2. ASSUME p \in ComingReaders, step[p] = "first", CountOf(p) = x PROVE FALSE
      <4>1. LockOf(p) \in N!Processes /\ LockVal(LockOf(p)) = 0
        BY <3>2, LoopObjects DEF Working, Locked, LockInv
      <4>2. PICK s \in ComingReaders :
              /\ CountOf(s)' = x /\ LockOf(s)' # None
              /\ \/ LockVal(LockOf(s))' = 1
                 \/ \E r \in ComingReaders : step'[r] \in Locked /\ LockOf(r)' = LockOf(s)'
        BY <2>2 DEF Usable
      <4>3. CountOf(s) = x /\ LockOf(s)' = LockOf(s) /\ LockOf(s) # None
        BY <1>1, <1>2, <4>2
      <4>4. LockOf(s) = LockOf(p)
        BY <3>2, <4>1, <4>3, ProcessTypes DEF Agreed
      <4>5. LockVal(LockOf(s))' = 0
        BY <1>1, <4>1, <4>3, <4>4 DEF LockVal
      <4>6. PICK r \in ComingReaders : step'[r] \in Locked /\ LockOf(r)' = LockOf(s)'
        BY <4>2, <4>5
      <4>7. r # p /\ step[r] \in Locked /\ LockOf(r) = LockOf(p)
        BY <1>1, <1>2, <4>3, <4>4, <4>6
      <4> QED
        BY <3>2, <4>7 DEF LockInv, Locked
    <3>3. CountVal(x) = 1 => \A r \in ComingReaders : step[r] = "first" => CountOf(r) # x
      BY <1>2, <2>2, <3>1, <3>2
    <3> QED
      BY <3>1, <3>3 DEF GroupOwns
  <2> QED
    BY <1>5, <2>1, <2>2 DEF GroupOwns
<1>6. ASSUME NEW x \in N!Processes, NEW c \in N!Processes, Owns(x, c)' PROVE Owns(x, c)
  <2>1. CASE x \in ComingWriters
    <3>1. step'[x] = "work"
      BY <1>6, <2>1, ProcessTypes DEF Owns
    <3> QED
      BY <1>1, <1>6, <2>1, <3>1, WritersOwn
  <2>2. CASE x \in ComingReaders
    <3>1. PICK s \in ComingReaders : CountOf(s)' = x /\ DoorOf(s)' = c
      BY <1>6, <2>2, ProcessTypes DEF Owns
    <3>2. CountOf(s) = x /\ DoorOf(s) = c
      BY <1>1, <1>2, <3>1, ProcessTypes
    <3> QED
      BY <1>5, <1>6, <2>2, <3>2, ProcessTypes DEF Owns
  <2> QED
    BY <2>1, <2>2, ProcessTypes
<1> QED
  BY <1>1, <1>6, DoorStays

\* A process that opens a readers' semaphore gets no count's writers' semaphore: a
\* new readers' semaphore is not that of a count that is used.
LEMMA DoorLockOpened ==
  ASSUME Static, LockInv, Agreed', CountInv, DoorInv,
         NEW p \in N!Processes, Opens(p, N!READERS_SEMAPHORE)
  PROVE  DoorInv' /\ \A k \in N!Processes : CountVal(k)' = CountVal(k)
<1>1. /\ Others(p) /\ step[p] \notin Locked \cup {"work"} /\ step'[p] \notin Locked \cup {"work"}
      /\ \A c \in N!Processes : /\ DoorVal(c)' = DoorVal(c) /\ CountVal(c)' = CountVal(c)
                                /\ c # p => LockVal(c)' = LockVal(c)
      /\ LockOf(p) = None /\ DoorOf(p)' = DoorOf(p) /\ CountOf(p)' = CountOf(p)
  BY NameTypes DEF Opens, DoorVal, LockVal, CountVal, LockOf, DoorOf, CountOf, Shared
<1>2. ASSUME NEW s \in ComingReaders
      PROVE  /\ CountOf(s)' = CountOf(s) /\ DoorOf(s)' = DoorOf(s)
             /\ s # p => step'[s] = step[s] /\ LockOf(s)' = LockOf(s)
  BY <1>1, OtherReaders
<1>3. \A s \in ComingReaders :
        /\ LockOf(s) \in N!Processes \cup {None} /\ s \in N!Processes /\ LockOf(s) # p
  BY <1>1, ObjectTypes, ProcessTypes, NotYetMade
<1>4. ASSUME NEW x \in ComingReaders, CountVal(x) > 0, Usable(x)' PROVE Usable(x)
  <2>1. PICK s \in ComingReaders :
          /\ CountOf(s)' = x /\ LockOf(s)' # None
          /\ \/ LockVal(LockOf(s))' = 1
             \/ \E r \in ComingReaders : step'[r] \in Locked /\ LockOf(r)' = LockOf(s)'
    BY <1>4 DEF Usable
  <2>2. PICK t \in ComingReaders : CountOf(t) = x /\ LockOf(t) # None
    BY <1>4 DEF CountInv
  <2>3. t # p /\ CountOf(t)' = x /\ LockOf(t)' = LockOf(t) /\ x # None
    BY <1>1, <1>2, <2>2, ProcessTypes
  <2>4. LockOf(s)' = LockOf(t)
    BY <2>1, <2>2, <2>3 DEF Agreed
  <2>5. LockVal(LockOf(s))' = LockVal(LockOf(t))
    <3>1. LockVal(LockOf(t))' = LockVal(LockOf(t))
      BY <1>1, <1>3, <2>2, <2>3 DEF LockVal
    <3> QED
      BY <2>3, <2>4, <3>1 DEF LockVal
  <2>6. ASSUME NEW r \in ComingReaders, step'[r] \in Locked, LockOf(r)' = LockOf(s)'
        PROVE  step[r] \in Locked /\ LockOf(r) = LockOf(t)
    BY <1>1, <1>2, <2>4, <2>6
  <2> QED
    BY <2>1, <2>2, <2>5, <2>6 DEF Usable
<1>5. ASSUME NEW x \in ComingReaders, GroupOwns(x)' PROVE GroupOwns(x)
  <2>1. CASE \E r \in ComingReaders : step'[r] \in LetIn /\ CountOf(r)' = x
    BY <1>1, <1>2, <2>1 DEF GroupOwns, LetIn, Locked
  <2>2. CASE /\ CountVal(x)' > 0 /\ Usable(x)'
             /\ CountVal(x)' = 1 => \A r \in ComingReaders : step'[r] = "first" => CountOf(r)' # x
    <3>1. CountVal(x) > 0 /\ Usable(x) /\ CountVal(x)' = CountVal(x)
      BY <1>1, <1>4, <2>2, ProcessTypes
    <3>2. CountVal(x) = 1 => \A r \in ComingReaders : step[r] = "first" => CountOf(r) # x
      BY <1>1, <1>2, <2>2, <3>1 DEF Locked
    <3> QED
      BY <3>1, <3>2 DEF GroupOwns
  <2> QED
    BY <1>5, <2>1, <2>2 DEF GroupOwns
<1>6. ASSUME NEW x \in N!Processes, NEW c \in N!Processes, Owns(x, c)' PROVE Owns(x, c)
  <2>1. CASE x \in ComingWriters
    <3>1. step'[x] = "work"
      BY <1>6, <2>1, ProcessTypes DEF Owns
    <3> QED
      BY <1>1, <1>6, <2>1, <3>1, WritersOwn
  <2>2. CASE x \in ComingReaders
    BY <1>2, <1>5, <1>6, <2>2, ProcessTypes DEF Owns
  <2> QED
    BY <2>1, <2>2, ProcessTypes
<1> QED
  BY <1>1, <1>6, DoorStays

\* Nor does one that opens a writers' semaphore: a new one is not that of a count
\* that is used.
LEMMA DoorOpened ==
  ASSUME Static, LockInv, Agreed', CountInv, DoorInv,
         NEW p \in N!Processes, Opens(p, N!WRITERS_SEMAPHORE)
  PROVE  DoorInv' /\ \A k \in N!Processes : CountVal(k)' = CountVal(k)
<1>1. /\ Others(p) /\ step[p] \notin Locked \cup {"work"} /\ step'[p] \notin Locked \cup {"work"}
      /\ \A c \in N!Processes : LockVal(c)' = LockVal(c) /\ CountVal(c)' = CountVal(c)
      /\ DoorOf(p) = None /\ LockOf(p)' = LockOf(p) /\ CountOf(p)' = CountOf(p)
      /\ \/ \A c \in N!Processes : DoorVal(c)' = DoorVal(c)
         \/ DoorVal(p)' = 1 /\ \A c \in N!Processes \ {p} : DoorVal(c)' = DoorVal(c)
  BY NameTypes DEF Opens, DoorVal, LockVal, CountVal, LockOf, DoorOf, CountOf, Shared
<1>2. ASSUME NEW s \in ComingReaders
      PROVE  /\ CountOf(s)' = CountOf(s) /\ LockOf(s)' = LockOf(s)
             /\ s # p => step'[s] = step[s] /\ DoorOf(s)' = DoorOf(s)
  BY <1>1, OtherReaders
<1>3. \A s \in ComingReaders :
        /\ LockOf(s) \in N!Processes \cup {None} /\ s \in N!Processes
  BY ObjectTypes, ProcessTypes
<1>4. \A s \in N!Processes : DoorOf(s) # p
  BY <1>1, NotYetMade
<1>5. ASSUME NEW x \in ComingReaders, Usable(x)' PROVE Usable(x)
  <2>1. \A s \in ComingReaders : LockOf(s) # None => LockVal(LockOf(s))' = LockVal(LockOf(s))
    BY <1>1, <1>2, <1>3 DEF LockVal
  <2> QED
    BY <1>1, <1>2, <1>5, <2>1 DEF Usable
<1>6. ASSUME NEW x \in ComingReaders, GroupOwns(x)' PROVE GroupOwns(x)
  <2>1. CASE \E r \in ComingReaders : step'[r] \in LetIn /\ CountOf(r)' = x
    BY <1>1, <1>2, <2>1 DEF GroupOwns, LetIn, Locked
  <2>2. CASE /\ CountVal(x)' > 0 /\ Usable(x)'
             /\ CountVal(x)' = 1 => \A r \in ComingReaders : step'[r] = "first" => CountOf(r)' # x
    <3>1. CountVal(x) > 0 /\ Usable(x) /\ CountVal(x)' = CountVal(x)
      BY <1>1, <1>5, <2>2, ProcessTypes
    <3>2. CountVal(x) = 1 => \A r \in ComingReaders : step[r] = "first" => CountOf(r) # x
      BY <1>1, <1>2, <2>2, <3>1 DEF Locked
    <3> QED
      BY <3>1, <3>2 DEF GroupOwns
  <2> QED
    BY <1>6, <2>1, <2>2 DEF GroupOwns
<1>7. ASSUME NEW x \in N!Processes, NEW c \in N!Processes, Owns(x, c)' PROVE Owns(x, c)
  <2>1. CASE x \in ComingWriters
    <3>1. step'[x] = "work"
      BY <1>7, <2>1, ProcessTypes DEF Owns
    <3> QED
      BY <1>1, <1>7, <2>1, <3>1, WritersOwn
  <2>2. CASE x \in ComingReaders
    <3>1. GroupOwns(x)
      BY <1>6, <1>7, <2>2, ProcessTypes DEF Owns
    <3>2. PICK s \in ComingReaders : CountOf(s)' = x /\ DoorOf(s)' = c
      BY <1>7, <2>2, ProcessTypes DEF Owns
    <3>3. PICK t \in ComingReaders : CountOf(t) = x /\ DoorOf(t) # None
      <4>1. CASE \E r \in ComingReaders : step[r] \in LetIn /\ CountOf(r) = x
        BY <4>1, LoopObjects, ProcessTypes DEF LetIn, Working, Locked
      <4>2. CASE CountVal(x) > 0
        BY <2>2, <4>2 DEF CountInv
      <4> QED
        BY <3>1, <4>1, <4>2 DEF GroupOwns
    <3>4. t # p /\ DoorOf(t)' = DoorOf(t) /\ CountOf(t)' = x
      BY <1>1, <1>2, <3>3
    <3>5. DoorOf(t)' = c
      BY <3>2, <3>3, <3>4, ProcessTypes DEF Agreed
    <3> QED
      BY <2>2, <3>1, <3>3, <3>4, <3>5 DEF Owns
  <2> QED
    BY <2>1, <2>2, ProcessTypes
<1>8. \A x \in N!Processes : ~Owns(x, p)
  BY <1>4, ProcessTypes DEF Owns
<1> QED
  BY <1>1, <1>7, <1>8, DoorStays, DoorMade

\* A writer takes a semaphore before it works and gives it back afterwards.
LEMMA DoorWriter ==
  ASSUME Static, DoorInv, NEW w \in ComingWriters, InLoop(w)
  PROVE  DoorInv' /\ \A k \in N!Processes : CountVal(k)' = CountVal(k)
<1>1. PICK d \in N!Processes :
        /\ w \in N!Processes /\ w \notin ComingReaders /\ d = DoorOf(w) /\ Others(w)
        /\ DoorOf(w)' = d
        /\ \A q \in N!Processes :
             CountOf(q)' = CountOf(q) /\ LockOf(q)' = LockOf(q) /\ DoorOf(q)' = DoorOf(q)
        /\ \A c \in N!Processes :
             /\ CountVal(c)' = CountVal(c) /\ LockVal(c)' = LockVal(c)
             /\ c # d => DoorVal(c)' = DoorVal(c)
        /\ \/ /\ step[w] = "wait" /\ step'[w] = "work"
              /\ DoorVal(d) > 0 /\ DoorVal(d)' = DoorVal(d) - 1
           \/ step[w] = "work" /\ step'[w] = "wait" /\ DoorVal(d)' = DoorVal(d) + 1
  <2>1. PICK d \in N!Processes : d = DoorOf(w)
    BY WriterEffect
  <2>2. DoorOf(w)' = d
    BY <2>1, ProcessTypes, WriterEffect
  <2> QED
    BY <2>1, <2>2, ProcessTypes, WriterEffect DEF InLoop, DoorVal
<1>2. \A s \in ComingReaders : /\ step'[s] = step[s] /\ CountOf(s)' = CountOf(s)
                               /\ LockOf(s)' = LockOf(s) /\ DoorOf(s)' = DoorOf(s)
  BY <1>1, OtherReaders
<1>3. \A s \in ComingReaders : LockOf(s) \in N!Processes \cup {None} /\ s \in N!Processes
  BY ObjectTypes, ProcessTypes
<1>4. ASSUME NEW x \in ComingReaders, GroupOwns(x)' PROVE GroupOwns(x)
  <2>1. \A s \in ComingReaders : LockOf(s) # None => LockVal(LockOf(s))' = LockVal(LockOf(s))
    BY <1>1, <1>2, <1>3 DEF LockVal
  <2>2. Usable(x)' => Usable(x)
    BY <1>2, <2>1 DEF Usable
  <2>3. CountVal(x)' = CountVal(x)
    BY <1>1, ProcessTypes
  <2> QED
    BY <1>2, <1>4, <2>2, <2>3 DEF GroupOwns
<1>5. ASSUME NEW x \in N!Processes, NEW c \in N!Processes, Owns(x, c)', x # w PROVE Owns(x, c)
  <2>1. CASE x \in ComingWriters
    BY <1>1, <1>5, <2>1, WritersOwn
  <2>2. CASE x \in ComingReaders
    BY <1>2, <1>4, <1>5, <2>2, ProcessTypes DEF Owns
  <2> QED
    BY <2>1, <2>2, ProcessTypes
<1>6. \A c \in N!Processes : /\ Owns(w, c) <=> step[w] = "work" /\ d = c
                             /\ Owns(w, c)' <=> step'[w] = "work" /\ d = c
  BY <1>1 DEF Owns
<1>7. ASSUME step[w] = "wait", step'[w] = "work" PROVE DoorInv'
  <2>1. DoorVal(d) > 0 /\ DoorVal(d)' = DoorVal(d) - 1
    BY <1>1, <1>7
  <2>2. \A x, c \in N!Processes : Owns(x, c)' => Owns(x, c) \/ (x = w /\ c = d)
    BY <1>5, <1>6
  <2> QED
    BY <1>1, <2>1, <2>2, DoorTaken
<1>8. ASSUME step[w] = "work", step'[w] = "wait" PROVE DoorInv'
  <2>1. DoorVal(d)' = DoorVal(d) + 1
    BY <1>1, <1>8
  <2>2. /\ \A x, c \in N!Processes : Owns(x, c)' => Owns(x, c)
        /\ Owns(w, d) /\ ~Owns(w, d)'
    BY <1>1, <1>5, <1>6, <1>8
  <2> QED
    BY <1>1, <2>1, <2>2, DoorGiven
<1> QED
  BY <1>1, <1>7, <1>8

\* In a reader's loop nothing becomes usable, ...
LEMMA UsableBefore ==
  ASSUME Static, LockInv, NEW r \in ComingReaders, InLoop(r),
         NEW x \in ComingReaders, Usable(x)'
  PROVE  Usable(x)
<1>1. /\ LoopFrame(r) /\ r \in N!Processes /\ Others(r)
      /\ \A s \in ComingReaders : LockOf(s) \in N!Processes \cup {None} /\ s \in N!Processes
  BY LoopEffect, ObjectTypes, ProcessTypes DEF InLoop
<1>2. step[r] \in Locked \/ LockVal(LockOf(r)) = 1
  <2>1. CASE Takes(r)
    BY <2>1, LoopObjects DEF Takes, LockInv, Working
  <2> QED
    BY <2>1, LoopEffect DEF Gives, Loads, Stores, ComesIn, GoesOut, Locked
<1>3. ASSUME NEW s \in ComingReaders
      PROVE  /\ CountOf(s)' = CountOf(s) /\ LockOf(s)' = LockOf(s)
             /\ s # r => step'[s] = step[s]
  BY <1>1, OtherReaders DEF LoopFrame
<1>4. PICK s \in ComingReaders :
        /\ CountOf(s)' = x /\ LockOf(s)' # None
        /\ \/ LockVal(LockOf(s))' = 1
           \/ \E t \in ComingReaders : step'[t] \in Locked /\ LockOf(t)' = LockOf(s)'
  BY DEF Usable
<1>5. CountOf(s) = x /\ LockOf(s) # None
  BY <1>3, <1>4
<1>6. CASE LockOf(s) = LockOf(r)
  BY <1>2, <1>5, <1>6 DEF Usable
<1>7. CASE LockOf(s) # LockOf(r)
  <2>1. LockVal(LockOf(s))' = LockVal(LockOf(s))
    <3>1. \A c \in N!Processes \ {LockOf(r)} : LockVal(c)' = LockVal(c)
      BY <1>1 DEF LoopFrame
    <3> QED
      BY <1>1, <1>3, <1>5, <1>7, <3>1 DEF LockVal
  <2>2. ASSUME NEW t \in ComingReaders, step'[t] \in Locked, LockOf(t)' = LockOf(s)'
        PROVE  step[t] \in Locked /\ LockOf(t) = LockOf(s)
    BY <1>3, <1>7, <2>2
  <2> QED
    BY <1>4, <1>5, <2>1, <2>2 DEF Usable
<1> QED
  BY <1>6, <1>7

\* ... so the readers of the count alone can get the writers' semaphore, ...
LEMMA OtherGroups ==
  ASSUME Static, LockInv, NEW r \in ComingReaders, InLoop(r),
         NEW x \in ComingReaders, x # CountOf(r), GroupOwns(x)'
  PROVE  GroupOwns(x)
<1>1. LoopFrame(r) /\ r \in N!Processes /\ Others(r) /\ x \in N!Processes
      /\ \A s \in ComingReaders : s \in N!Processes
  BY LoopEffect, ProcessTypes DEF InLoop
<1>2. ASSUME NEW s \in ComingReaders
      PROVE  /\ CountOf(s)' = CountOf(s)
             /\ s # r => step'[s] = step[s]
  BY <1>1, OtherReaders DEF LoopFrame
<1>3. CountVal(x)' = CountVal(x)
  BY <1>1 DEF LoopFrame
<1>4. Usable(x)' => Usable(x)
  BY UsableBefore
<1> QED
  BY <1>2, <1>3, <1>4 DEF GroupOwns

\* ... and only by waiting for it.
LEMMA OwnGroup ==
  ASSUME Static, LockInv, Agreed, CountInv, NEW r \in ComingReaders, InLoop(r),
         GroupOwns(CountOf(r))'
  PROVE  GroupOwns(CountOf(r)) \/ (ComesIn(r) /\ CountVal(CountOf(r)) = 1)
<1>1. PICK k \in ComingReaders : k = CountOf(r) /\ CountOf(r)' = k /\ k \in N!Processes
  <2>1. LoopFrame(r) /\ CountOf(r) \in ComingReaders /\ CountOf(r)' = CountOf(r)
        /\ CountOf(r) \in N!Processes
    BY LoopEffect, LoopObjects, ProcessTypes DEF LoopFrame
  <2> QED
    BY <2>1
<1>2. /\ LoopFrame(r) /\ r \in N!Processes /\ Others(r)
      /\ \A s \in ComingReaders : s \in N!Processes
      /\ CountVal(k) \in Int /\ Cardinality(Alive(k)) \in Nat
      /\ CountVal(k) >= Cardinality(Alive(k))
  BY <1>1, LoopEffect, ProcessTypes, ObjectTypes, AliveFinite DEF InLoop, CountInv
<1>3. ASSUME NEW s \in ComingReaders
      PROVE  /\ CountOf(s)' = CountOf(s)
             /\ s # r => step'[s] = step[s]
  BY <1>2, OtherReaders DEF LoopFrame
<1>4. Usable(k)' => Usable(k)
  BY <1>1, UsableBefore
<1>5. /\ GroupOwns(k)' /\ (GroupOwns(CountOf(r)) <=> GroupOwns(k))
      /\ CountVal(CountOf(r)) = CountVal(k) /\ CountVal(CountOf(r))' = CountVal(k)'
  BY <1>1 DEF GroupOwns, Usable, CountVal
<1>6. CASE step[r] \in LetIn
  BY <1>1, <1>5, <1>6 DEF GroupOwns
<1>7. CASE step[r] \in {"enter", "in"}
  <2>1. CountVal(k)' = CountVal(k) /\ step'[r] \notin LetIn
    BY <1>5, <1>7, LoopEffect
    DEF Takes, Gives, Loads, Stores, ComesIn, GoesOut, CountSame, LetIn
  <2> QED
    BY <1>3, <1>4, <1>5, <1>7, <2>1 DEF GroupOwns
<1>8. CASE step[r] = "close"
  <2>1. CountVal(k)' = CountVal(k) /\ step'[r] = "enter"
    BY <1>5, <1>8, LoopEffect
    DEF Takes, Gives, Loads, Stores, ComesIn, GoesOut, CountSame
  <2> QED
    BY <1>3, <1>4, <1>5, <1>8, <2>1 DEF GroupOwns, LetIn
<1>9. CASE step[r] = "increment"
  <2>1. Stores(r, "increment", "first", 1)
    BY <1>9, LoopEffect DEF Takes, Gives, Loads, Stores, ComesIn, GoesOut
  <2>2. CountVal(k)' = CountVal(k) + 1 /\ step'[r] = "first"
    BY <1>2, <1>5, <1>9, <2>1, CountStored DEF Stores
  <2>3. CASE \E s \in ComingReaders : step'[s] \in LetIn /\ CountOf(s)' = k
    BY <1>3, <1>5, <2>2, <2>3 DEF GroupOwns, LetIn
  <2>4. CASE /\ CountVal(k)' > 0 /\ Usable(k)'
             /\ CountVal(k)' = 1 => \A s \in ComingReaders : step'[s] = "first" => CountOf(s)' # k
    <3>1. CountVal(k) > 0
      BY <1>1, <1>2, <2>2, <2>4
    <3>2. \A s \in ComingReaders : step[s] = "first" => CountOf(s) # k
      BY <1>1, <1>9, OneUnderLock DEF Locked
    <3> QED
      BY <1>4, <1>5, <2>4, <3>1, <3>2 DEF GroupOwns
  <2> QED
    BY <1>5, <2>3, <2>4 DEF GroupOwns
<1>10. CASE step[r] = "first" /\ CountVal(k) # 1
  <2>1. r \in Alive(k)
    BY <1>1, <1>10 DEF Alive, CountedIn
  <2>2. CountVal(k) > 1
    BY <1>2, <1>10, <2>1, AliveFinite
  <2>3. Usable(k)
    BY <1>1, <1>10, LoopObjects, ProcessTypes DEF Usable, Working, Locked
  <2>4. CountVal(k) > 0 /\ CountVal(k) # 1
    BY <1>2, <2>2
  <2>5. GroupOwns(k)
    BY <2>3, <2>4 DEF GroupOwns
  <2> QED
    BY <1>5, <2>5
<1>11. CASE step[r] = "first" /\ CountVal(k) = 1
  BY <1>5, <1>11, LoopEffect DEF Takes, Gives, Loads, Stores, ComesIn, GoesOut
<1>12. step[r] \in LetIn \cup {"enter", "in", "close", "increment", "first"}
  BY LoopEffect DEF Takes, Gives, Loads, Stores, ComesIn, GoesOut, LetIn
<1> QED
  BY <1>6, <1>7, <1>8, <1>9, <1>10, <1>11, <1>12

\* A reader takes the writers' semaphore for its count, or gives it away, or leaves
\* it to those who have it.
LEMMA DoorReader ==
  ASSUME Static, LockInv, Agreed, CountInv, DoorInv, NEW r \in ComingReaders, InLoop(r)
  PROVE  DoorInv'
<1>1. PICK k \in ComingReaders, d \in N!Processes :
        /\ k = CountOf(r) /\ CountOf(r)' = k /\ k \in N!Processes
        /\ d = DoorOf(r) /\ DoorOf(r)' = d
  <2>1. LoopFrame(r) /\ CountOf(r) \in ComingReaders /\ CountOf(r)' = CountOf(r)
        /\ CountOf(r) \in N!Processes /\ DoorOf(r) \in N!Processes /\ DoorOf(r)' = DoorOf(r)
    BY LoopEffect, LoopObjects, ProcessTypes DEF LoopFrame
  <2> QED
    BY <2>1
<1>2. /\ LoopFrame(r) /\ r \in N!Processes /\ Others(r) /\ d # None
      /\ \A s \in ComingReaders : s \in N!Processes /\ s # None
      /\ CountVal(k) \in Int
  BY <1>1, LoopEffect, ProcessTypes, ObjectTypes DEF InLoop
<1>3. ASSUME NEW s \in ComingReaders
      PROVE  /\ CountOf(s)' = CountOf(s) /\ DoorOf(s)' = DoorOf(s)
             /\ s # r => step'[s] = step[s]
  BY <1>2, OtherReaders DEF LoopFrame
<1>4. /\ \A c \in N!Processes \ {d} : DoorVal(c)' = DoorVal(c)
      /\ DoorVal(DoorOf(r)) = DoorVal(d) /\ DoorVal(DoorOf(r))' = DoorVal(d)'
      /\ CountVal(CountOf(r)) = CountVal(k) /\ CountVal(CountOf(r))' = CountVal(k)'
  BY <1>1, <1>2 DEF LoopFrame, DoorVal, CountVal
<1>5. GroupOwns(k)' => GroupOwns(k) \/ (ComesIn(r) /\ CountVal(k) = 1)
  <2>1. /\ GroupOwns(CountOf(r)) <=> GroupOwns(k)
        /\ GroupOwns(CountOf(r))' <=> GroupOwns(k)'
    BY <1>1 DEF GroupOwns, Usable, CountVal
  <2> QED
    BY <1>4, <2>1, OwnGroup
<1>6. ASSUME NEW x \in N!Processes, NEW c \in N!Processes, Owns(x, c)'
      PROVE  Owns(x, c) \/ (ComesIn(r) /\ CountVal(k) = 1 /\ x = k /\ c = d)
  <2>1. CASE x \in ComingWriters
    BY <1>2, <1>6, <2>1, WritersOwn, ProcessTypes
  <2>2. CASE x \in ComingReaders
    <3>1. PICK s \in ComingReaders : CountOf(s)' = x /\ DoorOf(s)' = c
      BY <1>6, <2>2, ProcessTypes DEF Owns
    <3>2. CountOf(s) = x /\ DoorOf(s) = c /\ c # None
      BY <1>3, <3>1, ProcessTypes
    <3>3. GroupOwns(x)'
      BY <1>6, <2>2, ProcessTypes DEF Owns
    <3>4. x = k => c = d
      BY <1>1, <1>2, <3>2 DEF Agreed
    <3>5. GroupOwns(x) \/ (ComesIn(r) /\ CountVal(k) = 1 /\ x = k)
      BY <1>1, <1>5, <2>2, <3>3, OtherGroups
    <3> QED
      BY <2>2, <3>2, <3>4, <3>5 DEF Owns
  <2> QED
    BY <2>1, <2>2, ProcessTypes
<1>7. CASE ComesIn(r) /\ CountVal(k) = 1
  <2>1. DoorVal(d) > 0 /\ DoorVal(d)' = DoorVal(d) - 1
    BY <1>4, <1>7 DEF ComesIn
  <2>2. \A x, c \in N!Processes : Owns(x, c)' => Owns(x, c) \/ (x = k /\ c = d)
    BY <1>6
  <2> QED
    BY <1>1, <1>4, <2>1, <2>2, DoorTaken
<1>8. CASE GoesOut(r) /\ CountVal(k) = 0
  <2>1. step[r] = "last" /\ step'[r] = "close" /\ DoorVal(d)' = DoorVal(d) + 1 /\ CountVal(k)' = 0
    BY <1>4, <1>8 DEF GoesOut, CountSame
  <2>2. Owns(k, d)
    BY <1>1, <2>1 DEF Owns, GroupOwns, LetIn
  <2>3. ASSUME NEW s \in ComingReaders, step'[s] \in LetIn, CountOf(s)' = k PROVE FALSE
    <3>1. s # r /\ step[s] \in LetIn /\ CountOf(s) = k
      BY <1>3, <2>1, <2>3 DEF LetIn
    <3>2. CASE step[s] = "last"
      BY <1>1, <2>1, <3>1, <3>2, OneUnderLock DEF Locked
    <3>3. CASE step[s] # "last"
      <4>1. s \in Alive(k)
        BY <3>1, <3>3 DEF Alive, LetIn, CountedIn
      <4>2. Cardinality(Alive(k)) = 0
        BY <1>2, <1>8, AliveFinite DEF CountInv
      <4> QED
        BY <4>1, <4>2, AliveFinite
    <3> QED
      BY <3>2, <3>3
  <2>4. ~Owns(k, d)'
    <3>1. k \notin ComingWriters /\ ~(CountVal(k)' > 0)
      BY <2>1, ProcessTypes
    <3> QED
      BY <2>3, <3>1 DEF Owns, GroupOwns
  <2>5. \A x, c \in N!Processes : Owns(x, c)' => Owns(x, c)
    BY <1>6, <1>8
  <2> QED
    BY <1>1, <1>4, <2>1, <2>2, <2>4, <2>5, DoorGiven
<1>9. CASE ~(ComesIn(r) /\ CountVal(k) = 1) /\ ~(GoesOut(r) /\ CountVal(k) = 0)
  <2>1. DoorVal(d)' = DoorVal(d)
    BY <1>4, <1>9, LoopEffect DEF Takes, Gives, Loads, Stores, ComesIn, GoesOut, DoorSame
  <2>2. \A x, c \in N!Processes : Owns(x, c)' => Owns(x, c)
    BY <1>6, <1>9
  <2> QED
    BY <1>4, <2>1, <2>2, DoorStays
<1> QED
  BY <1>7, <1>8, <1>9

LEMMA SharedKept ==
  ASSUME Static, LockInv, Agreed, Agreed', CountInv, DoorInv, ~late',
         NEW p \in N!Processes, Kinds(p)
  PROVE  CountInv' /\ DoorInv'
<1>1. /\ \A s \in ComingReaders : CountOf(s) # None => CountOf(s)' = CountOf(s)
      /\ \A s \in ComingReaders : LockOf(s) # None => LockOf(s)' = LockOf(s)
      /\ \A s \in ComingReaders : DoorOf(s) # None => DoorOf(s)' = DoorOf(s)
  BY AgreedBefore
<1>2. Others(p) /\ \A s \in ComingReaders : s \in N!Processes
  BY ProcessTypes DEF Kinds, Quiet, Opens, InLoop
<1>3. CASE Quiet(p) \/ Opens(p, N!READERS_SEMAPHORE) \/ Opens(p, N!WRITERS_SEMAPHORE)
  <2>1. DoorInv' /\ \A k \in N!Processes : CountVal(k)' = CountVal(k)
    BY <1>3, DoorQuiet, DoorLockOpened, DoorOpened
  <2>2. step'[p] \notin CountedIn \cup {"increment", "decrement"}
    BY <1>3 DEF Quiet, Opens, Locked, CountedIn
  <2> QED
    BY <1>1, <1>2, <2>1, <2>2, CountKept
<1>4. CASE InLoop(p) /\ p \in ComingWriters
  <2>1. DoorInv' /\ \A k \in N!Processes : CountVal(k)' = CountVal(k)
    BY <1>4, DoorWriter
  <2>2. p \notin ComingReaders
    BY <1>4, ProcessTypes
  <2> QED
    BY <1>1, <1>2, <2>1, <2>2, CountKept
<1>5. CASE InLoop(p) /\ p \in ComingReaders
  <2>1. DoorInv'
    BY <1>5, DoorReader
  <2>2. LoopFrame(p)
    BY <1>5, LoopEffect
  <2>3. CASE Stores(p, "increment", "first", 1) \/ Stores(p, "decrement", "last", -1)
    BY <1>5, <2>1, <2>2, <2>3, CountStored
  <2>4. CASE Takes(p) \/ Gives(p) \/ Loads(p) \/ ComesIn(p) \/ GoesOut(p)
    <3>1. CountOf(p)' = CountOf(p)
      BY <1>2, <1>5, <2>2 DEF LoopFrame
    <3>2. CountVal(CountOf(p))' = CountVal(CountOf(p))
      BY <2>4 DEF Takes, Gives, Loads, ComesIn, GoesOut, CountSame
    <3>3. \A k \in ComingReaders : CountVal(k)' = CountVal(k)
      BY <1>2, <2>2, <3>1, <3>2 DEF LoopFrame, CountVal
    <3>4. /\ step'[p] \in CountedIn => step[p] \in CountedIn
          /\ step'[p] \in {"increment", "decrement"} => register'[p] = CountVal(CountOf(p))'
      BY <2>4, <3>2 DEF Takes, Gives, Loads, ComesIn, GoesOut, CountedIn
    <3> QED
      BY <1>1, <1>2, <2>1, <3>3, <3>4, CountKept
  <2> QED
    BY <1>5, <2>3, <2>4, LoopEffect
<1> QED
  BY <1>3, <1>4, <1>5, ProcessTypes DEF Kinds

LEMMA NInitial == N!Init => NInv
<1> SUFFICES ASSUME N!Init PROVE NInv
  OBVIOUS
<1> USE DEF N!Init
<1>1. \A p \in N!Processes : /\ step[p] = "array" /\ register[p] = 0
                             /\ \A n \in N!Names : has[p][n] = None /\ value[n][p] = 0
  OBVIOUS
<1>2. NTypeOK
  <2>1. object \in [N!Names -> N!Processes \cup {None}] /\ object[N!READERS_COUNT] = None
    BY NameTypes
  <2>2. /\ has \in [N!Processes -> [N!Names -> N!Processes \cup {None}]]
        /\ \A p \in N!Processes : CountOf(p) = None
    BY <1>1, NameTypes DEF CountOf
  <2>3. value \in [N!Names -> [N!Processes -> Int]] /\ register \in [N!Processes -> Int]
    OBVIOUS
  <2>4. step \in [N!Processes -> AllSteps] /\ late \in BOOLEAN
    BY DEF AllSteps, NoLock, NoDoor, NoCount
  <2> QED
    BY <2>1, <2>2, <2>3, <2>4 DEF NTypeOK
<1>3. /\ \A p \in N!Processes : CountOf(p) = None /\ LockOf(p) = None /\ DoorOf(p) = None
      /\ \A c \in N!Processes : LockVal(c) = 0 /\ CountVal(c) = 0 /\ DoorVal(c) = 0
      /\ ComingReaders \subseteq N!Processes /\ ComingWriters \subseteq N!Processes
      /\ None \notin N!Processes
  BY <1>1, NameTypes, ProcessTypes DEF CountOf, LockOf, DoorOf, LockVal, CountVal, DoorVal
<1>4. NamesInv
  BY <1>1, NameTypes DEF NamesInv
<1>5. StepsFit /\ LockInv
  BY <1>1, <1>3 DEF StepsFit, LockInv, Working, Locked
<1>6. CountInv
  <2>1. \A k : Alive(k) = {}
    BY <1>1, <1>3 DEF Alive, CountedIn
  <2>2. \A k \in ComingReaders : CountVal(k) = 0 /\ Cardinality(Alive(k)) = 0
    BY <1>3, <2>1, FS_EmptySet
  <2> QED
    BY <1>1, <1>3, <2>2 DEF CountInv
<1>7. DoorInv
  <2>1. \A x, c \in N!Processes : ~Owns(x, c)
    BY <1>1, <1>3 DEF Owns
  <2> QED
    BY <1>3, <2>1 DEF DoorInv
<1> QED
  BY <1>2, <1>4, <1>5, <1>6, <1>7 DEF NInv

LEMMA NStep == NInv /\ N!Next => NInv'
<1> SUFFICES ASSUME NInv, N!Next PROVE NInv'
  OBVIOUS
<1>1. Static' /\ \E p \in N!Processes : Kinds(p)
  BY StepKind DEF NInv, Static
<1>2. PICK p \in N!Processes : Kinds(p)
  BY <1>1
<1>3. LockInv'
  BY <1>1, <1>2, LockKept DEF NInv, Static
<1>4. late => late'
  BY <1>2 DEF Kinds, Quiet, Opens, InLoop
<1>5. ASSUME ~late', Agreed' PROVE CountInv' /\ DoorInv'
  <2>1. Agreed
    BY <1>2, <1>5, AgreedBefore DEF NInv, Static
  <2> QED
    BY <1>2, <1>4, <1>5, <2>1, SharedKept DEF NInv, Static
<1> QED
  BY <1>1, <1>3, <1>5 DEF NInv, Static

LEMMA NStutter == NInv /\ UNCHANGED names => NInv'
<1> SUFFICES ASSUME NInv, UNCHANGED names PROVE NInv'
  OBVIOUS
<1>1. /\ object' = object /\ has' = has /\ value' = value /\ step' = step
      /\ register' = register /\ late' = late
  BY DEF names
<1>2. (NTypeOK /\ NamesInv /\ StepsFit /\ LockInv)'
  BY <1>1 DEF NInv, NTypeOK, NamesInv, StepsFit, LockInv, CountOf, LockOf, DoorOf, LockVal
<1>3. Agreed' = Agreed
  BY <1>1 DEF Agreed, CountOf, LockOf, DoorOf
<1>4. CountInv' = CountInv
  <2>1. \A k : Alive(k)' = Alive(k)
    BY <1>1 DEF Alive, CountOf
  <2> QED
    BY <1>1, <2>1 DEF CountInv, CountOf, LockOf, DoorOf, CountVal
<1>5. DoorInv' = DoorInv
  <2>1. \A x : GroupOwns(x)' = GroupOwns(x)
    BY <1>1 DEF GroupOwns, Usable, CountOf, LockOf, CountVal, LockVal
  <2>2. \A x, c : Owns(x, c)' = Owns(x, c)
    BY <1>1, <2>1 DEF Owns, CountOf, DoorOf
  <2> QED
    BY <1>1, <2>2 DEF DoorInv, DoorVal
<1> QED
  BY <1>1, <1>2, <1>3, <1>4, <1>5 DEF NInv

LEMMA NamesExclude == NInv => N!ExclusionAcrossGenerations
<1> SUFFICES ASSUME NInv, ~late, ~N!CountShared PROVE N!ExclusionAcrossGenerations
  BY DEF N!ExclusionAcrossGenerations
<1>1. Agreed
  <2>1. N!Semaphores = {N!READERS_SEMAPHORE, N!WRITERS_SEMAPHORE}
    BY DEF N!Semaphores
  <2> QED
    BY <2>1 DEF N!CountShared, N!Same, Agreed, CountOf, LockOf, DoorOf
<1>2. Static /\ DoorInv
  BY <1>1 DEF NInv, Static
<1>3. ASSUME NEW w \in ComingWriters, N!Writing(w)
      PROVE  /\ \A r \in ComingReaders : N!Reading(r) => ~N!Same(r, w, N!WRITERS_SEMAPHORE)
             /\ \A v \in ComingWriters \ {w} :
                  N!Writing(v) => ~N!Same(v, w, N!WRITERS_SEMAPHORE)
  <2>1. DoorOf(w) \in N!Processes /\ w \in N!Processes /\ Owns(w, DoorOf(w))
    BY <1>2, <1>3, ObjectTypes, ProcessTypes DEF Static, StepsFit, N!Writing, Owns
  <2>2. ASSUME NEW r \in ComingReaders, N!Reading(r), DoorOf(r) = DoorOf(w) PROVE FALSE
    <3>1. step[r] = "work" /\ CountOf(r) \in ComingReaders /\ CountOf(r) \in N!Processes
      BY <1>2, <2>2, LoopObjects DEF N!Reading, Working
    <3>2. Owns(CountOf(r), DoorOf(w))
      BY <2>2, <3>1 DEF Owns, GroupOwns, LetIn
    <3> QED
      BY <1>2, <2>1, <3>1, <3>2, ProcessTypes DEF DoorInv
  <2>3. ASSUME NEW v \in ComingWriters \ {w}, N!Writing(v), DoorOf(v) = DoorOf(w) PROVE FALSE
    <3>1. v \in N!Processes /\ Owns(v, DoorOf(w))
      BY <2>3, ProcessTypes DEF Owns, N!Writing
    <3> QED
      BY <1>2, <2>1, <3>1 DEF DoorInv
  <2> QED
    BY <2>2, <2>3 DEF N!Same, DoorOf
<1> QED
  BY <1>3 DEF N!ExclusionAcrossGenerations

\* Whatever readers and writers come, go or are interrupted, and whatever names they
\* unlink behind each other, those who use one writers' semaphore exclude each
\* other, unless a count was reset late or readers of one count do not agree on the
\* semaphores (reader.c:101-147).
THEOREM GenerationsExclude == ExerciseSpec => []ExclusionAcrossGenerations
<1>1. ExerciseInit => NInv
  BY NInitial DEF ExerciseInit
<1>2. NInv /\ [ExerciseNext]_allVars => NInv'
  <2> SUFFICES ASSUME NInv, [ExerciseNext]_allVars PROVE NInv'
    OBVIOUS
  <2>1. CASE InLoops(Next)
    BY <2>1, NStutter DEF InLoops
  <2>2. CASE N!Next
    BY <2>2, NStep
  <2>3. CASE UNCHANGED allVars
    BY <2>3, NStutter DEF allVars
  <2> QED
    BY <2>1, <2>2, <2>3 DEF ExerciseNext
<1>3. NInv => ExclusionAcrossGenerations
  BY NamesExclude DEF ExclusionAcrossGenerations
<1> QED
  BY <1>1, <1>2, <1>3, PTL DEF ExerciseSpec

=============================================================================
