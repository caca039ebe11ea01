-------------------------- MODULE TaskExerciseProofs ------------------------
(***************************************************************************)
(* Proofs about lab08/zad1 for any number of producers and consumers and   *)
(* any length of the table: first how they share it (Spec is TaskBuffer's),*)
(* then how they come and go (S!Spec is TaskStartup's), and both together. *)
(***************************************************************************)
EXTENDS TaskExercise, SequenceTheorems, FiniteSetTheorems, TLAPS

-----------------------------------------------------------------------------
\* The loops of both programs

\* A process that goes from "down" to another label joins the busy ones.
LEMMA BusyJoins ==
  ASSUME NEW G, NEW T, G \subseteq T, IsFiniteSet(G), pc \in [T -> Labels],
         NEW x \in T, NEW to \in Labels \ {"down"}, Goto(x, "down", to)
  PROVE  Cardinality(Busy(G))' =
           IF x \in G THEN Cardinality(Busy(G)) + 1 ELSE Cardinality(Busy(G))
<1>1. IsFiniteSet(Busy(G)) /\ Cardinality(Busy(G)) \in Nat
  BY FS_Subset, FS_CardinalityType DEF Busy
<1>2. CASE x \in G
  <2>1. Busy(G)' = Busy(G) \cup {x} /\ x \notin Busy(G)
    BY <1>2 DEF Busy, Goto
  <2> QED
    BY <1>1, <1>2, <2>1, FS_AddElement
<1>3. CASE x \notin G
  BY <1>1, <1>3 DEF Busy, Goto
<1> QED
  BY <1>1, <1>2, <1>3

\* One that goes back to "down" leaves them.
LEMMA BusyLeaves ==
  ASSUME NEW G, NEW T, G \subseteq T, IsFiniteSet(G), pc \in [T -> Labels],
         NEW x \in T, NEW from \in Labels \ {"down"}, Goto(x, from, "down")
  PROVE  Cardinality(Busy(G)) =
           IF x \in G THEN Cardinality(Busy(G))' + 1 ELSE Cardinality(Busy(G))'
<1>1. IsFiniteSet(Busy(G)) /\ Cardinality(Busy(G)) \in Nat
  BY FS_Subset, FS_CardinalityType DEF Busy
<1>2. CASE x \in G
  <2>1. Busy(G)' = Busy(G) \ {x} /\ x \in Busy(G)
    BY <1>2 DEF Busy, Goto
  <2>2. Cardinality(Busy(G) \ {x}) = Cardinality(Busy(G)) - 1
    BY <1>1, <2>1, FS_RemoveElement
  <2> QED
    BY <1>1, <1>2, <2>1, <2>2
<1>3. CASE x \notin G
  BY <1>1, <1>3 DEF Busy, Goto
<1> QED
  BY <1>2, <1>3

\* Any other step leaves the busy processes as they are.
LEMMA BusyStays ==
  ASSUME NEW G, NEW T, G \subseteq T, pc \in [T -> Labels], NEW x \in T,
         NEW from \in Labels \ {"down"}, NEW to \in Labels \ {"down"}, Goto(x, from, to)
  PROVE  Busy(G)' = Busy(G)
BY DEF Busy, Goto

\* The finite sets of busy processes, in the types of the steps below.
LEMMA BusyTypes ==
  /\ Cardinality(Busy(Producers)) \in Nat /\ Cardinality(Busy(Consumers)) \in Nat
  /\ Cardinality(Busy(Producers))' \in Nat /\ Cardinality(Busy(Consumers))' \in Nat
<1>1. /\ Busy(Producers) \subseteq Producers /\ Busy(Producers)' \subseteq Producers
      /\ Busy(Consumers) \subseteq Consumers /\ Busy(Consumers)' \subseteq Consumers
  BY DEF Busy
<1> QED
  BY <1>1, BufferAssumption, FS_Subset, FS_CardinalityType

IInv == TypeOK /\ SlotsConserved

\* An index wraps, a counter overflows.
LEMMA WordTypes ==
  /\ \A n \in Nat : Increment(n) \in 0 .. COUNTER_MODULUS - 1
  /\ \A s \in Nat : NextSlot(s) \in Slots
  /\ \A e \in Nat : NextEntry(e) \in Entries
BY BufferAssumption DEF Increment, NextSlot, NextEntry, Slots, Entries

\* With the slots conserved, a semaphore cannot exceed the table.
LEMMA SemaphoresBounded ==
  ASSUME SlotsConserved', sem_producer' \in Nat, sem_consumer' \in Nat
  PROVE  SemaphoresOK'
BY BusyTypes, BufferAssumption DEF SlotsConserved, SemaphoresOK

\* A step between two busy labels that leaves the semaphores alone.
LEMMA InsideKeepsSlots ==
  ASSUME IInv, NEW x \in Processes, NEW from \in Labels \ {"down"},
         NEW to \in Labels \ {"down"}, Goto(x, from, to),
         UNCHANGED <<sem_producer, sem_consumer>>
  PROVE  SlotsConserved' /\ SemaphoresOK'
<1>1. Busy(Producers)' = Busy(Producers) /\ Busy(Consumers)' = Busy(Consumers)
  BY BusyStays DEF IInv, TypeOK, WordsOK, Processes
<1> QED
  BY <1>1 DEF IInv, TypeOK, SlotsConserved, SemaphoresOK

\* A step that takes a unit of one semaphore and makes its process busy.
LEMMA DownKeepsSlots ==
  ASSUME IInv, NEW x \in Processes, NEW to \in Labels \ {"down"}, Goto(x, "down", to),
         sem_producer' \in Nat, sem_consumer' \in Nat,
         sem_producer' + sem_consumer' + 1 = sem_producer + sem_consumer
  PROVE  SlotsConserved' /\ SemaphoresOK'
<1>1. /\ Cardinality(Busy(Producers))' = IF x \in Producers
           THEN Cardinality(Busy(Producers)) + 1 ELSE Cardinality(Busy(Producers))
      /\ Cardinality(Busy(Consumers))' = IF x \in Consumers
           THEN Cardinality(Busy(Consumers)) + 1 ELSE Cardinality(Busy(Consumers))
  <2>1. /\ Producers \subseteq Processes /\ Consumers \subseteq Processes
        /\ IsFiniteSet(Producers) /\ IsFiniteSet(Consumers)
        /\ pc \in [Processes -> Labels]
    BY BufferAssumption DEF IInv, TypeOK, WordsOK, Processes
  <2> QED
    BY <2>1, BusyJoins
<1>2. x \in Producers <=> x \notin Consumers
  BY BufferAssumption DEF Processes
<1> DEFINE sp == sem_producer'  sc == sem_consumer'
           busyP == Cardinality(Busy(Producers))'  busyC == Cardinality(Busy(Consumers))'
<1>3. /\ sem_producer \in Nat /\ sem_consumer \in Nat /\ TASK_TAB_LENGTH \in Nat
      /\ sem_producer + sem_consumer + Cardinality(Busy(Producers))
           + Cardinality(Busy(Consumers)) = TASK_TAB_LENGTH
  BY BufferAssumption DEF IInv, TypeOK, SemaphoresOK, SlotsConserved
<1>4. /\ sp \in Nat /\ sc \in Nat
      /\ sp + sc + 1 = sem_producer + sem_consumer
      /\ busyP \in Nat /\ busyC \in Nat
  BY BusyTypes
<1>5. \/ busyP = Cardinality(Busy(Producers)) + 1 /\ busyC = Cardinality(Busy(Consumers))
      \/ busyP = Cardinality(Busy(Producers)) /\ busyC = Cardinality(Busy(Consumers)) + 1
  BY <1>1, <1>2 DEF Processes
<1> HIDE DEF sp, sc, busyP, busyC
<1>6. sp + sc + busyP + busyC = TASK_TAB_LENGTH
  BY <1>3, <1>4, <1>5, BusyTypes
<1> USE DEF sp, sc, busyP, busyC
<1>7. SlotsConserved'
  BY <1>6 DEF SlotsConserved
<1> QED
  BY <1>7, SemaphoresBounded

\* A step that gives a unit to one semaphore and frees its process.
LEMMA UpKeepsSlots ==
  ASSUME IInv, NEW x \in Processes, NEW from \in Labels \ {"down"}, Goto(x, from, "down"),
         sem_producer' \in Nat, sem_consumer' \in Nat,
         sem_producer' + sem_consumer' = sem_producer + sem_consumer + 1
  PROVE  SlotsConserved' /\ SemaphoresOK'
<1>1. /\ Cardinality(Busy(Producers)) = IF x \in Producers
           THEN Cardinality(Busy(Producers))' + 1 ELSE Cardinality(Busy(Producers))'
      /\ Cardinality(Busy(Consumers)) = IF x \in Consumers
           THEN Cardinality(Busy(Consumers))' + 1 ELSE Cardinality(Busy(Consumers))'
  <2>1. /\ Producers \subseteq Processes /\ Consumers \subseteq Processes
        /\ IsFiniteSet(Producers) /\ IsFiniteSet(Consumers)
        /\ pc \in [Processes -> Labels]
    BY BufferAssumption DEF IInv, TypeOK, WordsOK, Processes
  <2> QED
    BY <2>1, BusyLeaves
<1>2. x \in Producers <=> x \notin Consumers
  BY BufferAssumption DEF Processes
<1> DEFINE sp == sem_producer'  sc == sem_consumer'
           busyP == Cardinality(Busy(Producers))'  busyC == Cardinality(Busy(Consumers))'
<1>3. /\ sem_producer \in Nat /\ sem_consumer \in Nat /\ TASK_TAB_LENGTH \in Nat
      /\ sem_producer + sem_consumer + Cardinality(Busy(Producers))
           + Cardinality(Busy(Consumers)) = TASK_TAB_LENGTH
  BY BufferAssumption DEF IInv, TypeOK, SemaphoresOK, SlotsConserved
<1>4. /\ sp \in Nat /\ sc \in Nat
      /\ sp + sc = sem_producer + sem_consumer + 1
      /\ busyP \in Nat /\ busyC \in Nat
  BY BusyTypes
<1>5. \/ Cardinality(Busy(Producers)) = busyP + 1 /\ Cardinality(Busy(Consumers)) = busyC
      \/ Cardinality(Busy(Producers)) = busyP /\ Cardinality(Busy(Consumers)) = busyC + 1
  BY <1>1, <1>2 DEF Processes
<1> HIDE DEF sp, sc, busyP, busyC
<1>6. sp + sc + busyP + busyC = TASK_TAB_LENGTH
  BY <1>3, <1>4, <1>5, BusyTypes
<1> USE DEF sp, sc, busyP, busyC
<1>7. SlotsConserved'
  BY <1>6 DEF SlotsConserved
<1> QED
  BY <1>7, SemaphoresBounded

\* A producer takes a free slot, fills it, and announces a task.
LEMMA ProducerKeeps ==
  ASSUME IInv, NEW p \in Producers, producer(p)
  PROVE  IInv'
<1> USE BufferAssumption DEF IInv, TypeOK, Processes, Labels
<1>1. CASE DownProducer(p)
  <2>1. WordsOK'
    BY <1>1 DEF DownProducer, Goto, WordsOK, shared, local, ghost
  <2>2. SlotsConserved' /\ SemaphoresOK'
    BY <1>1, DownKeepsSlots DEF DownProducer, SemaphoresOK
  <2> QED
    BY <2>1, <2>2
<1>2. CASE WriteEntry(p)
  <2>1. WordsOK'
    <3>1. i' \in [Processes -> 0 .. TASK_LENGTH] /\ pc' \in [Processes -> Labels]
      BY <1>2, WordTypes DEF WriteEntry, Goto, WordsOK, Entries
    <3>2. PICK v \in Value : task_tab' = [task_tab EXCEPT ![curren_task_num][i[p]] = v]
      BY <1>2 DEF WriteEntry
    <3>3. task_tab[curren_task_num] \in Task /\ curren_task_num \in Slots
      BY DEF WordsOK
    <3>4. [task_tab[curren_task_num] EXCEPT ![i[p]] = v] \in Task
      BY <3>3 DEF Task
    <3>5. task_tab' \in [Slots -> Task]
      BY <3>2, <3>3, <3>4 DEF WordsOK
    <3> QED
      BY <1>2, <3>1, <3>5 DEF WriteEntry, WordsOK, ghost
  <2>2. SlotsConserved' /\ SemaphoresOK'
    BY <1>2, InsideKeepsSlots DEF WriteEntry
  <2> QED
    BY <2>1, <2>2
<1>3. CASE CountPut(p)
  <2>1. WordsOK'
    BY <1>3, WordTypes DEF CountPut, ghost, Goto, WordsOK, Load, Forget
  <2>2. SlotsConserved' /\ SemaphoresOK'
    BY <1>3, InsideKeepsSlots DEF CountPut
  <2> QED
    BY <2>1, <2>2
<1>4. CASE AdvancePut(p)
  <2>1. WordsOK'
    <3>1. read[p] \in Nat /\ curren_task_num \in Slots /\ curren_task_num \in Nat
      BY DEF WordsOK, Slots
    <3>2. CASE Goto(p, "loadIndex", "storeIndex")
      BY <1>4, <3>1, <3>2 DEF AdvancePut, Goto, WordsOK, Load
    <3>3. CASE Goto(p, "storeIndex", "up")
      BY <1>4, <3>1, <3>3, WordTypes DEF AdvancePut, Goto, WordsOK, Forget
    <3> QED
      BY <1>4, <3>2, <3>3 DEF AdvancePut
  <2>2. SlotsConserved' /\ SemaphoresOK'
    BY <1>4, InsideKeepsSlots DEF AdvancePut
  <2> QED
    BY <2>1, <2>2
<1>5. CASE UpConsumer(p)
  <2>1. WordsOK'
    BY <1>5 DEF UpConsumer, Goto, WordsOK, shared, local, ghost
  <2>2. SlotsConserved' /\ SemaphoresOK'
    BY <1>5, UpKeepsSlots DEF UpConsumer, SemaphoresOK
  <2> QED
    BY <2>1, <2>2
<1> QED
  BY <1>1, <1>2, <1>3, <1>4, <1>5 DEF producer

\* A consumer takes a ready task, executes it, and gives the slot back.
LEMMA ConsumerKeeps ==
  ASSUME IInv, NEW c \in Consumers, consumer(c)
  PROVE  IInv'
<1> USE BufferAssumption DEF IInv, TypeOK, Processes, Labels
<1>1. CASE DownConsumer(c)
  <2>1. WordsOK'
    BY <1>1 DEF DownConsumer, Goto, WordsOK, shared, local, ghost
  <2>2. SlotsConserved' /\ SemaphoresOK'
    BY <1>1, DownKeepsSlots DEF DownConsumer, SemaphoresOK
  <2> QED
    BY <2>1, <2>2
<1>2. CASE LoadEntry(c)
  <2>1. WordsOK'
    <3>1. i' \in [Processes -> 0 .. TASK_LENGTH] /\ pc' \in [Processes -> Labels]
      BY <1>2, WordTypes DEF LoadEntry, Goto, WordsOK, Entries
    <3>2. /\ task[c] \in Task /\ task_tab[current_task_number] \in Task
          /\ i[c] + 1 <= TASK_LENGTH /\ i[c] \in Nat
      BY <1>2 DEF LoadEntry, WordsOK
    <3>3. [task[c] EXCEPT ![i[c]] = task_tab[current_task_number][i[c]]] \in Task
      BY <3>2 DEF Task, Entries
    <3>4. task' \in [Processes -> Task]
      BY <1>2, <3>3 DEF LoadEntry, WordsOK
    <3> QED
      BY <1>2, <3>1, <3>4 DEF LoadEntry, WordsOK, shared, ghost
  <2>2. SlotsConserved' /\ SemaphoresOK'
    BY <1>2, InsideKeepsSlots DEF LoadEntry
  <2> QED
    BY <2>1, <2>2
<1>3. CASE PrintStatistics(c)
  <2>1. WordsOK'
    BY <1>3 DEF PrintStatistics, Goto, WordsOK, Task, shared, ghost
  <2>2. SlotsConserved' /\ SemaphoresOK'
    BY <1>3, InsideKeepsSlots DEF PrintStatistics
  <2> QED
    BY <2>1, <2>2
<1>4. CASE CountExecuted(c)
  <2>1. WordsOK'
    BY <1>4, WordTypes DEF CountExecuted, ghost, Goto, WordsOK, Load, Forget
  <2>2. SlotsConserved' /\ SemaphoresOK'
    BY <1>4, InsideKeepsSlots DEF CountExecuted
  <2> QED
    BY <2>1, <2>2
<1>5. CASE AdvanceExecuted(c)
  <2>1. WordsOK'
    <3>1. read[c] \in Nat /\ current_task_number \in Slots /\ current_task_number \in Nat
      BY DEF WordsOK, Slots
    <3>2. CASE Goto(c, "loadIndex", "storeIndex")
      BY <1>5, <3>1, <3>2 DEF AdvanceExecuted, Goto, WordsOK, Load
    <3>3. CASE Goto(c, "storeIndex", "up")
      BY <1>5, <3>1, <3>3, WordTypes DEF AdvanceExecuted, Goto, WordsOK, Forget
    <3> QED
      BY <1>5, <3>2, <3>3 DEF AdvanceExecuted
  <2>2. SlotsConserved' /\ SemaphoresOK'
    BY <1>5, InsideKeepsSlots DEF AdvanceExecuted
  <2> QED
    BY <2>1, <2>2
<1>6. CASE UpProducer(c)
  <2>1. WordsOK'
    BY <1>6 DEF UpProducer, Goto, WordsOK, shared, local, ghost
  <2>2. SlotsConserved' /\ SemaphoresOK'
    BY <1>6, UpKeepsSlots DEF UpProducer, SemaphoresOK
  <2> QED
    BY <2>1, <2>2
<1> QED
  BY <1>1, <1>2, <1>3, <1>4, <1>5, <1>6 DEF consumer

\* The types and the conservation of slots support each other.
LEMMA InvariantHolds == Spec => []IInv
<1>1. Init => IInv
  <2> SUFFICES ASSUME Init PROVE IInv
    OBVIOUS
  <2>1. TypeOK
    BY BufferAssumption
    DEF Init, Start, TypeOK, SemaphoresOK, WordsOK, Slots, Task, Labels, NoTask
  <2>2. Busy(Producers) = {} /\ Busy(Consumers) = {}
    BY DEF Init, Start, Busy, Processes
  <2> QED
    BY <2>1, <2>2, FS_EmptySet, BufferAssumption DEF IInv, SlotsConserved, Init, Start
<1>2. IInv /\ [Next]_vars => IInv'
  <2> SUFFICES ASSUME IInv, [Next]_vars PROVE IInv'
    OBVIOUS
  <2>1. CASE UNCHANGED vars
    BY <2>1 DEF vars, shared, local, ghost, IInv, TypeOK, SemaphoresOK, WordsOK,
                SlotsConserved, Busy
  <2> QED
    BY <2>1, ProducerKeeps, ConsumerKeeps DEF Next
<1> QED
  BY <1>1, <1>2, PTL DEF Spec

\* Indices stay in the table and entries are numbers somebody put there, however
\* many processes update them without a lock.
THEOREM TypeCorrect == Spec => []TypeOK
BY InvariantHolds, PTL DEF IInv

\* Any number of producers and consumers leave the slots conserved.
THEOREM SemaphoresCorrect == Spec => []SlotsConserved
BY InvariantHolds, PTL DEF IInv

-----------------------------------------------------------------------------
(***************************************************************************)
(* One producer and one consumer.  The distance between the two indices is *)
(* the number of tasks put and not yet done with; it is known modulo the   *)
(* length of the table only, so it is stated as one of two equations.      *)
(***************************************************************************)

One(b) == IF b THEN 1 ELSE 0

Executing == {"load", "print", "loadCounter", "storeCounter", "loadIndex", "storeIndex"}

\* Tasks between the two indices.
Ahead(p, c) == sem_consumer + One(pc[p] = "up") + One(pc[c] \in Executing)

SlotsOfPair(p, c) ==
  sem_producer + sem_consumer + One(pc[p] # "down") + One(pc[c] # "down") = TASK_TAB_LENGTH

IndicesApart(p, c) ==
  \/ curren_task_num = current_task_number + Ahead(p, c)
  \/ curren_task_num + TASK_TAB_LENGTH = current_task_number + Ahead(p, c)

\* With one process on each side nobody overwrites a word that was loaded.
RegistersFresh(p, c) ==
  /\ pc[p] = "storeCounter" => read[p] = put_counter
  /\ pc[p] = "storeIndex" => read[p] = curren_task_num
  /\ pc[c] = "storeCounter" => read[c] = executed_counter
  /\ pc[c] = "storeIndex" => read[c] = current_task_number

CountersApart(p, c) ==
  /\ put_counter = IF pc[p] \in {"loadIndex", "storeIndex"} THEN Increment(puts) ELSE puts
  /\ executed_counter =
       IF pc[c] \in {"loadIndex", "storeIndex"} THEN Increment(executions) ELSE executions

PairInv(p, c) ==
  /\ IInv /\ SlotsOfPair(p, c) /\ IndicesApart(p, c)
  /\ RegistersFresh(p, c) /\ CountersApart(p, c)

\* The next slot, without the remainder.
LEMMA NextSlotValue ==
  ASSUME NEW s \in Slots
  PROVE  NextSlot(s) = IF s = TASK_TAB_LENGTH - 1 THEN 0 ELSE s + 1
<1>1. CASE s = TASK_TAB_LENGTH - 1
  BY <1>1, BufferAssumption DEF Slots, NextSlot
<1>2. CASE s # TASK_TAB_LENGTH - 1
  BY <1>2, BufferAssumption DEF Slots, NextSlot
<1> QED
  BY <1>1, <1>2

\* A step of the producer keeps the pair's invariant.
LEMMA PairProducer ==
  ASSUME NEW p, NEW c, Producers = {p}, Consumers = {c}, PairInv(p, c), producer(p)
  PROVE  PairInv(p, c)'
<1>1. IInv'
  BY ProducerKeeps DEF PairInv
<1>2. p # c /\ p \in Processes /\ c \in Processes
  BY BufferAssumption DEF Processes
<1>3. /\ pc \in [Processes -> Labels] /\ read \in [Processes -> Nat]
      /\ curren_task_num \in Nat /\ curren_task_num < TASK_TAB_LENGTH
      /\ current_task_number \in Nat /\ current_task_number < TASK_TAB_LENGTH
      /\ sem_producer \in Nat /\ sem_consumer \in Nat /\ TASK_TAB_LENGTH \in Nat \ {0}
  BY BufferAssumption DEF PairInv, IInv, TypeOK, WordsOK, SemaphoresOK, Slots
<1> USE DEF PairInv, Goto
<1>4. RegistersFresh(p, c)'
  BY <1>2, <1>3
  DEF RegistersFresh, producer, DownProducer, WriteEntry, CountPut, AdvancePut, UpConsumer,
      Load, Forget, shared, local, ghost
<1>5. CountersApart(p, c)'
  BY <1>2, <1>3
  DEF RegistersFresh, CountersApart, producer, DownProducer, WriteEntry, CountPut,
      AdvancePut, UpConsumer, Load, Forget, shared, local, ghost
<1>6. SlotsOfPair(p, c)'
  BY <1>2, <1>3
  DEF SlotsOfPair, One, producer, DownProducer, WriteEntry, CountPut,
      AdvancePut, UpConsumer, Load, Forget, shared, local, ghost
<1>7. IndicesApart(p, c)'
  <2>1. CASE AdvancePut(p)
    <3>1. CASE Goto(p, "loadIndex", "storeIndex")
      BY <1>2, <1>3, <2>1, <3>1 DEF AdvancePut, IndicesApart, Ahead, One
    <3>2. CASE Goto(p, "storeIndex", "up")
      <4>1. curren_task_num' = IF curren_task_num = TASK_TAB_LENGTH - 1
                               THEN 0 ELSE curren_task_num + 1
        BY <2>1, <3>2, NextSlotValue DEF AdvancePut, RegistersFresh, IInv, TypeOK, WordsOK
      <4>2. Ahead(p, c)' = Ahead(p, c) + 1 /\ Ahead(p, c) \in Nat
        <5>1. /\ pc[p] = "storeIndex" /\ pc'[p] = "up" /\ pc'[c] = pc[c]
              /\ sem_consumer' = sem_consumer
          BY <1>2, <1>3, <2>1, <3>2 DEF AdvancePut
        <5> DEFINE executing == One(pc[c] \in Executing)
        <5>2. executing \in Nat
          BY DEF One
        <5>3. Ahead(p, c) = sem_consumer + 0 + executing
          BY <5>1 DEF Ahead, One
        <5>4. Ahead(p, c)' = sem_consumer + 1 + executing
          BY <5>1 DEF Ahead, One, Executing
        <5> HIDE DEF executing
        <5> QED
          BY <1>3, <5>2, <5>3, <5>4
      <4>3. current_task_number' = current_task_number
        BY <2>1 DEF AdvancePut
      <4>4. Ahead(p, c) < TASK_TAB_LENGTH
        BY <1>2, <1>3, <3>2 DEF Ahead, SlotsOfPair, One, Executing
      <4> QED
        BY <1>3, <4>1, <4>2, <4>3, <4>4 DEF IndicesApart
    <3> QED
      BY <2>1, <3>1, <3>2 DEF AdvancePut
  <2>2. CASE ~AdvancePut(p)
    BY <1>2, <1>3, <2>2
    DEF IndicesApart, Ahead, One, producer, DownProducer, WriteEntry, CountPut,
        UpConsumer, Load, Forget, shared, local, ghost
  <2> QED
    BY <2>1, <2>2
<1> QED
  BY <1>1, <1>4, <1>5, <1>6, <1>7

\* A step of the consumer does too.
LEMMA PairConsumer ==
  ASSUME NEW p, NEW c, Producers = {p}, Consumers = {c}, PairInv(p, c), consumer(c)
  PROVE  PairInv(p, c)'
<1>1. IInv'
  BY ConsumerKeeps DEF PairInv
<1>2. p # c /\ p \in Processes /\ c \in Processes
  BY BufferAssumption DEF Processes
<1>3. /\ pc \in [Processes -> Labels] /\ read \in [Processes -> Nat]
      /\ curren_task_num \in Nat /\ curren_task_num < TASK_TAB_LENGTH
      /\ current_task_number \in Nat /\ current_task_number < TASK_TAB_LENGTH
      /\ sem_producer \in Nat /\ sem_consumer \in Nat /\ TASK_TAB_LENGTH \in Nat \ {0}
  BY BufferAssumption DEF PairInv, IInv, TypeOK, WordsOK, SemaphoresOK, Slots
<1> USE DEF PairInv, Goto
<1>4. RegistersFresh(p, c)'
  BY <1>2, <1>3
  DEF RegistersFresh, consumer, DownConsumer, LoadEntry, PrintStatistics, CountExecuted,
      AdvanceExecuted, UpProducer, Load, Forget, shared, local, ghost
<1>5. CountersApart(p, c)'
  BY <1>2, <1>3
  DEF RegistersFresh, CountersApart, consumer, DownConsumer, LoadEntry, PrintStatistics,
      CountExecuted, AdvanceExecuted, UpProducer, Load, Forget, shared, local, ghost
<1>6. SlotsOfPair(p, c)'
  BY <1>2, <1>3
  DEF SlotsOfPair, One, consumer, DownConsumer, LoadEntry, PrintStatistics,
      CountExecuted, AdvanceExecuted, UpProducer, Load, Forget, shared, local, ghost
<1>7. IndicesApart(p, c)'
  <2>1. CASE AdvanceExecuted(c)
    <3>1. CASE Goto(c, "loadIndex", "storeIndex")
      BY <1>2, <1>3, <2>1, <3>1 DEF AdvanceExecuted, IndicesApart, Ahead, One, Executing
    <3>2. CASE Goto(c, "storeIndex", "up")
      <4>1. current_task_number' = IF current_task_number = TASK_TAB_LENGTH - 1
                                   THEN 0 ELSE current_task_number + 1
        BY <2>1, <3>2, NextSlotValue DEF AdvanceExecuted, RegistersFresh, IInv, TypeOK, WordsOK
      <4>2. Ahead(p, c) = Ahead(p, c)' + 1 /\ Ahead(p, c)' \in Nat
        BY <1>2, <1>3, <2>1, <3>2 DEF AdvanceExecuted, Ahead, One, Executing
      <4>3. curren_task_num' = curren_task_num
        BY <2>1 DEF AdvanceExecuted
      <4>4. Ahead(p, c) <= TASK_TAB_LENGTH
        BY <1>2, <1>3, <3>2 DEF Ahead, SlotsOfPair, One, Executing
      <4> QED
        BY <1>3, <4>1, <4>2, <4>3, <4>4 DEF IndicesApart
    <3> QED
      BY <2>1, <3>1, <3>2 DEF AdvanceExecuted
  <2>2. CASE ~AdvanceExecuted(c)
    BY <1>2, <1>3, <2>2
    DEF IndicesApart, Ahead, One, Executing, consumer, DownConsumer, LoadEntry,
        PrintStatistics, CountExecuted, UpProducer, Load, Forget, shared, local, ghost
  <2> QED
    BY <2>1, <2>2
<1> QED
  BY <1>1, <1>4, <1>5, <1>6, <1>7

\* The pair's invariant holds of every reachable state.
LEMMA PairInvariant ==
  ASSUME NEW p, NEW c, Producers = {p}, Consumers = {c}
  PROVE  Spec => []PairInv(p, c)
<1>1. p # c /\ p \in Processes /\ c \in Processes
  BY BufferAssumption DEF Processes
<1>2. Init /\ IInv => PairInv(p, c)
  BY <1>1, BufferAssumption
  DEF Init, Start, PairInv, SlotsOfPair, IndicesApart, RegistersFresh, CountersApart,
      Ahead, One, Executing
<1>3. PairInv(p, c) /\ [Next]_vars => PairInv(p, c)'
  <2> SUFFICES ASSUME PairInv(p, c), [Next]_vars PROVE PairInv(p, c)'
    OBVIOUS
  <2>1. CASE UNCHANGED vars
    BY <2>1
    DEF vars, shared, local, ghost, PairInv, SlotsOfPair, IndicesApart, RegistersFresh,
        CountersApart, Ahead, One, IInv, TypeOK, SemaphoresOK, WordsOK, SlotsConserved, Busy
  <2> QED
    BY <2>1, PairProducer, PairConsumer DEF Next
<1> QED
  BY <1>2, <1>3, InvariantHolds, PTL DEF Spec

\* With one producer and one consumer no slot is read while it is written,
\* whatever the length of the table.
THEOREM PairSharesNoSlot ==
  ASSUME NEW p, NEW c, Producers = {p}, Consumers = {c}
  PROVE  Spec => []NoSlotShared
<1>1. PairInv(p, c) => NoSlotShared
  <2> SUFFICES ASSUME PairInv(p, c), pc[p] = "write", pc[c] = "load",
                      curren_task_num = current_task_number
               PROVE  FALSE
    BY DEF NoSlotShared, Writing, Reading
  <2>1. /\ sem_producer \in Nat /\ sem_consumer \in Nat /\ TASK_TAB_LENGTH \in Nat \ {0}
        /\ curren_task_num \in Nat
    BY BufferAssumption DEF PairInv, IInv, TypeOK, WordsOK, SemaphoresOK, Slots
  <2>2. sem_producer + sem_consumer + 2 = TASK_TAB_LENGTH
    BY <2>1 DEF PairInv, SlotsOfPair, One
  <2>3. Ahead(p, c) = sem_consumer + 1
    BY <2>1 DEF Ahead, One, Executing
  <2> QED
    BY <2>1, <2>2, <2>3 DEF PairInv, IndicesApart
<1> QED
  BY <1>1, PairInvariant, PTL

\* With one producer and one consumer both counters are exact.
THEOREM PairCounts ==
  ASSUME NEW p, NEW c, Producers = {p}, Consumers = {c}
  PROVE  Spec => []CompletedTasksCounted
<1>1. PairInv(p, c) => CompletedTasksCounted
  BY DEF PairInv, CountersApart, CompletedTasksCounted, InPut, InExecute
<1> QED
  BY <1>1, PairInvariant, PTL

-----------------------------------------------------------------------------
(***************************************************************************)
(* The pair as a queue: what the abstract TaskQueue is shown, from a first *)
(* slot and for a number of tasks, is changed by put_task's last store, at *)
(* its end, and by the printing of the task, at its head.                  *)
(***************************************************************************)

\* An index that has gone once around the table at most.
LEMMA Remainder ==
  ASSUME NEW a \in Nat, a < 2 * TASK_TAB_LENGTH
  PROVE  a % TASK_TAB_LENGTH = IF a < TASK_TAB_LENGTH THEN a ELSE a - TASK_TAB_LENGTH
<1> DEFINE n == TASK_TAB_LENGTH
<1>1. n \in Nat /\ n > 0
  BY BufferAssumption
<1> HIDE DEF n
<1>2. CASE a < n
  BY <1>1, <1>2 DEF n
<1>3. CASE a >= n
  BY <1>1, <1>3 DEF n
<1> QED
  BY <1>1, <1>2, <1>3 DEF n

\* The k-th slot from f.
Slot(f, k) == (f + k - 1) % TASK_TAB_LENGTH

LEMMA SlotValue ==
  ASSUME NEW f \in Slots, NEW k \in 1 .. TASK_TAB_LENGTH
  PROVE  /\ Slot(f, k) \in Slots
         /\ Slot(f, k) = IF f + k - 1 < TASK_TAB_LENGTH THEN f + k - 1
                         ELSE f + k - 1 - TASK_TAB_LENGTH
<1>1. TASK_TAB_LENGTH \in Nat \ {0} /\ f \in Nat /\ f < TASK_TAB_LENGTH
  BY BufferAssumption DEF Slots
<1>2. f + k - 1 \in Nat /\ f + k - 1 < 2 * TASK_TAB_LENGTH
  BY <1>1
<1>3. Slot(f, k) = IF f + k - 1 < TASK_TAB_LENGTH THEN f + k - 1
                   ELSE f + k - 1 - TASK_TAB_LENGTH
  <2>1. PICK a \in Nat : a = f + k - 1
    BY <1>2
  <2>2. a % TASK_TAB_LENGTH = IF a < TASK_TAB_LENGTH THEN a ELSE a - TASK_TAB_LENGTH
    BY <1>2, <2>1, Remainder
  <2>3. Slot(f, k) = a % TASK_TAB_LENGTH
    BY <2>1 DEF Slot
  <2>4. Slot(f, k) = IF a < TASK_TAB_LENGTH THEN a ELSE a - TASK_TAB_LENGTH
    BY <2>2, <2>3
  <2> QED
    BY <1>1, <2>1, <2>4
<1> QED
  BY <1>1, <1>2, <1>3 DEF Slots

QueueOf(w, f, tab) == [k \in 1 .. w |-> tab[Slot(f, k)]]

LEMMA QueueType ==
  ASSUME NEW w \in 0 .. TASK_TAB_LENGTH, NEW f \in Slots, NEW tab \in [Slots -> Task]
  PROVE  /\ QueueOf(w, f, tab) \in Seq(Task) /\ Len(QueueOf(w, f, tab)) = w
         /\ \A k \in 1 .. w : QueueOf(w, f, tab)[k] = tab[Slot(f, k)]
<1>1. w \in Nat /\ \A k \in 1 .. w : tab[Slot(f, k)] \in Task
  BY BufferAssumption, SlotValue
<1> QED
  BY <1>1 DEF QueueOf

\* One more task is one more at the end.
LEMMA QueueGrows ==
  ASSUME NEW w \in 0 .. TASK_TAB_LENGTH - 1, NEW f \in Slots, NEW tab \in [Slots -> Task]
  PROVE  QueueOf(w + 1, f, tab) = Append(QueueOf(w, f, tab), tab[Slot(f, w + 1)])
<1> DEFINE q == QueueOf(w, f, tab)
           r == QueueOf(w + 1, f, tab)
           t == tab[Slot(f, w + 1)]
<1>1. TASK_TAB_LENGTH \in Nat /\ w \in Nat /\ w + 1 \in 0 .. TASK_TAB_LENGTH
  BY BufferAssumption
<1>2. q \in Seq(Task) /\ Len(q) = w /\ \A k \in 1 .. w : q[k] = tab[Slot(f, k)]
  BY <1>1, QueueType
<1>3. r \in Seq(Task) /\ Len(r) = w + 1 /\ \A k \in 1 .. w + 1 : r[k] = tab[Slot(f, k)]
  BY <1>1, QueueType
<1>4. t \in Task
  BY <1>1, SlotValue
<1> HIDE DEF q, r, t
<1> DEFINE g == Append(q, t)
<1>5. /\ g \in Seq(Task) /\ Len(g) = w + 1 /\ g[w + 1] = t
      /\ \A k \in 1 .. w : g[k] = q[k]
  BY <1>1, <1>2, <1>4
<1> HIDE DEF g
<1>6. \A k \in 1 .. w + 1 : r[k] = g[k]
  <2> SUFFICES ASSUME NEW k \in 1 .. w + 1 PROVE r[k] = g[k]
    OBVIOUS
  <2>1. CASE k \in 1 .. w
    BY <1>2, <1>3, <1>5, <2>1
  <2>2. CASE k = w + 1
    BY <1>3, <1>5, <2>2 DEF t
  <2> QED
    BY <1>1, <2>1, <2>2
<1>7. r = g
  BY <1>3, <1>5, <1>6, SeqEqual
<1> QED
  BY <1>7 DEF g, q, r, t

\* Without the first task the queue starts at the next slot.
LEMMA QueueShrinks ==
  ASSUME NEW w \in 1 .. TASK_TAB_LENGTH, NEW f \in Slots, NEW tab \in [Slots -> Task]
  PROVE  /\ Head(QueueOf(w, f, tab)) = tab[f]
         /\ QueueOf(w - 1, NextSlot(f), tab) = Tail(QueueOf(w, f, tab))
<1> DEFINE q == QueueOf(w, f, tab)
           r == QueueOf(w - 1, NextSlot(f), tab)
<1>1. TASK_TAB_LENGTH \in Nat \ {0} /\ w \in Nat \ {0} /\ w - 1 \in 0 .. TASK_TAB_LENGTH
      /\ f \in Nat /\ f < TASK_TAB_LENGTH
  BY BufferAssumption DEF Slots
<1>2. NextSlot(f) \in Slots /\ NextSlot(f) = IF f = TASK_TAB_LENGTH - 1 THEN 0 ELSE f + 1
  BY <1>1, NextSlotValue DEF Slots
<1>3. q \in Seq(Task) /\ Len(q) = w /\ \A k \in 1 .. w : q[k] = tab[Slot(f, k)]
  BY <1>1, QueueType
<1>4. r \in Seq(Task) /\ Len(r) = w - 1 /\ \A k \in 1 .. w - 1 : r[k] = tab[Slot(NextSlot(f), k)]
  BY <1>1, <1>2, QueueType
<1>5. \A k \in 1 .. w - 1 : Slot(NextSlot(f), k) = Slot(f, k + 1)
  <2> SUFFICES ASSUME NEW k \in 1 .. w - 1 PROVE Slot(NextSlot(f), k) = Slot(f, k + 1)
    OBVIOUS
  <2>1. k \in 1 .. TASK_TAB_LENGTH /\ k + 1 \in 1 .. TASK_TAB_LENGTH /\ k \in Nat
    BY <1>1
  <2>2. Slot(NextSlot(f), k) = IF NextSlot(f) + k - 1 < TASK_TAB_LENGTH THEN NextSlot(f) + k - 1
                               ELSE NextSlot(f) + k - 1 - TASK_TAB_LENGTH
    BY <1>2, <2>1, SlotValue
  <2>3. Slot(f, k + 1) = IF f + (k + 1) - 1 < TASK_TAB_LENGTH THEN f + (k + 1) - 1
                         ELSE f + (k + 1) - 1 - TASK_TAB_LENGTH
    BY <2>1, SlotValue
  <2> QED
    BY <1>1, <1>2, <2>1, <2>2, <2>3
<1>6. Slot(f, 1) = f
  BY <1>1, SlotValue
<1> HIDE DEF q, r
<1>7. Head(q) = q[1] /\ Tail(q) \in Seq(Task) /\ Len(Tail(q)) = w - 1
      /\ \A k \in 1 .. w - 1 : Tail(q)[k] = q[k + 1]
  BY <1>1, <1>3
<1>8. \A k \in 1 .. w - 1 : r[k] = Tail(q)[k]
  <2> SUFFICES ASSUME NEW k \in 1 .. w - 1 PROVE r[k] = Tail(q)[k]
    OBVIOUS
  <2>1. k + 1 \in 1 .. w
    BY <1>1
  <2> QED
    BY <1>3, <1>4, <1>5, <1>7, <2>1
<1>9. r = Tail(q)
  BY <1>4, <1>7, <1>8, SeqEqual
<1>10. Head(q) = tab[f]
  BY <1>1, <1>3, <1>6, <1>7
<1> QED
  BY <1>9, <1>10 DEF q, r

\* What is written elsewhere in the table is not in the queue.
LEMMA QueueUntouched ==
  ASSUME NEW w \in 0 .. TASK_TAB_LENGTH, NEW f \in Slots, NEW tab, NEW new, NEW s,
         \A x \in Slots : x # s => new[x] = tab[x],
         \A k \in 1 .. w : Slot(f, k) # s
  PROVE  QueueOf(w, f, new) = QueueOf(w, f, tab)
<1>1. \A k \in 1 .. w : Slot(f, k) \in Slots
  BY BufferAssumption, SlotValue
<1> QED
  BY <1>1 DEF QueueOf

-----------------------------------------------------------------------------
\* The refinement mapping in terms of the pair.

Loading   == {"load", "print"}
Finishing == {"loadCounter", "storeCounter", "loadIndex", "storeIndex"}

LEMMA OneOrNone ==
  ASSUME NEW x, NEW f, NEW L
  PROVE  Cardinality({y \in {x} : f[y] \in L}) = One(f[x] \in L)
<1>1. CASE f[x] \in L
  <2>1. {y \in {x} : f[y] \in L} = {x}
    BY <1>1
  <2> QED
    BY <1>1, <2>1, FS_Singleton DEF One
<1>2. CASE f[x] \notin L
  <2>1. {y \in {x} : f[y] \in L} = {}
    BY <1>2
  <2> QED
    BY <1>2, <2>1, FS_EmptySet DEF One
<1> QED
  BY <1>1, <1>2

WaitingOf(s, f, p, c) == s + One(f[p] \in {"up"}) + One(f[c] \in Loading)
FirstOf(f, c, s)      == IF f[c] \in Finishing THEN NextSlot(s) ELSE s

LEMMA MappingOfPair ==
  ASSUME NEW p, NEW c, Producers = {p}, Consumers = {c}
  PROVE  /\ Waiting = WaitingOf(sem_consumer, pc, p, c)
         /\ Waiting' = WaitingOf(sem_consumer', pc', p, c)
         /\ First = FirstOf(pc, c, current_task_number)
         /\ First' = FirstOf(pc', c, current_task_number')
<1>1. \A f : {q \in Producers : f[q] = "up"} = {q \in {p} : f[q] \in {"up"}}
  OBVIOUS
<1>2. \A f : {d \in Consumers : f[d] \in {"load", "print"}} = {d \in {c} : f[d] \in Loading}
  BY DEF Loading
<1>3. /\ Waiting = sem_consumer + Cardinality({q \in {p} : pc[q] \in {"up"}})
                     + Cardinality({d \in {c} : pc[d] \in Loading})
      /\ Waiting' = sem_consumer' + Cardinality({q \in {p} : pc'[q] \in {"up"}})
                     + Cardinality({d \in {c} : pc'[d] \in Loading})
  BY <1>1, <1>2 DEF Waiting
<1>4. First = FirstOf(pc, c, current_task_number) /\ First' = FirstOf(pc', c, current_task_number')
  BY DEF First, FirstOf, Finishing
<1> QED
  BY <1>3, <1>4, OneOrNone DEF WaitingOf

\* What the pair's invariant says of the mapping: behind the queue is the slot
\* being filled.
LEMMA QueueOfPair ==
  ASSUME NEW p, NEW c, Producers = {p}, Consumers = {c}, PairInv(p, c)
  PROVE  /\ Waiting \in 0 .. TASK_TAB_LENGTH /\ First \in Slots /\ task_tab \in [Slots -> Task]
         /\ pc[p] \notin {"down", "up"} =>
              /\ Waiting < TASK_TAB_LENGTH
              /\ Slot(First, Waiting + 1) = curren_task_num
              /\ \A k \in 1 .. Waiting : Slot(First, k) # curren_task_num
              /\ pc[c] \in Executing => current_task_number # curren_task_num
<1>1. /\ pc \in [Processes -> Labels] /\ task_tab \in [Slots -> Task]
      /\ curren_task_num \in Slots /\ current_task_number \in Slots
      /\ sem_producer \in Nat /\ sem_consumer \in Nat /\ TASK_TAB_LENGTH \in Nat \ {0}
  BY BufferAssumption DEF PairInv, IInv, TypeOK, WordsOK, SemaphoresOK
<1>2. /\ curren_task_num \in Nat /\ curren_task_num < TASK_TAB_LENGTH
      /\ current_task_number \in Nat /\ current_task_number < TASK_TAB_LENGTH
  BY <1>1 DEF Slots
<1> DEFINE done == One(pc[c] \in Finishing)
<1>3. /\ Waiting = sem_consumer + One(pc[p] = "up") + One(pc[c] \in Loading)
      /\ One(pc[c] \in Executing) = One(pc[c] \in Loading) + done
      /\ \A b : One(b) \in {0, 1}
  <2>1. Waiting = sem_consumer + One(pc[p] \in {"up"}) + One(pc[c] \in Loading)
    BY MappingOfPair DEF WaitingOf
  <2>2. One(pc[p] \in {"up"}) = One(pc[p] = "up")
    BY DEF One
  <2>3. One(pc[c] \in Executing) = One(pc[c] \in Loading) + done
    BY DEF One, Executing, Loading, Finishing
  <2>4. \A b : One(b) \in {0, 1}
    BY DEF One
  <2> QED
    BY <2>1, <2>2, <2>3, <2>4
<1>4. done \in {0, 1} /\ Waiting \in Nat /\ Ahead(p, c) = Waiting + done
  <2>1. One(pc[p] = "up") \in {0, 1} /\ One(pc[c] \in Loading) \in {0, 1} /\ done \in {0, 1}
    BY <1>3
  <2> HIDE DEF done
  <2>2. Waiting \in Nat
    BY <1>1, <1>3, <2>1
  <2>3. Ahead(p, c) = Waiting + done
    BY <1>1, <1>3, <2>1 DEF Ahead
  <2> QED
    BY <2>1, <2>2, <2>3
<1>5. /\ Waiting + done <= TASK_TAB_LENGTH
      /\ pc[p] \notin {"down", "up"} => Waiting + done < TASK_TAB_LENGTH
  <2>1. sem_producer + sem_consumer + One(pc[p] # "down") + One(pc[c] # "down") = TASK_TAB_LENGTH
    BY DEF PairInv, SlotsOfPair
  <2>2. /\ pc[p] = "up" => One(pc[p] = "up") = 1 /\ One(pc[p] # "down") = 1
        /\ pc[p] # "up" => One(pc[p] = "up") = 0
        /\ pc[p] \notin {"down", "up"} => One(pc[p] # "down") = 1
        /\ One(pc[p] # "down") \in {0, 1}
    BY DEF One
  <2>3. /\ One(pc[c] \in Executing) <= One(pc[c] # "down")
        /\ One(pc[c] \in Executing) \in {0, 1} /\ One(pc[c] # "down") \in {0, 1}
    BY DEF One, Executing
  <2>4. Ahead(p, c) = sem_consumer + One(pc[p] = "up") + One(pc[c] \in Executing)
    BY DEF Ahead
  <2> HIDE DEF done
  <2> QED
    BY <1>1, <1>4, <2>1, <2>2, <2>3, <2>4
<1>6. /\ First \in Slots /\ First \in Nat
      /\ First = current_task_number + done \/ First = current_task_number + done - TASK_TAB_LENGTH
  <2>1. First = IF pc[c] \in Finishing THEN NextSlot(current_task_number) ELSE current_task_number
    BY MappingOfPair DEF FirstOf
  <2>2. /\ NextSlot(current_task_number) \in Slots
        /\ NextSlot(current_task_number) = IF current_task_number = TASK_TAB_LENGTH - 1
                                           THEN 0 ELSE current_task_number + 1
    BY <1>1, <1>2, NextSlotValue DEF Slots
  <2>3. CASE pc[c] \in Finishing
    <3>1. done = 1
      BY <2>3 DEF One
    <3> HIDE DEF done
    <3> QED
      BY <1>1, <1>2, <2>1, <2>2, <2>3, <3>1 DEF Slots
  <2>4. CASE pc[c] \notin Finishing
    <3>1. done = 0
      BY <2>4 DEF One
    <3> HIDE DEF done
    <3> QED
      BY <1>1, <1>2, <2>1, <2>4, <3>1 DEF Slots
  <2> QED
    BY <2>3, <2>4
<1> HIDE DEF done
<1>7. ASSUME pc[p] \notin {"down", "up"}
      PROVE  /\ Waiting < TASK_TAB_LENGTH
             /\ Slot(First, Waiting + 1) = curren_task_num
             /\ \A k \in 1 .. Waiting : Slot(First, k) # curren_task_num
             /\ pc[c] \in Executing => current_task_number # curren_task_num
  <2>1. Waiting < TASK_TAB_LENGTH /\ Waiting + done < TASK_TAB_LENGTH
    BY <1>1, <1>4, <1>5, <1>7
  <2>2. \/ curren_task_num = current_task_number + Waiting + done
        \/ curren_task_num + TASK_TAB_LENGTH = current_task_number + Waiting + done
    BY <1>1, <1>2, <1>4 DEF PairInv, IndicesApart
  <2>3. \A k \in 1 .. Waiting + 1 : k \in Nat /\ k >= 1 /\ k <= Waiting + 1
          /\ Slot(First, k) = IF First + k - 1 < TASK_TAB_LENGTH THEN First + k - 1
                              ELSE First + k - 1 - TASK_TAB_LENGTH
    <3> SUFFICES ASSUME NEW k \in 1 .. Waiting + 1
                 PROVE  k \in Nat /\ k >= 1 /\ k <= Waiting + 1
                        /\ Slot(First, k) = IF First + k - 1 < TASK_TAB_LENGTH THEN First + k - 1
                                            ELSE First + k - 1 - TASK_TAB_LENGTH
      OBVIOUS
    <3>1. k \in 1 .. TASK_TAB_LENGTH /\ k \in Nat /\ k >= 1 /\ k <= Waiting + 1
      BY <1>1, <1>4, <2>1
    <3> QED
      BY <1>6, <3>1, SlotValue
  <2>4. Waiting + 1 \in 1 .. Waiting + 1
    BY <1>4
  <2>5. First < TASK_TAB_LENGTH
    BY <1>1, <1>6 DEF Slots
  <2>6. Slot(First, Waiting + 1) = curren_task_num
    <3>1. Slot(First, Waiting + 1) =
            IF First + (Waiting + 1) - 1 < TASK_TAB_LENGTH THEN First + (Waiting + 1) - 1
            ELSE First + (Waiting + 1) - 1 - TASK_TAB_LENGTH
      BY <2>3, <2>4
    <3> QED
      BY <1>1, <1>2, <1>4, <1>6, <2>1, <2>2, <2>5, <3>1
  <2>7. \A k \in 1 .. Waiting : Slot(First, k) # curren_task_num
    <3> SUFFICES ASSUME NEW k \in 1 .. Waiting, Slot(First, k) = Slot(First, Waiting + 1) PROVE FALSE
      BY <2>6
    <3>1. k \in 1 .. Waiting + 1 /\ k \in Nat /\ k <= Waiting /\ k >= 1
      BY <1>4
    <3>2. Slot(First, k) = IF First + k - 1 < TASK_TAB_LENGTH THEN First + k - 1
                           ELSE First + k - 1 - TASK_TAB_LENGTH
      BY <2>3, <3>1
    <3>3. Slot(First, Waiting + 1) =
            IF First + (Waiting + 1) - 1 < TASK_TAB_LENGTH THEN First + (Waiting + 1) - 1
            ELSE First + (Waiting + 1) - 1 - TASK_TAB_LENGTH
      BY <2>3, <2>4
    <3> QED
      BY <1>1, <1>4, <1>6, <2>1, <2>5, <3>1, <3>2, <3>3
  <2>8. pc[c] \in Executing => current_task_number # curren_task_num
    <3> SUFFICES ASSUME pc[c] \in Executing PROVE current_task_number # curren_task_num
      OBVIOUS
    <3>1. Waiting + done >= 1
      <4>1. One(pc[c] \in Executing) = 1 /\ One(pc[p] = "up") \in {0, 1}
        BY DEF One
      <4> QED
        BY <1>1, <1>4, <4>1 DEF Ahead
    <3> QED
      BY <1>1, <1>2, <1>4, <2>1, <2>2, <3>1
  <2> QED
    BY <2>1, <2>6, <2>7, <2>8
<1> QED
  BY <1>1, <1>4, <1>5, <1>6, <1>7

-----------------------------------------------------------------------------
\* What the consumer has loaded is what is in the slot: nobody writes it meanwhile.

Loaded(c) ==
  /\ pc[c] # "load" => i[c] = 0
  /\ i[c] < TASK_LENGTH
  /\ pc[c] = "load" =>
       \A e \in Entries : e < i[c] => task[c][e] = task_tab[current_task_number][e]
  /\ pc[c] = "print" => task[c] = task_tab[current_task_number]

LEMMA ProducerLeavesLoaded ==
  ASSUME NEW p, NEW c, Producers = {p}, Consumers = {c}, PairInv(p, c), Loaded(c), producer(p)
  PROVE  Loaded(c)'
<1>1. /\ p # c /\ p \in Processes /\ c \in Processes /\ pc \in [Processes -> Labels]
      /\ i \in [Processes -> 0 .. TASK_LENGTH] /\ task_tab \in [Slots -> Task]
      /\ current_task_number \in Slots
  BY BufferAssumption DEF Processes, PairInv, IInv, TypeOK, WordsOK
<1>2. /\ pc'[c] = pc[c] /\ i'[c] = i[c] /\ task' = task
      /\ current_task_number' = current_task_number
  BY <1>1
  DEF producer, DownProducer, WriteEntry, CountPut, AdvancePut, UpConsumer, Goto, shared, local
<1>3. pc[c] \in Loading => task_tab'[current_task_number] = task_tab[current_task_number]
  <2>1. CASE WriteEntry(p)
    <3> SUFFICES ASSUME pc[c] \in Loading
                 PROVE  task_tab'[current_task_number] = task_tab[current_task_number]
      OBVIOUS
    <3>1. pc[p] = "write" /\ pc[c] \in Executing
      BY <2>1 DEF WriteEntry, Goto, Loading, Executing
    <3>2. current_task_number # curren_task_num
      BY <3>1, QueueOfPair
    <3> QED
      BY <1>1, <2>1, <3>2 DEF WriteEntry
  <2>2. CASE ~WriteEntry(p)
    BY <2>2 DEF producer, DownProducer, CountPut, AdvancePut, UpConsumer, shared
  <2> QED
    BY <2>1, <2>2
<1> QED
  BY <1>2, <1>3 DEF Loaded, Loading

LEMMA ConsumerKeepsLoaded ==
  ASSUME NEW p, NEW c, Producers = {p}, Consumers = {c}, PairInv(p, c), Loaded(c), consumer(c)
  PROVE  Loaded(c)'
<1>1. /\ c \in Processes /\ pc \in [Processes -> Labels]
      /\ i \in [Processes -> 0 .. TASK_LENGTH] /\ task \in [Processes -> Task]
      /\ task_tab \in [Slots -> Task] /\ current_task_number \in Slots
      /\ TASK_LENGTH \in Nat \ {0}
  BY BufferAssumption DEF Processes, PairInv, IInv, TypeOK, WordsOK
<1>2. CASE LoadEntry(c)
  <2>1. /\ pc[c] = "load" /\ i[c] \in Nat /\ i[c] < TASK_LENGTH /\ i[c] \in Entries
        /\ task_tab' = task_tab /\ current_task_number' = current_task_number
        /\ i' = [i EXCEPT ![c] = NextEntry(@)]
        /\ task' = [task EXCEPT ![c][i[c]] = task_tab[current_task_number][i[c]]]
    BY <1>1, <1>2 DEF LoadEntry, Goto, Loaded, shared, Entries
  <2>2. \A e \in Entries : task'[c][e] = IF e = i[c] THEN task_tab[current_task_number][e]
                                         ELSE task[c][e]
    BY <1>1, <2>1 DEF Task
  <2>3. CASE i[c] + 1 < TASK_LENGTH /\ Goto(c, "load", "load")
    <3>1. i'[c] = i[c] + 1 /\ pc'[c] = "load"
      BY <1>1, <2>1, <2>3 DEF NextEntry, Goto
    <3>2. \A e \in Entries : e < i[c] + 1 => e < i[c] \/ e = i[c]
      BY <1>1, <2>1 DEF Entries
    <3> QED
      BY <2>1, <2>2, <2>3, <3>1, <3>2 DEF Loaded
  <2>4. CASE i[c] + 1 = TASK_LENGTH /\ Goto(c, "load", "print")
    <3>1. i'[c] = 0 /\ pc'[c] = "print"
      BY <1>1, <2>1, <2>4 DEF NextEntry, Goto
    <3>2. \A e \in Entries : e < i[c] \/ e = i[c]
      BY <1>1, <2>1, <2>4 DEF Entries
    <3>3. \A e \in Entries : task'[c][e] = task_tab[current_task_number][e]
      BY <2>1, <2>2, <3>2 DEF Loaded
    <3>4. task'[c] \in Task /\ task_tab[current_task_number] \in Task
      <4>1. task_tab[current_task_number] \in Task
        BY <1>1
      <4>2. task_tab[current_task_number][i[c]] \in Value \cup {Zero}
        BY <2>1, <4>1 DEF Task
      <4>3. task'[c] = [task[c] EXCEPT ![i[c]] = task_tab[current_task_number][i[c]]]
        BY <1>1, <2>1
      <4>4. task[c] \in Task
        BY <1>1
      <4> QED
        BY <4>1, <4>2, <4>3, <4>4 DEF Task
    <3>5. task'[c] = task_tab[current_task_number]
      BY <3>3, <3>4 DEF Task
    <3> QED
      BY <1>1, <2>1, <3>1, <3>5 DEF Loaded
  <2> QED
    BY <1>2, <2>3, <2>4 DEF LoadEntry
<1>3. CASE DownConsumer(c)
  <2>1. pc[c] = "down" /\ pc'[c] = "load" /\ i' = i /\ i[c] = 0
    BY <1>1, <1>3 DEF DownConsumer, Goto, local, Loaded
  <2>2. \A e \in Entries : ~(e < 0)
    BY <1>1 DEF Entries
  <2> QED
    BY <1>1, <2>1, <2>2 DEF Loaded
<1>4. CASE PrintStatistics(c) \/ CountExecuted(c) \/ AdvanceExecuted(c) \/ UpProducer(c)
  <2>1. pc[c] # "load" /\ pc'[c] \notin {"load", "print"} /\ i' = i
    BY <1>1, <1>4
    DEF PrintStatistics, CountExecuted, AdvanceExecuted, UpProducer, Goto, shared, local
  <2> QED
    BY <2>1 DEF Loaded
<1> QED
  BY <1>2, <1>3, <1>4 DEF consumer

LEMMA LoadedInvariant ==
  ASSUME NEW p, NEW c, Producers = {p}, Consumers = {c}
  PROVE  Spec => [](PairInv(p, c) /\ Loaded(c))
<1>1. Init => Loaded(c)
  BY BufferAssumption DEF Init, Start, Loaded, Processes
<1>2. PairInv(p, c) /\ Loaded(c) /\ [Next]_vars => Loaded(c)'
  <2> SUFFICES ASSUME PairInv(p, c), Loaded(c), [Next]_vars PROVE Loaded(c)'
    OBVIOUS
  <2>1. CASE UNCHANGED vars
    BY <2>1 DEF vars, shared, local, Loaded
  <2> QED
    BY <2>1, ProducerLeavesLoaded, ConsumerKeepsLoaded DEF Next
<1> QED
  BY <1>1, <1>2, PairInvariant, PTL DEF Spec

-----------------------------------------------------------------------------
\* The refinement, step by step.

TheQueue == QueueOf(Waiting, First, task_tab)

\* The abstract actions, of the queue the mapping shows.
LEMMA AbstractActions ==
  /\ Queue!Init <=> TheQueue = <<>> /\ executed = NoTask
  /\ \A t : Queue!Put(t) <=> Len(TheQueue) < TASK_TAB_LENGTH /\ TheQueue' = Append(TheQueue, t)
                             /\ executed' = executed
  /\ Queue!Execute <=> TheQueue # <<>> /\ executed' = Head(TheQueue) /\ TheQueue' = Tail(TheQueue)
  /\ UNCHANGED Queue!vars <=> TheQueue' = TheQueue /\ executed' = executed
BY DEF TheQueue, QueueOf, Slot, Queue!Init, Queue!Put, Queue!Execute, Queue!vars

\* A step of the producer appends the task it has written, or nothing.
LEMMA ProducerImplements ==
  ASSUME NEW p, NEW c, Producers = {p}, Consumers = {c}, PairInv(p, c), PairInv(p, c)', producer(p)
  PROVE  [Queue!Next]_(Queue!vars)
<1>1. /\ p # c /\ p \in Processes /\ c \in Processes /\ pc \in [Processes -> Labels]
      /\ sem_consumer \in Nat /\ curren_task_num \in Slots /\ task_tab \in [Slots -> Task]
      /\ TASK_TAB_LENGTH \in Nat
  <2>1. p # c /\ p \in Processes /\ c \in Processes /\ TASK_TAB_LENGTH \in Nat
    BY BufferAssumption DEF Processes
  <2>2. /\ pc \in [Processes -> Labels] /\ sem_consumer \in Nat /\ curren_task_num \in Slots
        /\ task_tab \in [Slots -> Task]
    BY DEF PairInv, IInv, TypeOK, WordsOK, SemaphoresOK
  <2> QED
    BY <2>1, <2>2
<1>2. /\ Waiting = WaitingOf(sem_consumer, pc, p, c)
      /\ Waiting' = WaitingOf(sem_consumer', pc', p, c)
      /\ First = FirstOf(pc, c, current_task_number)
      /\ First' = FirstOf(pc', c, current_task_number')
  BY MappingOfPair
<1>3. /\ Waiting \in 0 .. TASK_TAB_LENGTH /\ First \in Slots
      /\ pc[p] \notin {"down", "up"} =>
              /\ Waiting < TASK_TAB_LENGTH
              /\ Slot(First, Waiting + 1) = curren_task_num
              /\ \A k \in 1 .. Waiting : Slot(First, k) # curren_task_num
  BY QueueOfPair
<1>4. pc'[c] = pc[c] /\ current_task_number' = current_task_number /\ executed' = executed
  BY <1>1
  DEF producer, DownProducer, WriteEntry, CountPut, AdvancePut, UpConsumer, Goto, shared, local
<1>5. First' = First
  BY <1>2, <1>4 DEF FirstOf
<1>6. CASE AdvancePut(p) /\ Goto(p, "storeIndex", "up")
  <2>1. pc[p] = "storeIndex" /\ pc'[p] = "up" /\ sem_consumer' = sem_consumer /\ task_tab' = task_tab
    BY <1>1, <1>6 DEF AdvancePut, Goto
  <2>2. Waiting' = Waiting + 1
    <3>1. One(pc[p] \in {"up"}) = 0 /\ One(pc'[p] \in {"up"}) = 1
      BY <2>1 DEF One
    <3>2. One(pc[c] \in Loading) \in Nat
      BY DEF One
    <3> QED
      BY <1>1, <1>2, <1>4, <2>1, <3>1, <3>2 DEF WaitingOf
  <2>3. Waiting \in 0 .. TASK_TAB_LENGTH - 1 /\ Slot(First, Waiting + 1) = curren_task_num
    BY <1>1, <1>3, <2>1
  <2>4. TheQueue' = Append(TheQueue, task_tab[curren_task_num])
    <3>1. TheQueue' = QueueOf(Waiting + 1, First, task_tab)
      BY <1>5, <2>1, <2>2 DEF TheQueue
    <3>2. QueueOf(Waiting + 1, First, task_tab) =
            Append(QueueOf(Waiting, First, task_tab), task_tab[Slot(First, Waiting + 1)])
      BY <1>1, <1>3, <2>3, QueueGrows
    <3> QED
      BY <2>3, <3>1, <3>2 DEF TheQueue
  <2>5. Len(TheQueue) < TASK_TAB_LENGTH
    BY <1>1, <1>3, <2>3, QueueType DEF TheQueue
  <2>6. PICK t \in Task : t = task_tab[curren_task_num]
    BY <1>1
  <2>7. TheQueue' = Append(TheQueue, t)
    BY <2>4, <2>6
  <2>8. Queue!Put(t)
    BY <1>4, <2>5, <2>7, AbstractActions
  <2> QED
    BY <2>8 DEF Queue!Next
<1>7. CASE ~(AdvancePut(p) /\ Goto(p, "storeIndex", "up"))
  <2>1. Waiting' = Waiting
    <3>1. One(pc[c] \in Loading) \in Nat /\ One(pc'[c] \in Loading) = One(pc[c] \in Loading)
      BY <1>4 DEF One
    <3>2. sem_consumer' + One(pc'[p] \in {"up"}) = sem_consumer + One(pc[p] \in {"up"})
      BY <1>1, <1>7
      DEF One, producer, DownProducer, WriteEntry, CountPut, AdvancePut, UpConsumer, Goto
    <3>3. One(pc'[p] \in {"up"}) \in Nat /\ One(pc[p] \in {"up"}) \in Nat /\ sem_consumer' \in Nat
      BY <1>1 DEF One, PairInv, IInv, TypeOK, SemaphoresOK
    <3> QED
      BY <1>1, <1>2, <3>1, <3>2, <3>3 DEF WaitingOf
  <2>2. TheQueue' = TheQueue
    <3>1. CASE WriteEntry(p)
      <4>1. pc[p] = "write"
        BY <3>1 DEF WriteEntry, Goto
      <4>2. \A x \in Slots : x # curren_task_num => task_tab'[x] = task_tab[x]
        BY <1>1, <3>1 DEF WriteEntry
      <4>3. QueueOf(Waiting, First, task_tab') = QueueOf(Waiting, First, task_tab)
        BY <1>3, <4>1, <4>2, QueueUntouched
      <4> QED
        BY <1>5, <2>1, <4>3 DEF TheQueue
    <3>2. CASE task_tab' = task_tab
      BY <1>5, <2>1, <3>2 DEF TheQueue
    <3> QED
      BY <3>1, <3>2 DEF producer, DownProducer, CountPut, AdvancePut, UpConsumer, shared
  <2> QED
    BY <1>4, <2>2, AbstractActions
<1> QED
  BY <1>6, <1>7

\* A step of the consumer executes the first task, or none.
LEMMA ConsumerImplements ==
  ASSUME NEW p, NEW c, Producers = {p}, Consumers = {c}, PairInv(p, c), PairInv(p, c)', Loaded(c),
         consumer(c)
  PROVE  [Queue!Next]_(Queue!vars)
<1>1. /\ p # c /\ p \in Processes /\ c \in Processes /\ pc \in [Processes -> Labels]
      /\ sem_consumer \in Nat /\ task_tab \in [Slots -> Task] /\ TASK_TAB_LENGTH \in Nat
      /\ current_task_number \in Slots
  <2>1. p # c /\ p \in Processes /\ c \in Processes /\ TASK_TAB_LENGTH \in Nat
    BY BufferAssumption DEF Processes
  <2>2. /\ pc \in [Processes -> Labels] /\ sem_consumer \in Nat /\ task_tab \in [Slots -> Task]
        /\ current_task_number \in Slots
    BY DEF PairInv, IInv, TypeOK, WordsOK, SemaphoresOK
  <2> QED
    BY <2>1, <2>2
<1>2. /\ Waiting = WaitingOf(sem_consumer, pc, p, c)
      /\ Waiting' = WaitingOf(sem_consumer', pc', p, c)
      /\ First = FirstOf(pc, c, current_task_number)
      /\ First' = FirstOf(pc', c, current_task_number')
  BY MappingOfPair
<1>3. Waiting \in 0 .. TASK_TAB_LENGTH /\ First \in Slots
  BY QueueOfPair
<1>4. pc'[p] = pc[p] /\ task_tab' = task_tab
  BY <1>1
  DEF consumer, DownConsumer, LoadEntry, PrintStatistics, CountExecuted, AdvanceExecuted,
      UpProducer, Goto, shared
<1>5. One(pc[p] \in {"up"}) \in Nat /\ One(pc'[p] \in {"up"}) = One(pc[p] \in {"up"})
  BY <1>4 DEF One
<1>6. CASE PrintStatistics(c)
  <2>1. /\ pc[c] = "print" /\ pc'[c] = "loadCounter" /\ executed' = task[c]
        /\ sem_consumer' = sem_consumer /\ current_task_number' = current_task_number
    BY <1>1, <1>6 DEF PrintStatistics, Goto, shared
  <2>2. First = current_task_number /\ First' = NextSlot(First)
    BY <1>2, <2>1 DEF FirstOf, Finishing
  <2>3. Waiting' = Waiting - 1 /\ Waiting \in 1 .. TASK_TAB_LENGTH
    <3>1. One(pc[c] \in Loading) = 1 /\ One(pc'[c] \in Loading) = 0
      BY <2>1 DEF One, Loading
    <3> QED
      BY <1>1, <1>2, <1>3, <1>5, <2>1, <3>1 DEF WaitingOf
  <2>4. Head(TheQueue) = task_tab[First] /\ TheQueue' = Tail(TheQueue)
    <3>1. TheQueue' = QueueOf(Waiting - 1, NextSlot(First), task_tab)
      BY <1>4, <2>2, <2>3 DEF TheQueue
    <3>2. /\ Head(QueueOf(Waiting, First, task_tab)) = task_tab[First]
          /\ QueueOf(Waiting - 1, NextSlot(First), task_tab) = Tail(QueueOf(Waiting, First, task_tab))
      BY <1>1, <1>3, <2>3, QueueShrinks
    <3> QED
      BY <3>1, <3>2 DEF TheQueue
  <2>5. TheQueue # <<>>
    <3>1. TheQueue \in Seq(Task) /\ Len(TheQueue) = Waiting
      BY <1>1, <1>3, QueueType DEF TheQueue
    <3> QED
      BY <2>3, <3>1
  <2>6. executed' = task_tab[First]
    BY <2>1, <2>2 DEF Loaded
  <2> QED
    BY <2>4, <2>5, <2>6, AbstractActions DEF Queue!Next
<1>7. CASE ~PrintStatistics(c)
  <2>1. executed' = executed
    BY <1>7 DEF consumer, DownConsumer, LoadEntry, CountExecuted, AdvanceExecuted, UpProducer
  <2>2. Waiting' = Waiting
    <3>1. sem_consumer' + One(pc'[c] \in Loading) = sem_consumer + One(pc[c] \in Loading)
      BY <1>1, <1>7
      DEF One, Loading, consumer, DownConsumer, LoadEntry, CountExecuted, AdvanceExecuted,
          UpProducer, Goto
    <3>2. One(pc'[c] \in Loading) \in Nat /\ One(pc[c] \in Loading) \in Nat /\ sem_consumer' \in Nat
      BY DEF One, PairInv, IInv, TypeOK, SemaphoresOK
    <3> QED
      BY <1>1, <1>2, <1>5, <3>1, <3>2 DEF WaitingOf
  <2>3. First' = First
    <3>1. CASE AdvanceExecuted(c) /\ Goto(c, "storeIndex", "up")
      <4>1. pc[c] = "storeIndex" /\ pc'[c] = "up" /\ current_task_number' = NextSlot(read[c])
        BY <1>1, <3>1 DEF AdvanceExecuted, Goto
      <4>2. read[c] = current_task_number
        BY <4>1 DEF PairInv, RegistersFresh
      <4> QED
        BY <1>2, <4>1, <4>2 DEF FirstOf, Finishing
    <3>2. CASE ~(AdvanceExecuted(c) /\ Goto(c, "storeIndex", "up"))
      <4>1. current_task_number' = current_task_number
        BY <1>7, <3>2
        DEF consumer, DownConsumer, LoadEntry, CountExecuted, AdvanceExecuted, UpProducer, shared
      <4>2. pc'[c] \in Finishing <=> pc[c] \in Finishing
        BY <1>1, <1>7, <3>2
        DEF Finishing, consumer, DownConsumer, LoadEntry, CountExecuted, AdvanceExecuted,
            UpProducer, Goto
      <4> QED
        BY <1>2, <4>1, <4>2 DEF FirstOf
    <3> QED
      BY <3>1, <3>2
  <2>4. TheQueue' = TheQueue
    BY <1>4, <2>2, <2>3 DEF TheQueue
  <2> QED
    BY <2>1, <2>4, AbstractActions
<1> QED
  BY <1>6, <1>7

\* With one producer and one consumer the initial states and the steps of the
\* program are those of the bounded queue; that every task is executed in the end
\* is a question of fairness.
THEOREM PairIsQueue ==
  ASSUME NEW p, NEW c, Producers = {p}, Consumers = {c}
  PROVE  Spec => Queue!Init /\ [][Queue!Next]_(Queue!vars)
<1>1. Init => Queue!Init
  <2> SUFFICES ASSUME Init PROVE Queue!Init
    OBVIOUS
  <2>1. /\ p \in Processes /\ c \in Processes /\ executed = NoTask
        /\ sem_consumer = 0 /\ pc = [x \in Processes |-> "down"]
    BY DEF Init, Start, Processes
  <2>2. Waiting = 0
    <3>1. One(pc[p] \in {"up"}) = 0 /\ One(pc[c] \in Loading) = 0
      BY <2>1 DEF One, Loading
    <3> QED
      BY <2>1, <3>1, MappingOfPair DEF WaitingOf
  <2>3. TheQueue = <<>>
    BY <2>2 DEF TheQueue, QueueOf
  <2> QED
    BY <2>1, <2>3, AbstractActions
<1>2. /\ PairInv(p, c) /\ Loaded(c) /\ PairInv(p, c)' /\ [Next]_vars
      => [Queue!Next]_(Queue!vars)
  <2> SUFFICES ASSUME PairInv(p, c), Loaded(c), PairInv(p, c)', [Next]_vars
               PROVE  [Queue!Next]_(Queue!vars)
    OBVIOUS
  <2>1. CASE UNCHANGED vars
    <3>1. UNCHANGED <<sem_consumer, pc, current_task_number, task_tab, executed>>
      BY <2>1 DEF vars, shared
    <3>2. Waiting' = Waiting /\ First' = First
      BY <3>1, MappingOfPair
    <3>3. TheQueue' = TheQueue
      BY <3>1, <3>2 DEF TheQueue
    <3> QED
      BY <3>1, <3>3, AbstractActions
  <2> QED
    BY <2>1, ProducerImplements, ConsumerImplements DEF Next
<1> QED
  BY <1>1, <1>2, LoadedInvariant, PTL DEF Spec

-----------------------------------------------------------------------------
\* The startup

\* TaskStartup has the operators of FiniteSets under names of its own.
LEMMA SameSets == \A X : S!Cardinality(X) = Cardinality(X)
BY DEF S!Cardinality, Cardinality

StartupLabels ==
  {"exec", "shmget", "semget", "eexist", "semget2", "shmat", "reset", "setProducer",
   "setConsumer", "down", "work", "up", "rmshm", "rmsem", "shmdt", "ended", "cut"}

\* The identifiers used up; a new one is made only by a producer that has not got
\* that far before, so there are never more than Ids.
Made  == 0 .. sets_made - 1
Fresh == {p \in ComingProducers : step[p] \in {"exec", "shmget", "semget"}}

StartupTypeOK ==
  /\ sem_key \in Made \cup {S!Missing} /\ sets_made \in Nat
  /\ sets_made + Cardinality(Fresh) <= Cardinality(ComingProducers)
  /\ shm_key \in Nat \cup {S!Missing} /\ segs_made \in Nat
  /\ live_sets \subseteq Made /\ live_segs \subseteq Nat
  /\ semval \in [S!Ids -> [{S!SEM_PRODUCER, S!SEM_CONSUMER} -> Nat]]
  /\ initialised \subseteq Made /\ missed \in [S!Ids -> Nat]
  /\ step \in [S!Processes -> StartupLabels]
  /\ sem_id \in [S!Processes -> Int] /\ shm_id \in [S!Processes -> Int]
  /\ attached \in [S!Processes -> BOOLEAN]
  /\ is_sem_created \in [S!Processes -> BOOLEAN]
  /\ interrupted \in [S!Processes -> BOOLEAN]

\* A producer that has made a set and not yet set its SEM_PRODUCER.
Initialising(p) ==
  \/ step[p] = "shmat" /\ ~is_sem_created[p]
  \/ step[p] \in {"reset", "setProducer"}

\* A set has one initialiser, and no values before that one sets them.
InitialiserInv ==
  /\ \A p \in ComingProducers : step[p] = "semget2" => is_sem_created[p]
  /\ \A p \in ComingProducers :
       step[p] \in {"exec", "shmget", "semget", "eexist", "reset", "setProducer", "setConsumer"}
         => ~is_sem_created[p]
  /\ \A p \in ComingProducers : Initialising(p) => sem_id[p] \in Made \ initialised
  /\ \A p \in ComingProducers : step[p] = "setConsumer" => sem_id[p] \in Made
  /\ \A p, q \in ComingProducers :
       /\ Initialising(p) \/ step[p] = "setConsumer"
       /\ Initialising(q) \/ step[q] = "setConsumer"
       /\ sem_id[p] = sem_id[q]
       => p = q

\* A producer at the table is attached to it: it tests what shmat() returned.
ProducersAttached ==
  \A p \in ComingProducers :
    step[p] \in {"reset", "setProducer", "setConsumer", "down", "work", "up"} => attached[p]

\* Where the producer that made a set has the set still to remove, or was stopped.
Removing == {"rmshm", "rmsem", "cut"}

\* The set that the key names exists, and so does the producer that made it, on its
\* way to the loop, in the loop, or removing it.  When it removes an initialised set
\* a SIGINT has sent it there: no call of its own fails while the set exists.
SetHasRemover ==
  sem_key # S!Missing =>
    /\ sem_key \in live_sets
    /\ \E p \in ComingProducers :
         /\ sem_id[p] = sem_key /\ ~is_sem_created[p]
         /\ step[p] \notin {"exec", "shmget", "semget", "eexist", "semget2", "shmdt", "ended"}
         /\ step[p] \in Removing /\ sem_key \in initialised => interrupted[p]

StartupInv ==
  StartupTypeOK /\ S!SlotsAccounted /\ InitialiserInv /\ ProducersAttached /\ SetHasRemover

-----------------------------------------------------------------------------
\* Counting processes

LEMMA FiniteGroups ==
  /\ IsFiniteSet(S!Processes) /\ Cardinality(ComingProducers) \in Nat
         /\ IsFiniteSet(Fresh) /\ Cardinality(Fresh) \in Nat
         /\ IsFiniteSet(Fresh') /\ Cardinality(Fresh') \in Nat
<1>1. IsFiniteSet(S!Processes)
  BY ComingAssumption, FS_Union DEF S!Processes
<1>2. Fresh \subseteq ComingProducers /\ Fresh' \subseteq ComingProducers
  BY DEF Fresh
<1> QED
  BY ComingAssumption, <1>1, <1>2, FS_Subset, FS_CardinalityType

\* A set that has been made has an identifier.
LEMMA MadeIsKnown ==
  ASSUME StartupTypeOK
  PROVE  Made \subseteq S!Ids
BY FiniteGroups, SameSets DEF StartupTypeOK, Made, S!Ids

\* Producers never become fresh again.
LEMMA FreshShrinks ==
  ASSUME StartupTypeOK, UNCHANGED sets_made, Fresh' \subseteq Fresh
  PROVE  sets_made' + Cardinality(Fresh') <= Cardinality(ComingProducers)
<1>1. Cardinality(Fresh') <= Cardinality(Fresh)
  BY FiniteGroups, FS_Subset
<1> QED
  BY <1>1, FiniteGroups DEF StartupTypeOK

Holders(s) == {p \in S!Processes : S!Holds(p, s)}

\* What one process's step does to the number of those that hold a slot of s.
LEMMA HoldersChange ==
  ASSUME StartupTypeOK, NEW p \in S!Processes, NEW to \in StartupLabels,
         step' = [step EXCEPT ![p] = to], UNCHANGED sem_id, NEW s \in S!Ids
  PROVE  /\ Cardinality(Holders(s)) \in Nat /\ Cardinality(Holders(s)') \in Nat
         /\ Cardinality(Holders(s)') =
              Cardinality(Holders(s))
                + (IF sem_id[p] = s /\ to \in {"work", "up"} THEN 1 ELSE 0)
                - (IF sem_id[p] = s /\ step[p] \in {"work", "up"} THEN 1 ELSE 0)
<1>1. IsFiniteSet(Holders(s)) /\ IsFiniteSet(Holders(s)')
  <2>1. Holders(s) \subseteq S!Processes /\ Holders(s)' \subseteq S!Processes
    BY DEF Holders
  <2> QED
    BY <2>1, FiniteGroups, FS_Subset
<1>2. Cardinality(Holders(s)) \in Nat /\ Cardinality(Holders(s)') \in Nat
  BY <1>1, FS_CardinalityType
<1>3. \A q \in S!Processes : q # p => (S!Holds(q, s)' <=> S!Holds(q, s))
  BY DEF StartupTypeOK, S!Holds
<1>4. /\ S!Holds(p, s) <=> (sem_id[p] = s /\ step[p] \in {"work", "up"})
      /\ S!Holds(p, s)' <=> (sem_id[p] = s /\ to \in {"work", "up"})
  BY DEF StartupTypeOK, S!Holds
<1>5. CASE S!Holds(p, s)' <=> S!Holds(p, s)
  <2>1. Holders(s)' = Holders(s)
    BY <1>3, <1>5 DEF Holders
  <2> QED
    BY <1>2, <1>4, <1>5, <2>1
<1>6. CASE S!Holds(p, s) /\ ~S!Holds(p, s)'
  <2>1. p \in Holders(s) /\ Holders(s)' = Holders(s) \ {p}
    BY <1>3, <1>6 DEF Holders
  <2>2. Cardinality(Holders(s)') = Cardinality(Holders(s)) - 1
    BY <1>1, <2>1, FS_RemoveElement
  <2> QED
    BY <1>2, <1>4, <1>6, <2>2
<1>7. CASE ~S!Holds(p, s) /\ S!Holds(p, s)'
  <2>1. p \notin Holders(s) /\ Holders(s)' = Holders(s) \cup {p}
    BY <1>3, <1>7 DEF Holders
  <2>2. Cardinality(Holders(s)') = Cardinality(Holders(s)) + 1
    BY <1>1, <2>1, FS_AddElement
  <2> QED
    BY <1>2, <1>4, <1>7, <2>2
<1> QED
  BY <1>5, <1>6, <1>7

\* The accounts of a set, for the proofs below.
Account(s) ==
  semval[s][S!SEM_PRODUCER] + semval[s][S!SEM_CONSUMER] + Cardinality(Holders(s)) + missed[s]

LEMMA AccountsOf ==
  /\ S!SlotsAccounted <=>
       \A s \in S!Ids : Account(s) = IF s \in initialised THEN COMING_TAB_LENGTH ELSE 0
  /\ S!SlotsAccounted' <=>
       \A s \in S!Ids : Account(s)' = IF s \in initialised' THEN COMING_TAB_LENGTH ELSE 0
BY SameSets DEF S!SlotsAccounted, Account, Holders

\* In a set whose accounts are empty there is nothing and nobody.
LEMMA EmptyAccount ==
  ASSUME StartupTypeOK, NEW s \in S!Ids, Account(s) = 0
  PROVE  semval[s][S!SEM_CONSUMER] = 0 /\ missed[s] = 0 /\ Holders(s) = {}
<1> DEFINE a == semval[s][S!SEM_PRODUCER]
           b == semval[s][S!SEM_CONSUMER]
           c == Cardinality(Holders(s))
           d == missed[s]
<1>1. a \in Nat /\ b \in Nat /\ d \in Nat
  BY DEF StartupTypeOK
<1>2. IsFiniteSet(Holders(s)) /\ c \in Nat
  <2>1. Holders(s) \subseteq S!Processes
    BY DEF Holders
  <2> QED
    BY <2>1, FiniteGroups, FS_Subset, FS_CardinalityType
<1>3. a + b + c + d = 0
  BY DEF Account
<1>4. b = 0 /\ c = 0 /\ d = 0
  <2> HIDE DEF a, b, c, d
  <2> QED
    BY <1>1, <1>2, <1>3
<1> QED
  BY <1>2, <1>4, FS_EmptySet

\* Who neither takes nor leaves a slot changes no accounts.
LEMMA AccountsStay ==
  ASSUME StartupInv, UNCHANGED S!slots,
         \A q \in S!Processes, s \in S!Ids : S!Holds(q, s)' <=> S!Holds(q, s)
  PROVE  S!SlotsAccounted'
<1>1. \A s \in S!Ids : Holders(s)' = Holders(s)
  BY DEF Holders
<1>2. \A s \in S!Ids : Account(s)' = Account(s)
  BY <1>1 DEF Account, S!slots
<1> QED
  BY <1>2, AccountsOf DEF StartupInv, S!slots

-----------------------------------------------------------------------------
\* Steps that take no slot

\* Where exit() leads; a producer that made its set goes on to remove it.
LEMMA AtExitLeads ==
  ASSUME NEW p \in S!Processes
  PROVE  /\ S!AtExit(p) \in {"rmshm", "rmsem", "shmdt"}
         /\ p \in ComingProducers /\ ~is_sem_created[p] => S!AtExit(p) = "rmshm"
BY ComingAssumption DEF S!AtExit

\* Somebody moves, and at most the segments change.
Moves(p) ==
  \/ p \in ComingProducers /\ (S!GetSegment(p) \/ S!ResetCounters(p) \/ S!RemoveSegment(p))
  \/ p \in ComingConsumers /\ S!LookForSegment(p)
  \/ S!Begin(p)

LEMMA MovesKeep ==
  ASSUME StartupInv, NEW p \in S!Processes, Moves(p)
  PROVE  StartupInv'
<1> USE DEF StartupInv, Moves, S!Begin, S!GetSegment, S!ResetCounters, S!RemoveSegment, S!LookForSegment,
            S!Goto, S!kernel, S!slots, S!locals
<1>1. /\ S!AtExit(p) \in {"rmshm", "rmsem", "shmdt"}
      /\ p \in ComingConsumers => p \notin ComingProducers
  BY AtExitLeads, ComingAssumption
<1>2. PICK to \in StartupLabels : step' = [step EXCEPT ![p] = to]
  BY <1>1 DEF StartupLabels
<1>3. StartupTypeOK'
  <2>1. Fresh' \subseteq Fresh
    BY <1>1 DEF StartupTypeOK, Fresh, S!Processes
  <2>2. sets_made' + Cardinality(Fresh') <= Cardinality(ComingProducers)
    BY <2>1, FreshShrinks
  <2>3. shm_key' \in Nat \cup {S!Missing} /\ segs_made' \in Nat /\ live_segs' \subseteq Nat
    <3>1. segs_made \in Nat /\ segs_made + 1 \in Nat
      BY DEF StartupTypeOK
    <3>2. CASE S!GetSegment(p)
      BY <3>1, <3>2 DEF StartupTypeOK
    <3>3. CASE ~S!GetSegment(p)
      BY <3>3 DEF StartupTypeOK
    <3> QED
      BY <3>2, <3>3
  <2>4. step' \in [S!Processes -> StartupLabels] /\ shm_id' \in [S!Processes -> Int]
    BY <1>2, <2>3 DEF StartupTypeOK, S!Missing
  <2>5. Made' = Made
    BY DEF Made
  <2> QED
    BY <2>2, <2>3, <2>4, <2>5 DEF StartupTypeOK
<1>4. S!SlotsAccounted'
  <2>1. \A q \in S!Processes, s \in S!Ids : S!Holds(q, s)' <=> S!Holds(q, s)
    BY <1>1 DEF StartupTypeOK, S!Holds
  <2> QED
    BY <2>1, AccountsStay
<1>5. InitialiserInv'
  BY <1>1 DEF StartupTypeOK, InitialiserInv, Initialising, Made, S!Processes
<1>6. ProducersAttached'
  BY <1>1 DEF StartupTypeOK, ProducersAttached, S!Processes
<1>7. SetHasRemover'
  BY <1>1 DEF StartupTypeOK, InitialiserInv, Initialising, SetHasRemover, Removing, S!Processes
<1> QED
  BY <1>3, <1>4, <1>5, <1>6, <1>7

\* The producer goes on only if it is attached, to be the initialiser if it made
\* the set.
LEMMA AttachKeeps ==
  ASSUME StartupInv, NEW p \in S!Processes, S!Attach(p)
  PROVE  StartupInv'
<1> USE DEF StartupInv, S!Attach, S!Goto, S!kernel, S!slots, S!locals
<1>1. /\ S!AtExit(p) \in {"rmshm", "rmsem", "shmdt"}
      /\ p \in ComingProducers /\ ~is_sem_created[p] => S!AtExit(p) = "rmshm"
  BY AtExitLeads
<1>2. PICK to \in StartupLabels : step' = [step EXCEPT ![p] = to]
  BY <1>1 DEF StartupLabels
<1>3. StartupTypeOK'
  <2>1. Fresh' \subseteq Fresh
    BY <1>1 DEF StartupTypeOK, Fresh, S!Processes
  <2>2. sets_made' + Cardinality(Fresh') <= Cardinality(ComingProducers)
    BY <2>1, FreshShrinks
  <2>3. attached' \in [S!Processes -> BOOLEAN]
    BY DEF StartupTypeOK
  <2>4. step' \in [S!Processes -> StartupLabels]
    BY <1>2 DEF StartupTypeOK
  <2>5. Made' = Made
    BY DEF Made
  <2> QED
    BY <2>2, <2>3, <2>4, <2>5 DEF StartupTypeOK
<1>4. S!SlotsAccounted'
  <2>1. \A q \in S!Processes, s \in S!Ids : S!Holds(q, s)' <=> S!Holds(q, s)
    BY <1>1 DEF StartupTypeOK, S!Holds
  <2> QED
    BY <2>1, AccountsStay
<1>5. InitialiserInv'
  BY <1>1 DEF StartupTypeOK, InitialiserInv, Initialising, Made, S!Processes
<1>6. ProducersAttached'
  BY <1>1 DEF StartupTypeOK, ProducersAttached, S!Processes
<1>7. SetHasRemover'
  BY <1>1 DEF StartupTypeOK, InitialiserInv, Initialising, SetHasRemover, Removing, S!Processes
<1> QED
  BY <1>3, <1>4, <1>5, <1>6, <1>7

\* A new set gets an identifier no other one has or had.
LEMMA CreateSetKeeps ==
  ASSUME StartupInv, NEW p \in ComingProducers, S!CreateSet(p)
  PROVE  StartupInv'
<1> USE DEF StartupInv, S!CreateSet, S!Goto, S!slots
<1>1. p \in S!Processes /\ p \in Fresh /\ "shmat" \in StartupLabels
  BY DEF S!Processes, Fresh, StartupLabels
<1>2. StartupTypeOK'
  <2>1. Fresh' = Fresh \ {p}
    BY <1>1 DEF StartupTypeOK, Fresh, S!Processes
  <2>2. Cardinality(Fresh') = Cardinality(Fresh) - 1
    BY <1>1, <2>1, FiniteGroups, FS_RemoveElement
  <2>3. sets_made' \in Nat /\ sets_made' + Cardinality(Fresh') <= Cardinality(ComingProducers)
    BY <2>2, FiniteGroups DEF StartupTypeOK
  <2>4. Made \subseteq Made' /\ sets_made \in Made' /\ sets_made \in Int
    BY DEF StartupTypeOK, Made
  <2>5. step' \in [S!Processes -> StartupLabels] /\ sem_id' \in [S!Processes -> Int]
    BY <1>1, <2>4 DEF StartupTypeOK
  <2> QED
    BY <2>3, <2>4, <2>5 DEF StartupTypeOK
<1>3. S!SlotsAccounted'
  <2>1. \A q \in S!Processes, s \in S!Ids : S!Holds(q, s)' <=> S!Holds(q, s)
    BY DEF StartupTypeOK, S!Holds
  <2> QED
    BY <2>1, AccountsStay
<1>4. InitialiserInv'
  <2>1. sets_made \notin Made /\ sets_made \in Made' /\ Made \subseteq Made'
    BY DEF StartupTypeOK, Made
  <2>2. initialised' \subseteq Made
    BY DEF StartupTypeOK
  <2> QED
    BY <1>1, <2>1, <2>2 DEF StartupTypeOK, InitialiserInv, Initialising, S!Processes
<1>5. ProducersAttached'
  BY <1>1 DEF StartupTypeOK, ProducersAttached, S!Processes
<1>6. SetHasRemover'
  <2>1. sem_id'[p] = sem_key' /\ step'[p] = "shmat"
    BY <1>1 DEF StartupTypeOK
  <2>2. ~is_sem_created'[p]
    BY DEF InitialiserInv
  <2>3. sem_key' \in live_sets'
    OBVIOUS
  <2> QED
    BY <2>1, <2>2, <2>3 DEF SetHasRemover, Removing
<1> QED
  BY <1>2, <1>3, <1>4, <1>5, <1>6

\* Finding a set makes nobody its initialiser: a producer has noticed by then that
\* the set existed.
Finds(p) ==
  \/ p \in ComingProducers /\ (S!SetExists(p) \/ S!NoticeExists(p) \/ S!FindSet(p))
  \/ p \in ComingConsumers /\ S!LookForSet(p)

LEMMA FindsKeep ==
  ASSUME StartupInv, NEW p \in S!Processes, Finds(p)
  PROVE  StartupInv'
<1> USE DEF StartupInv, Finds, S!SetExists, S!NoticeExists, S!FindSet, S!LookForSet, S!Goto, S!kernel, S!slots
<1>1. /\ S!AtExit(p) \in {"rmshm", "rmsem", "shmdt"}
      /\ p \in ComingConsumers => p \notin ComingProducers
  BY AtExitLeads, ComingAssumption
<1>2. PICK to \in StartupLabels : step' = [step EXCEPT ![p] = to]
  BY <1>1 DEF StartupLabels
<1>3. StartupTypeOK'
  <2>1. Fresh' \subseteq Fresh
    BY <1>1 DEF StartupTypeOK, Fresh, S!Processes
  <2>2. sets_made' + Cardinality(Fresh') <= Cardinality(ComingProducers)
    BY <2>1, FreshShrinks
  <2>3. sem_key \in Int /\ S!Missing \in Int
    BY DEF StartupTypeOK, Made, S!Missing
  <2>4. sem_id' \in [S!Processes -> Int]
    BY <2>3 DEF StartupTypeOK
  <2>5. is_sem_created' \in [S!Processes -> BOOLEAN]
    BY DEF StartupTypeOK
  <2>6. step' \in [S!Processes -> StartupLabels]
    BY <1>2 DEF StartupTypeOK
  <2>7. Made' = Made
    BY DEF Made
  <2> QED
    BY <2>2, <2>4, <2>5, <2>6, <2>7 DEF StartupTypeOK
<1>4. S!SlotsAccounted'
  <2>1. \A q \in S!Processes, s \in S!Ids : S!Holds(q, s)' <=> S!Holds(q, s)
    BY <1>1 DEF StartupTypeOK, S!Holds
  <2> QED
    BY <2>1, AccountsStay
<1>5. InitialiserInv'
  BY <1>1 DEF StartupTypeOK, InitialiserInv, Initialising, Made, S!Processes
<1>6. ProducersAttached'
  BY <1>1 DEF StartupTypeOK, ProducersAttached, S!Processes
<1>7. SetHasRemover'
  BY <1>1 DEF StartupTypeOK, InitialiserInv, Initialising, SetHasRemover, Removing, S!Processes
<1> QED
  BY <1>3, <1>4, <1>5, <1>6, <1>7

\* The key goes with the set it names.
LEMMA RemoveSetKeeps ==
  ASSUME StartupInv, NEW p \in S!Processes, S!RemoveSet(p)
  PROVE  StartupInv'
<1> USE DEF StartupInv, S!RemoveSet, S!Goto, S!slots, S!locals
<1>1. StartupTypeOK'
  <2>1. Fresh' \subseteq Fresh
    BY DEF StartupTypeOK, Fresh, S!Processes
  <2>2. sets_made' + Cardinality(Fresh') <= Cardinality(ComingProducers)
    BY <2>1, FreshShrinks
  <2>3. interrupted' \in [S!Processes -> BOOLEAN]
    BY DEF StartupTypeOK
  <2>4. step' \in [S!Processes -> StartupLabels]
    BY DEF StartupTypeOK, StartupLabels
  <2>5. Made' = Made
    BY DEF Made
  <2> QED
    BY <2>2, <2>3, <2>4, <2>5 DEF StartupTypeOK
<1>2. S!SlotsAccounted'
  <2>1. \A q \in S!Processes, s \in S!Ids : S!Holds(q, s)' <=> S!Holds(q, s)
    BY DEF StartupTypeOK, S!Holds
  <2> QED
    BY <2>1, AccountsStay
<1>3. InitialiserInv'
  BY DEF StartupTypeOK, InitialiserInv, Initialising, Made, S!Processes
<1>4. ProducersAttached'
  BY DEF StartupTypeOK, ProducersAttached, S!Processes
<1>5. SetHasRemover'
  BY DEF StartupTypeOK, InitialiserInv, Initialising, SetHasRemover, Removing, S!Processes
<1> QED
  BY <1>1, <1>2, <1>3, <1>4, <1>5

-----------------------------------------------------------------------------
\* Steps that move a slot

\* What such a step leaves alone, and where it may lead.
LEMMA SlotStepKeeps ==
  ASSUME StartupInv, NEW p \in S!Processes, NEW to \in StartupLabels,
         step' = [step EXCEPT ![p] = to], UNCHANGED <<S!kernel, S!locals>>,
         interrupted' \in [S!Processes -> BOOLEAN],
         \A q \in S!Processes : q # p => interrupted'[q] = interrupted[q],
         semval' \in [S!Ids -> [{S!SEM_PRODUCER, S!SEM_CONSUMER} -> Nat]],
         missed' \in [S!Ids -> Nat], initialised' = initialised,
         step[p] \notin {"rmshm", "rmsem", "shmdt", "ended", "cut"},
         \/ to = "ended" /\ (step[p] = "exec" \/ p \notin ComingProducers)
         \/ to = S!AtExit(p) /\ (to = "rmshm" => sem_id[p] \notin live_sets \/ interrupted'[p])
         \/ to \in {"down", "work", "up"} /\ step[p] \in {"down", "work", "up"}
  PROVE  StartupTypeOK' /\ InitialiserInv' /\ ProducersAttached' /\ SetHasRemover'
<1> USE DEF StartupInv, S!kernel, S!locals
<1> USE AtExitLeads
<1>1. StartupTypeOK'
  <2>1. Fresh' \subseteq Fresh
    BY DEF StartupTypeOK, Fresh, S!Processes
  <2>2. sets_made' + Cardinality(Fresh') <= Cardinality(ComingProducers)
    BY <2>1, FreshShrinks
  <2>3. Made' = Made
    BY DEF Made
  <2> QED
    BY <2>2, <2>3 DEF StartupTypeOK
<1>2. InitialiserInv'
  BY DEF StartupTypeOK, InitialiserInv, Initialising, Made, S!Processes
<1>3. ProducersAttached'
  BY DEF StartupTypeOK, ProducersAttached, S!Processes
<1>4. SetHasRemover'
  BY DEF StartupTypeOK, InitialiserInv, Initialising, SetHasRemover, Removing, S!Processes
<1> QED
  BY <1>1, <1>2, <1>3, <1>4

\* A set's value is written one at a time.
LEMMA SemvalWritten ==
  ASSUME StartupTypeOK, NEW s \in S!Ids, NEW x \in {S!SEM_PRODUCER, S!SEM_CONSUMER}, NEW v \in Nat,
         semval' = [semval EXCEPT ![s][x] = v]
  PROVE  /\ semval' \in [S!Ids -> [{S!SEM_PRODUCER, S!SEM_CONSUMER} -> Nat]]
         /\ semval'[s][x] = v
         /\ \A t \in S!Ids, y \in {S!SEM_PRODUCER, S!SEM_CONSUMER} :
              t # s \/ y # x => semval'[t][y] = semval[t][y]
<1>1. semval' = [semval EXCEPT ![s] = [@ EXCEPT ![x] = v]]
  OBVIOUS
<1>2. semval'[s] = [semval[s] EXCEPT ![x] = v]
  BY <1>1 DEF StartupTypeOK
<1>3. semval'[s][x] = v
  BY <1>2 DEF StartupTypeOK
<1>4. semval' \in [S!Ids -> [{S!SEM_PRODUCER, S!SEM_CONSUMER} -> Nat]]
  <2>1. [semval[s] EXCEPT ![x] = v] \in [{S!SEM_PRODUCER, S!SEM_CONSUMER} -> Nat]
    BY DEF StartupTypeOK
  <2> QED
    BY <1>1, <2>1 DEF StartupTypeOK
<1>5. \A t \in S!Ids, y \in {S!SEM_PRODUCER, S!SEM_CONSUMER} :
        t # s \/ y # x => semval'[t][y] = semval[t][y]
  BY <1>1, <1>2 DEF StartupTypeOK
<1> QED
  BY <1>3, <1>4, <1>5

\* One more slot of a set is missed.
LEMMA OneMissed ==
  ASSUME StartupTypeOK, NEW s \in Int, missed' = [missed EXCEPT ![s] = @ + 1]
  PROVE  /\ missed' \in [S!Ids -> Nat]
         /\ \A t \in S!Ids : missed'[t] = missed[t] + (IF s = t THEN 1 ELSE 0)
<1>1. ASSUME NEW t \in S!Ids
      PROVE  missed'[t] = missed[t] + (IF s = t THEN 1 ELSE 0) /\ missed'[t] \in Nat
  BY DEF StartupTypeOK
<1> QED
  BY <1>1 DEF StartupTypeOK

\* Who takes a slot of a set joins its holders, ...
LEMMA HolderJoins ==
  ASSUME StartupTypeOK, NEW p \in S!Processes, step[p] = "down",
         step' = [step EXCEPT ![p] = "work"], UNCHANGED sem_id, NEW t \in S!Ids
  PROVE  /\ Cardinality(Holders(t)) \in Nat
         /\ Cardinality(Holders(t)') = Cardinality(Holders(t)) + (IF sem_id[p] = t THEN 1 ELSE 0)
<1>1. "work" \in StartupLabels
  BY DEF StartupLabels
<1>2. /\ Cardinality(Holders(t)) \in Nat
      /\ Cardinality(Holders(t)') =
           Cardinality(Holders(t))
             + (IF sem_id[p] = t /\ "work" \in {"work", "up"} THEN 1 ELSE 0)
             - (IF sem_id[p] = t /\ step[p] \in {"work", "up"} THEN 1 ELSE 0)
  BY <1>1, HoldersChange
<1>3. "work" \in {"work", "up"} /\ step[p] \notin {"work", "up"}
  OBVIOUS
<1> QED
  BY <1>2, <1>3

\* ... and who passes it on or misses it leaves them.
LEMMA HolderLeaves ==
  ASSUME StartupTypeOK, NEW p \in S!Processes, step[p] \in {"work", "up"},
         NEW to \in StartupLabels \ {"work", "up"},
         step' = [step EXCEPT ![p] = to], UNCHANGED sem_id, NEW t \in S!Ids
  PROVE  /\ Cardinality(Holders(t)) \in Nat
         /\ Cardinality(Holders(t)') = Cardinality(Holders(t)) - (IF sem_id[p] = t THEN 1 ELSE 0)
<1>1. /\ Cardinality(Holders(t)) \in Nat
      /\ Cardinality(Holders(t)') =
           Cardinality(Holders(t))
             + (IF sem_id[p] = t /\ to \in {"work", "up"} THEN 1 ELSE 0)
             - (IF sem_id[p] = t /\ step[p] \in {"work", "up"} THEN 1 ELSE 0)
  BY HoldersChange
<1> QED
  BY <1>1

\* Who goes down takes a slot of the set, and who finds it removed takes none.
LEMMA SemopDownKeeps ==
  ASSUME StartupInv, NEW p \in S!Processes, S!SemopDown(p)
  PROVE  StartupInv'
<1> DEFINE s == sem_id[p]
<1>1. CASE s \in live_sets
  <2> DEFINE x == S!Down(p)
             v == semval[s][x] - 1
  <2>1. /\ step[p] = "down" /\ step' = [step EXCEPT ![p] = "work"]
        /\ semval' = [semval EXCEPT ![s][x] = v]
        /\ UNCHANGED <<S!kernel, initialised, missed, S!locals, interrupted>>
    BY <1>1 DEF S!SemopDown, S!Goto
  <2>2. s \in S!Ids /\ x \in {S!SEM_PRODUCER, S!SEM_CONSUMER}
    BY <1>1, MadeIsKnown DEF StartupInv, StartupTypeOK, S!Down
  <2>3. semval[s][x] \in Nat /\ semval[s][x] > 0
    BY <1>1, <2>2 DEF StartupInv, StartupTypeOK, S!SemopDown
  <2>4. v \in Nat
    BY <2>3
  <2>5. StartupTypeOK
    BY DEF StartupInv
  <2> HIDE DEF s, x, v
  <2>6. /\ semval' \in [S!Ids -> [{S!SEM_PRODUCER, S!SEM_CONSUMER} -> Nat]]
        /\ semval'[s][x] = v
        /\ \A t \in S!Ids, y \in {S!SEM_PRODUCER, S!SEM_CONSUMER} :
             t # s \/ y # x => semval'[t][y] = semval[t][y]
    BY ZenonT(60), <2>1, <2>2, <2>4, <2>5, SemvalWritten
  <2>7. StartupTypeOK' /\ InitialiserInv' /\ ProducersAttached' /\ SetHasRemover'
    BY <2>1, <2>5, <2>6, SlotStepKeeps DEF StartupTypeOK, StartupLabels
  <2>8. ASSUME NEW t \in S!Ids PROVE Account(t)' = Account(t)
    <3>1. /\ Cardinality(Holders(t)) \in Nat
          /\ Cardinality(Holders(t)') = Cardinality(Holders(t)) + (IF s = t THEN 1 ELSE 0)
      <4>1. UNCHANGED sem_id /\ "work" \in StartupLabels
        BY <2>1 DEF S!locals, StartupLabels
      <4> QED
        BY <2>1, <2>5, <4>1, HolderJoins DEF s
    <3>2. missed'[t] = missed[t] /\ missed[t] \in Nat
      BY <2>1, <2>5 DEF StartupTypeOK
    <3>3. semval[t][S!SEM_PRODUCER] \in Nat /\ semval[t][S!SEM_CONSUMER] \in Nat
      BY <2>5 DEF StartupTypeOK
    <3> QED
      BY <2>2, <2>3, <2>6, <3>1, <3>2, <3>3 DEF Account, S!SEM_PRODUCER, S!SEM_CONSUMER, v
  <2>9. S!SlotsAccounted'
    BY <2>1, <2>8, AccountsOf DEF StartupInv
  <2> QED
    BY <2>7, <2>9 DEF StartupInv
<1>2. CASE s \notin live_sets
  <2> USE DEF StartupInv, S!SemopDown, S!Goto
  <2>1. S!AtExit(p) \in StartupLabels /\ step' = [step EXCEPT ![p] = S!AtExit(p)] /\ UNCHANGED S!slots
    BY <1>2, AtExitLeads DEF StartupLabels
  <2>2. StartupTypeOK' /\ InitialiserInv' /\ ProducersAttached' /\ SetHasRemover'
    BY <1>2, <2>1, AtExitLeads, SlotStepKeeps DEF StartupTypeOK, S!slots
  <2>3. \A q \in S!Processes, t \in S!Ids : S!Holds(q, t)' <=> S!Holds(q, t)
    BY <1>2, <2>1, AtExitLeads DEF StartupTypeOK, S!Holds, S!locals
  <2> QED
    BY <2>1, <2>2, <2>3, AccountsStay
<1> QED
  BY <1>1, <1>2

\* A slot is passed on, or missed if the set is gone.
LEMMA SemopUpKeeps ==
  ASSUME StartupInv, NEW p \in S!Processes, S!SemopUp(p)
  PROVE  StartupInv'
<1> DEFINE s == sem_id[p]
<1>1. CASE s \in live_sets
  <2> DEFINE x == S!Up(p)
             v == semval[s][x] + 1
  <2>1. /\ step[p] = "up" /\ step' = [step EXCEPT ![p] = "down"]
        /\ semval' = [semval EXCEPT ![s][x] = v]
        /\ UNCHANGED <<S!kernel, initialised, missed, S!locals, interrupted>>
    BY <1>1 DEF S!SemopUp, S!Goto
  <2>2. s \in S!Ids /\ x \in {S!SEM_PRODUCER, S!SEM_CONSUMER}
    BY <1>1, MadeIsKnown DEF StartupInv, StartupTypeOK, S!Up
  <2>3. semval[s][x] \in Nat
    BY <1>1, <2>2 DEF StartupInv, StartupTypeOK, S!SemopUp
  <2>4. v \in Nat
    BY <2>3
  <2>5. StartupTypeOK
    BY DEF StartupInv
  <2> HIDE DEF s, x, v
  <2>6. /\ semval' \in [S!Ids -> [{S!SEM_PRODUCER, S!SEM_CONSUMER} -> Nat]]
        /\ semval'[s][x] = v
        /\ \A t \in S!Ids, y \in {S!SEM_PRODUCER, S!SEM_CONSUMER} :
             t # s \/ y # x => semval'[t][y] = semval[t][y]
    BY ZenonT(60), <2>1, <2>2, <2>4, <2>5, SemvalWritten
  <2>7. StartupTypeOK' /\ InitialiserInv' /\ ProducersAttached' /\ SetHasRemover'
    BY <2>1, <2>5, <2>6, SlotStepKeeps DEF StartupTypeOK, StartupLabels
  <2>8. ASSUME NEW t \in S!Ids PROVE Account(t)' = Account(t)
    <3>1. /\ Cardinality(Holders(t)) \in Nat
          /\ Cardinality(Holders(t)') = Cardinality(Holders(t)) - (IF s = t THEN 1 ELSE 0)
      <4>1. UNCHANGED sem_id /\ "down" \in StartupLabels \ {"work", "up"}
        BY <2>1 DEF S!locals, StartupLabels
      <4> QED
        BY <2>1, <2>5, <4>1, HolderLeaves DEF s
    <3>2. missed'[t] = missed[t] /\ missed[t] \in Nat
      BY <2>1, <2>5 DEF StartupTypeOK
    <3>3. semval[t][S!SEM_PRODUCER] \in Nat /\ semval[t][S!SEM_CONSUMER] \in Nat
      BY <2>5 DEF StartupTypeOK
    <3> QED
      BY <2>2, <2>3, <2>6, <3>1, <3>2, <3>3 DEF Account, S!SEM_PRODUCER, S!SEM_CONSUMER, v
  <2>9. S!SlotsAccounted'
    BY <2>1, <2>8, AccountsOf DEF StartupInv
  <2> QED
    BY <2>7, <2>9 DEF StartupInv
<1>2. CASE s \notin live_sets
  <2> USE DEF StartupInv, S!SemopUp, S!Goto
  <2>1. /\ S!AtExit(p) \in StartupLabels /\ step[p] = "up" /\ step' = [step EXCEPT ![p] = S!AtExit(p)]
        /\ missed' = [missed EXCEPT ![s] = @ + 1]
    BY <1>2, AtExitLeads DEF StartupLabels
  <2>2. /\ missed' \in [S!Ids -> Nat]
        /\ \A t \in S!Ids : missed'[t] = missed[t] + (IF s = t THEN 1 ELSE 0)
    BY <2>1, OneMissed DEF StartupTypeOK
  <2>3. StartupTypeOK' /\ InitialiserInv' /\ ProducersAttached' /\ SetHasRemover'
    BY ZenonT(60), <1>2, <2>1, <2>2, AtExitLeads, SlotStepKeeps DEF StartupTypeOK
  <2>4. ASSUME NEW t \in S!Ids PROVE Account(t)' = Account(t)
    <3>1. /\ Cardinality(Holders(t)) \in Nat
          /\ Cardinality(Holders(t)') = Cardinality(Holders(t)) - (IF s = t THEN 1 ELSE 0)
      <4>1. UNCHANGED sem_id /\ S!AtExit(p) \notin {"work", "up"}
        BY <1>2, AtExitLeads DEF S!locals
      <4> QED
        BY <2>1, <4>1, HolderLeaves
    <3> QED
      BY <1>2, <2>2, <3>1 DEF Account, StartupTypeOK, S!SEM_PRODUCER, S!SEM_CONSUMER
  <2>5. S!SlotsAccounted'
    BY <1>2, <2>4, AccountsOf
  <2> QED
    BY <2>3, <2>5
<1> QED
  BY <1>1, <1>2

\* Only a consumer can crash at the table, and then the slot it held is missed.
LEMMA WorkKeeps ==
  ASSUME StartupInv, NEW p \in S!Processes, S!Work(p)
  PROVE  StartupInv'
<1> USE DEF StartupInv, S!Work, S!Goto
<1> DEFINE s == sem_id[p]
<1>1. CASE attached[p]
  <2>1. /\ "up" \in StartupLabels /\ step[p] = "work" /\ step' = [step EXCEPT ![p] = "up"]
        /\ UNCHANGED S!slots
    BY <1>1 DEF StartupLabels
  <2>2. StartupTypeOK' /\ InitialiserInv' /\ ProducersAttached' /\ SetHasRemover'
    BY <1>1, <2>1, SlotStepKeeps DEF StartupTypeOK, S!slots
  <2>3. \A q \in S!Processes, t \in S!Ids : S!Holds(q, t)' <=> S!Holds(q, t)
    BY <1>1, <2>1 DEF StartupTypeOK, S!Holds, S!locals
  <2> QED
    BY <2>1, <2>2, <2>3, AccountsStay
<1>2. CASE ~attached[p]
  <2>1. /\ "ended" \in StartupLabels /\ step[p] = "work" /\ step' = [step EXCEPT ![p] = "ended"]
        /\ missed' = [missed EXCEPT ![s] = @ + 1]
    BY <1>2 DEF StartupLabels
  <2>2. /\ missed' \in [S!Ids -> Nat]
        /\ \A t \in S!Ids : missed'[t] = missed[t] + (IF s = t THEN 1 ELSE 0)
    BY <2>1, OneMissed DEF StartupTypeOK
  <2>3. p \notin ComingProducers
    BY <1>2, <2>1 DEF ProducersAttached
  <2>4. StartupTypeOK' /\ InitialiserInv' /\ ProducersAttached' /\ SetHasRemover'
    BY ZenonT(60), <1>2, <2>1, <2>2, <2>3, SlotStepKeeps DEF StartupTypeOK
  <2>5. ASSUME NEW t \in S!Ids PROVE Account(t)' = Account(t)
    <3>1. /\ Cardinality(Holders(t)) \in Nat
          /\ Cardinality(Holders(t)') = Cardinality(Holders(t)) - (IF s = t THEN 1 ELSE 0)
      <4>1. UNCHANGED sem_id /\ "ended" \notin {"work", "up"}
        BY <1>2 DEF S!locals
      <4> QED
        BY <2>1, <4>1, HolderLeaves
    <3> QED
      BY <1>2, <2>2, <3>1 DEF Account, StartupTypeOK, S!SEM_PRODUCER, S!SEM_CONSUMER
  <2>6. S!SlotsAccounted'
    BY <1>2, <2>5, AccountsOf
  <2> QED
    BY <2>4, <2>6
<1> QED
  BY <1>1, <1>2

\* An interrupted process misses the slot it held.
LEMMA InterruptKeeps ==
  ASSUME StartupInv, NEW p \in S!Processes, S!Interrupt(p)
  PROVE  StartupInv'
<1> USE DEF StartupInv, S!Interrupt
<1> DEFINE s  == sem_id[p]
           to == IF step[p] = "exec" THEN "ended" ELSE S!AtExit(p)
           held == step[p] \in {"work", "up"}
<1>1. /\ to \in StartupLabels /\ step' = [step EXCEPT ![p] = to] /\ to \notin {"work", "up"}
      /\ \/ to = "ended" /\ step[p] = "exec"
         \/ to = S!AtExit(p) /\ (to = "rmshm" => interrupted'[p])
  BY AtExitLeads DEF StartupLabels, StartupTypeOK
<1>2. missed' = IF held THEN [missed EXCEPT ![s] = @ + 1] ELSE missed
  OBVIOUS
<1>3. /\ missed' \in [S!Ids -> Nat]
      /\ \A t \in S!Ids : missed'[t] = missed[t] + (IF s = t /\ held THEN 1 ELSE 0)
  <2>1. CASE held
    BY <1>2, <2>1, OneMissed DEF StartupTypeOK
  <2>2. CASE ~held
    BY <1>2, <2>2 DEF StartupTypeOK
  <2> QED
    BY <2>1, <2>2
<1>4. /\ interrupted' \in [S!Processes -> BOOLEAN]
      /\ \A q \in S!Processes : q # p => interrupted'[q] = interrupted[q]
  BY DEF StartupTypeOK
<1> HIDE DEF to
<1>5. StartupTypeOK' /\ InitialiserInv' /\ ProducersAttached' /\ SetHasRemover'
  <2>1. /\ semval' \in [S!Ids -> [{S!SEM_PRODUCER, S!SEM_CONSUMER} -> Nat]]
        /\ initialised' = initialised /\ UNCHANGED <<S!kernel, S!locals>>
        /\ step[p] \notin {"rmshm", "rmsem", "shmdt", "ended", "cut"}
    BY DEF StartupTypeOK
  <2> QED
    BY <1>1, <1>3, <1>4, <2>1, SlotStepKeeps
<1>6. ASSUME NEW t \in S!Ids PROVE Account(t)' = Account(t)
  <2>1. /\ Cardinality(Holders(t)) \in Nat
        /\ Cardinality(Holders(t)') =
             Cardinality(Holders(t)) - (IF s = t /\ held THEN 1 ELSE 0)
    <3>1. UNCHANGED sem_id
      BY DEF S!locals
    <3>2. /\ Cardinality(Holders(t)) \in Nat
          /\ Cardinality(Holders(t)') =
               Cardinality(Holders(t))
                 + (IF sem_id[p] = t /\ to \in {"work", "up"} THEN 1 ELSE 0)
                 - (IF sem_id[p] = t /\ step[p] \in {"work", "up"} THEN 1 ELSE 0)
      BY <1>1, <3>1, HoldersChange
    <3> QED
      BY <1>1, <3>2
  <2> QED
    BY <1>3, <2>1 DEF Account, StartupTypeOK, S!SEM_PRODUCER, S!SEM_CONSUMER
<1>7. S!SlotsAccounted'
  BY <1>6, AccountsOf
<1> QED
  BY <1>5, <1>7

\* A SIGINT in the atexit function leaves the rest of it undone.
LEMMA InterruptAtExitKeeps ==
  ASSUME StartupInv, NEW p \in S!Processes, S!InterruptAtExit(p)
  PROVE  StartupInv'
<1> USE DEF StartupInv, S!InterruptAtExit, S!kernel, S!slots
<1>1. StartupTypeOK'
  <2>1. Fresh' \subseteq Fresh
    BY DEF StartupTypeOK, Fresh, S!Processes
  <2>2. sets_made' + Cardinality(Fresh') <= Cardinality(ComingProducers)
    BY <2>1, FreshShrinks
  <2>3. Made' = Made
    BY DEF Made
  <2> QED
    BY <2>2, <2>3 DEF StartupTypeOK, StartupLabels
<1>2. S!SlotsAccounted'
  <2>1. \A q \in S!Processes, s \in S!Ids : S!Holds(q, s)' <=> S!Holds(q, s)
    BY DEF StartupTypeOK, S!Holds
  <2> QED
    BY <2>1, AccountsStay
<1>3. InitialiserInv'
  BY DEF StartupTypeOK, InitialiserInv, Initialising, Made, S!Processes
<1>4. ProducersAttached'
  BY DEF StartupTypeOK, ProducersAttached, S!Processes
<1>5. SetHasRemover'
  BY DEF StartupTypeOK, SetHasRemover, Removing, S!Processes
<1> QED
  BY <1>1, <1>2, <1>3, <1>4, <1>5

\* A process that has been through its atexit function is the remover of no set.
LEMMA DetachKeeps ==
  ASSUME StartupInv, NEW p \in S!Processes, S!Detach(p)
  PROVE  StartupInv'
<1> USE DEF StartupInv, S!Detach, S!Goto, S!kernel, S!slots
<1>1. StartupTypeOK'
  <2>1. Fresh' \subseteq Fresh
    BY DEF StartupTypeOK, Fresh, S!Processes
  <2>2. sets_made' + Cardinality(Fresh') <= Cardinality(ComingProducers)
    BY <2>1, FreshShrinks
  <2>3. Made' = Made
    BY DEF Made
  <2>4. /\ sem_id' \in [S!Processes -> Int] /\ shm_id' \in [S!Processes -> Int]
        /\ is_sem_created' \in [S!Processes -> BOOLEAN]
        /\ attached' \in [S!Processes -> BOOLEAN]
    BY DEF StartupTypeOK
  <2>5. step' \in [S!Processes -> StartupLabels]
    BY DEF StartupTypeOK, StartupLabels
  <2> QED
    BY <2>2, <2>3, <2>4, <2>5 DEF StartupTypeOK
<1>2. S!SlotsAccounted'
  <2>1. \A q \in S!Processes, s \in S!Ids : S!Holds(q, s)' <=> S!Holds(q, s)
    BY DEF StartupTypeOK, S!Holds
  <2> QED
    BY <2>1, AccountsStay
<1>3. InitialiserInv'
  BY DEF StartupTypeOK, InitialiserInv, Initialising, Made, S!Processes
<1>4. ProducersAttached'
  BY DEF StartupTypeOK, ProducersAttached, S!Processes
<1>5. SetHasRemover'
  BY DEF StartupTypeOK, SetHasRemover, Removing, S!Processes
<1> QED
  BY <1>1, <1>2, <1>3, <1>4, <1>5

\* A process whose set is gone when it would set a value leaves.
LEMMA SetGoneKeeps ==
  ASSUME StartupInv, NEW p \in ComingProducers, step[p] \in {"setProducer", "setConsumer"},
         sem_id[p] \notin live_sets, step' = [step EXCEPT ![p] = S!AtExit(p)], UNCHANGED <<S!kernel, S!slots, S!locals, interrupted>>
  PROVE  StartupInv'
<1>1. p \in S!Processes /\ S!AtExit(p) \in StartupLabels
  BY AtExitLeads DEF S!Processes, StartupLabels
<1>2. step[p] \notin {"rmshm", "rmsem", "shmdt", "ended", "cut"}
  OBVIOUS
<1>3. StartupTypeOK' /\ InitialiserInv' /\ ProducersAttached' /\ SetHasRemover'
  BY <1>1, <1>2, SlotStepKeeps DEF StartupInv, StartupTypeOK, S!slots
<1>4. \A q \in S!Processes, t \in S!Ids : S!Holds(q, t)' <=> S!Holds(q, t)
  BY <1>1, AtExitLeads DEF StartupInv, StartupTypeOK, S!Holds, S!locals
<1> QED
  BY <1>3, <1>4, AccountsStay DEF StartupInv

\* The first value is set in a set that has nothing in it and nobody at work, since
\* its accounts are empty.
LEMMA SetProducerKeeps ==
  ASSUME StartupInv, NEW p \in ComingProducers, S!SetProducer(p)
  PROVE  StartupInv'
<1> DEFINE s == sem_id[p]
<1>1. CASE s \in live_sets
  <2>1. /\ step[p] = "setProducer" /\ step' = [step EXCEPT ![p] = "setConsumer"]
        /\ semval' = [semval EXCEPT ![s][S!SEM_PRODUCER] = COMING_TAB_LENGTH]
        /\ initialised' = initialised \cup {s}
        /\ UNCHANGED <<S!kernel, missed, S!locals, interrupted>>
    BY <1>1 DEF S!SetProducer, S!Goto
  <2>2. p \in S!Processes /\ s \in Made \ initialised /\ s \in S!Ids
    BY <2>1, MadeIsKnown DEF StartupInv, InitialiserInv, Initialising, S!Processes
  <2>3. StartupTypeOK /\ InitialiserInv /\ ProducersAttached /\ SetHasRemover
        /\ COMING_TAB_LENGTH \in Nat
    BY ComingAssumption DEF StartupInv
  <2> HIDE DEF s
  <2>4. /\ semval' \in [S!Ids -> [{S!SEM_PRODUCER, S!SEM_CONSUMER} -> Nat]]
        /\ semval'[s][S!SEM_PRODUCER] = COMING_TAB_LENGTH
        /\ \A t \in S!Ids, y \in {S!SEM_PRODUCER, S!SEM_CONSUMER} :
             t # s \/ y # S!SEM_PRODUCER => semval'[t][y] = semval[t][y]
    BY <2>1, <2>2, <2>3, SemvalWritten
  <2>5. StartupTypeOK'
    <3>1. Fresh' \subseteq Fresh
      BY <2>1, <2>2, <2>3 DEF StartupTypeOK, Fresh, S!Processes
    <3>2. sets_made' + Cardinality(Fresh') <= Cardinality(ComingProducers)
      BY <2>1, <2>3, <3>1, FreshShrinks DEF S!kernel
    <3>3. Made' = Made
      BY <2>1 DEF Made, S!kernel
    <3> QED
      BY <2>1, <2>2, <2>3, <2>4, <3>2, <3>3 DEF StartupTypeOK, StartupLabels, S!kernel, S!locals
  <2>6. InitialiserInv'
    <3>1. Made' = Made
      BY <2>1 DEF Made, S!kernel
    <3> QED
      BY <2>1, <2>2, <2>3, <3>1
      DEF StartupTypeOK, InitialiserInv, Initialising, S!Processes, S!locals, s
  <2>7. ProducersAttached' /\ SetHasRemover'
    <3>1. ProducersAttached'
      BY <2>1, <2>2, <2>3 DEF StartupTypeOK, ProducersAttached, S!Processes, S!locals
    <3>2. ASSUME sem_key = s PROVE SetHasRemover'
      <4>1. step'[p] = "setConsumer" /\ sem_id'[p] = s /\ sem_key' = s /\ s \in live_sets'
        BY <1>1, <2>1, <2>2, <2>3, <3>2 DEF StartupTypeOK, S!kernel, S!locals, s
      <4>2. ~is_sem_created'[p]
        BY <2>1, <2>3 DEF InitialiserInv, S!locals
      <4> QED
        BY <4>1, <4>2 DEF SetHasRemover, Removing
    <3>3. ASSUME sem_key # s PROVE SetHasRemover'
      BY <2>1, <2>2, <2>3, <3>3 DEF StartupTypeOK, SetHasRemover, Removing, S!Processes, S!kernel, S!locals
    <3> QED
      BY <3>1, <3>2, <3>3
  <2>8. ASSUME NEW t \in S!Ids
        PROVE  Account(t)' = IF t \in initialised' THEN COMING_TAB_LENGTH ELSE 0
    <3>1. /\ Cardinality(Holders(t)) \in Nat
          /\ Cardinality(Holders(t)') = Cardinality(Holders(t))
      <4>1. UNCHANGED sem_id /\ "setConsumer" \in StartupLabels
        BY <2>1 DEF S!locals, StartupLabels
      <4>2. /\ Cardinality(Holders(t)) \in Nat
            /\ Cardinality(Holders(t)') =
                 Cardinality(Holders(t))
                   + (IF sem_id[p] = t /\ "setConsumer" \in {"work", "up"} THEN 1 ELSE 0)
                   - (IF sem_id[p] = t /\ step[p] \in {"work", "up"} THEN 1 ELSE 0)
        BY <2>1, <2>2, <2>3, <4>1, HoldersChange
      <4>3. "setConsumer" \notin {"work", "up"} /\ step[p] \notin {"work", "up"}
        BY <2>1
      <4> QED
        BY <4>2, <4>3
    <3>2. missed'[t] = missed[t] /\ missed[t] \in Nat
      BY <2>1, <2>3 DEF StartupTypeOK
    <3>3. semval[t][S!SEM_PRODUCER] \in Nat /\ semval[t][S!SEM_CONSUMER] \in Nat
      BY <2>3 DEF StartupTypeOK
    <3>4. Account(t) = IF t \in initialised THEN COMING_TAB_LENGTH ELSE 0
      BY AccountsOf DEF StartupInv
    <3>5. CASE t = s
      <4>1. /\ semval[t][S!SEM_CONSUMER] = 0 /\ Cardinality(Holders(t)) = 0 /\ missed[t] = 0
        <5>1. Account(t) = 0
          BY <2>2, <3>4, <3>5
        <5> QED
          BY <2>3, <5>1, EmptyAccount, FS_EmptySet
      <4> QED
        BY <2>1, <2>2, <2>3, <2>4, <3>1, <3>2, <3>5, <4>1
        DEF Account, S!SEM_PRODUCER, S!SEM_CONSUMER
    <3>6. CASE t # s
      BY <2>1, <2>4, <3>1, <3>2, <3>3, <3>4, <3>6 DEF Account, S!SEM_PRODUCER, S!SEM_CONSUMER
    <3> QED
      BY <3>5, <3>6
  <2>9. S!SlotsAccounted'
    BY <2>8, AccountsOf
  <2> QED
    BY <2>5, <2>6, <2>7, <2>9 DEF StartupInv
<1>2. CASE s \notin live_sets
  BY <1>2, SetGoneKeeps DEF S!SetProducer, S!Goto, S!slots, S!kernel
<1> QED
  BY <1>1, <1>2

\* What the second value wipes out is missed.
LEMMA SetConsumerKeeps ==
  ASSUME StartupInv, NEW p \in ComingProducers, S!SetConsumer(p)
  PROVE  StartupInv'
<1> DEFINE s == sem_id[p]
<1>1. CASE s \in live_sets
  <2>1. /\ step[p] = "setConsumer" /\ step' = [step EXCEPT ![p] = "down"]
        /\ semval' = [semval EXCEPT ![s][S!SEM_CONSUMER] = 0]
        /\ missed' = [missed EXCEPT ![s] = @ + semval[s][S!SEM_CONSUMER]]
        /\ UNCHANGED <<S!kernel, initialised, S!locals, interrupted>>
    BY <1>1 DEF S!SetConsumer, S!Goto
  <2>2. p \in S!Processes /\ s \in Made /\ s \in S!Ids
    BY <2>1, MadeIsKnown DEF StartupInv, InitialiserInv, S!Processes
  <2>3. StartupTypeOK /\ InitialiserInv /\ ProducersAttached /\ SetHasRemover
    BY DEF StartupInv
  <2> HIDE DEF s
  <2>4. /\ semval' \in [S!Ids -> [{S!SEM_PRODUCER, S!SEM_CONSUMER} -> Nat]]
        /\ semval'[s][S!SEM_CONSUMER] = 0
        /\ \A t \in S!Ids, y \in {S!SEM_PRODUCER, S!SEM_CONSUMER} :
             t # s \/ y # S!SEM_CONSUMER => semval'[t][y] = semval[t][y]
    BY <2>1, <2>2, <2>3, SemvalWritten
  <2>5. StartupTypeOK'
    <3>1. Fresh' \subseteq Fresh
      BY <2>1, <2>2, <2>3 DEF StartupTypeOK, Fresh, S!Processes
    <3>2. sets_made' + Cardinality(Fresh') <= Cardinality(ComingProducers)
      BY <2>1, <2>3, <3>1, FreshShrinks DEF S!kernel
    <3>3. Made' = Made
      BY <2>1 DEF Made, S!kernel
    <3>4. missed' \in [S!Ids -> Nat]
      BY <2>1, <2>2, <2>3 DEF StartupTypeOK
    <3> QED
      BY <2>1, <2>2, <2>3, <2>4, <3>2, <3>3, <3>4 DEF StartupTypeOK, StartupLabels, S!kernel, S!locals
  <2>6. InitialiserInv'
    <3>1. Made' = Made
      BY <2>1 DEF Made, S!kernel
    <3> QED
      BY <2>1, <2>2, <2>3, <3>1
      DEF StartupTypeOK, InitialiserInv, Initialising, S!Processes, S!locals, s
  <2>7. ProducersAttached' /\ SetHasRemover'
    BY <2>1, <2>2, <2>3 DEF StartupTypeOK, ProducersAttached, SetHasRemover, Removing, S!Processes, S!kernel, S!locals
  <2>8. ASSUME NEW t \in S!Ids PROVE Account(t)' = Account(t)
    <3>1. /\ Cardinality(Holders(t)) \in Nat
          /\ Cardinality(Holders(t)') = Cardinality(Holders(t))
      <4>1. UNCHANGED sem_id /\ "down" \in StartupLabels
        BY <2>1 DEF S!locals, StartupLabels
      <4>2. /\ Cardinality(Holders(t)) \in Nat
            /\ Cardinality(Holders(t)') =
                 Cardinality(Holders(t))
                   + (IF sem_id[p] = t /\ "down" \in {"work", "up"} THEN 1 ELSE 0)
                   - (IF sem_id[p] = t /\ step[p] \in {"work", "up"} THEN 1 ELSE 0)
        BY <2>1, <2>2, <2>3, <4>1, HoldersChange
      <4>3. "down" \notin {"work", "up"} /\ step[p] \notin {"work", "up"}
        BY <2>1
      <4> QED
        BY <4>2, <4>3
    <3>2. /\ missed[t] \in Nat
          /\ missed'[t] = missed[t] + (IF t = s THEN semval[t][S!SEM_CONSUMER] ELSE 0)
      BY <2>1, <2>2, <2>3 DEF StartupTypeOK
    <3>3. semval[t][S!SEM_PRODUCER] \in Nat /\ semval[t][S!SEM_CONSUMER] \in Nat
      BY <2>3 DEF StartupTypeOK
    <3> QED
      BY <2>2, <2>4, <3>1, <3>2, <3>3 DEF Account, S!SEM_PRODUCER, S!SEM_CONSUMER
  <2>9. S!SlotsAccounted'
    BY <2>1, <2>8, AccountsOf DEF StartupInv
  <2> QED
    BY <2>5, <2>6, <2>7, <2>9 DEF StartupInv
<1>2. CASE s \notin live_sets
  BY <1>2, SetGoneKeeps DEF S!SetConsumer, S!Goto, S!slots, S!kernel
<1> QED
  BY <1>1, <1>2

-----------------------------------------------------------------------------

\* The strengthened invariant holds of every reachable state.
LEMMA StartupInvariant == S!Spec => []StartupInv
<1>1. S!Init => StartupInv
  <2> SUFFICES ASSUME S!Init PROVE StartupInv
    OBVIOUS
  <2> USE DEF S!Init
  <2>1. StartupTypeOK
    <3>1. Fresh = ComingProducers /\ Made = {}
      BY DEF Fresh, Made, S!Processes
    <3> QED
      BY <3>1, FiniteGroups DEF StartupTypeOK, StartupLabels, S!Missing
  <2>2. S!SlotsAccounted
    <3>1. ASSUME NEW t \in S!Ids PROVE Account(t) = 0
      <4>1. Holders(t) = {}
        BY DEF Holders, S!Holds, S!Processes
      <4> QED
        BY <4>1, FS_EmptySet DEF Account
    <3> QED
      BY <3>1, AccountsOf
  <2>3. InitialiserInv /\ ProducersAttached /\ SetHasRemover
    BY DEF InitialiserInv, Initialising, ProducersAttached, SetHasRemover, S!Processes
  <2> QED
    BY <2>1, <2>2, <2>3 DEF StartupInv
<1>2. StartupInv /\ [S!Next]_(S!vars) => StartupInv'
  <2> SUFFICES ASSUME StartupInv, [S!Next]_(S!vars) PROVE StartupInv'
    OBVIOUS
  <2>1. ASSUME NEW p \in ComingProducers, S!producer(p) PROVE StartupInv'
    BY <2>1, MovesKeep, AttachKeeps, CreateSetKeeps, FindsKeep, RemoveSetKeeps, SemopDownKeeps,
       SemopUpKeeps, WorkKeeps, SetProducerKeeps, SetConsumerKeeps, DetachKeeps
    DEF S!producer, Moves, Finds, S!Processes
  <2>2. ASSUME NEW p \in ComingConsumers, S!consumer(p) PROVE StartupInv'
    BY <2>2, MovesKeep, AttachKeeps, FindsKeep, RemoveSetKeeps, SemopDownKeeps, SemopUpKeeps,
       WorkKeeps, DetachKeeps
    DEF S!consumer, Moves, Finds, S!Processes
  <2>3. CASE UNCHANGED S!vars
    BY ZenonT(60), <2>3 DEF S!vars, S!kernel, S!slots, S!locals, StartupInv, StartupTypeOK, Made,
                            Fresh, S!SlotsAccounted, S!Holds, InitialiserInv, Initialising,
                            ProducersAttached, SetHasRemover, Removing
  <2> QED
    BY <2>1, <2>2, <2>3, InterruptKeeps, InterruptAtExitKeeps DEF S!Next
<1> QED
  BY <1>1, <1>2, PTL DEF S!Spec

-----------------------------------------------------------------------------
\* The loops and the startup together: each behaviour of the exercise is one of
\* both modules, as far as their variables go.

LEMMA StartupWithin == ExerciseSpec => S!Spec
<1>1. ExerciseInit => S!Init
  BY DEF ExerciseInit
<1>2. UNCHANGED startup => UNCHANGED S!vars
  BY DEF startup, S!vars, S!kernel, S!slots, S!locals
<1>3. [ExerciseNext]_allVars => [S!Next]_(S!vars)
  BY <1>2 DEF ExerciseNext, InLoops, InStartup, allVars
<1> QED
  BY <1>1, <1>3, PTL DEF ExerciseSpec, S!Spec

LEMMA LoopsWithin == ExerciseSpec => Spec
<1>1. ExerciseInit => Init
  BY DEF ExerciseInit
<1>2. [ExerciseNext]_allVars => [Next]_vars
  BY DEF ExerciseNext, InLoops, InStartup, allVars
<1> QED
  BY <1>1, <1>2, PTL DEF ExerciseSpec, Spec

\* In the loops the semaphores count the slots, any number of processes sharing them.
THEOREM LoopSlots == ExerciseSpec => []SlotsConserved
BY LoopsWithin, SemaphoresCorrect, PTL

\* Every variable keeps its type, and there are never more sets than producers.
THEOREM StartupTypeCorrect == ExerciseSpec => []StartupTypeOK
<1>1. StartupInv => StartupTypeOK
  BY DEF StartupInv
<1> QED
  BY <1>1, StartupWithin, StartupInvariant, PTL

\* In every set a slot is free, full, held or missed, however many processes come,
\* go, crash or are interrupted, and whichever sets are removed meanwhile.
THEOREM StartupSlots == ExerciseSpec => []SlotsAccounted
<1>1. StartupInv => SlotsAccounted
  BY DEF StartupInv, SlotsAccounted
<1> QED
  BY <1>1, StartupWithin, StartupInvariant, PTL

\* A set is initialised by the one process that made it, before anybody works on it.
THEOREM StartupInitialiser == ExerciseSpec => []OneInitialises
<1>1. StartupInv => OneInitialises
  <2> SUFFICES ASSUME StartupInv, NEW p \in ComingProducers, NEW q \in ComingProducers,
                      step[p] \in {"reset", "setProducer"}, ~is_sem_created[p],
                      sem_id[p] = sem_id[q]
               PROVE  /\ ~S!Holds(q, sem_id[p])
                      /\ step[q] \in {"reset", "setProducer", "setConsumer"} => p = q
    BY DEF OneInitialises, S!OneInitialises
  <2>1. sem_id[p] \in S!Ids /\ sem_id[p] \notin initialised
    BY MadeIsKnown DEF StartupInv, InitialiserInv, Initialising
  <2>2. Account(sem_id[p]) = 0
    BY <2>1, AccountsOf DEF StartupInv
  <2>3. Holders(sem_id[p]) = {}
    BY <2>1, <2>2, EmptyAccount DEF StartupInv
  <2>4. ~S!Holds(q, sem_id[p])
    BY <2>3 DEF Holders, S!Processes
  <2>5. step[q] \in {"reset", "setProducer", "setConsumer"} => p = q
    BY DEF StartupInv, InitialiserInv, Initialising
  <2> QED
    BY <2>4, <2>5
<1> QED
  BY <1>1, StartupWithin, StartupInvariant, PTL

\* While the key names a set the producer that made it has yet to remove it, or a
\* SIGINT has cut it short in that; of an initialised set the second one.
THEOREM StartupRemover == ExerciseSpec => []NoOrphanedSet
<1>1. StartupInv => NoOrphanedSet
  BY DEF StartupInv, SetHasRemover, Removing, NoOrphanedSet, S!NoOrphanedSet
<1> QED
  BY <1>1, StartupWithin, StartupInvariant, PTL

=============================================================================
