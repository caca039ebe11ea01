------------------------------ MODULE TaskBuffer ----------------------------
(***************************************************************************)
(* lab08/zad1: producer and consumer processes share a table of tasks,     *)
(* two indices and two task counters in System V shared memory, and two    *)
(* counting semaphores.  The semaphores bound the number of tasks in the   *)
(* table; nothing else is locked, so two producers (or two consumers) run  *)
(* put_task (or execute_task) side by side.  Every read and every write of *)
(* a shared word is a step of its own: the program reads the index anew    *)
(* for each entry of a task.                                               *)
(*                                                                         *)
(* The processes have gone through the startup modelled in TaskStartup.    *)
(***************************************************************************)
EXTENDS Naturals, FiniteSets

CONSTANTS
  Producers, Consumers, \* the processes runner.c starts
  TASK_TAB_LENGTH,      \* slots of the table
  TASK_LENGTH,          \* entries of a task
  Value,                \* what rand() may leave in an entry
  Zero,                 \* an entry of the fresh, zero-filled segment
  COUNTER_MODULUS       \* 2^64 in the code, where the counters are longs

ASSUME BufferAssumption ==
  /\ TASK_TAB_LENGTH \in Nat \ {0} /\ TASK_LENGTH \in Nat \ {0}
  /\ COUNTER_MODULUS \in Nat \ {0, 1}
  /\ Zero \notin Value
  /\ Producers \cap Consumers = {}
  /\ IsFiniteSet(Producers) /\ IsFiniteSet(Consumers)

Processes == Producers \cup Consumers
Slots     == 0 .. TASK_TAB_LENGTH - 1
Entries   == 0 .. TASK_LENGTH - 1
Task      == [Entries -> Value \cup {Zero}]
NoTask    == Zero

VARIABLES
  sem_producer,         \* SEM_PRODUCER: free slots
  sem_consumer,         \* SEM_CONSUMER: tasks ready
  curren_task_num,      \* where the next task is put
  current_task_number,  \* where the next task is executed
  put_counter, executed_counter,     \* task_counter[0] and task_counter[1]
  task_tab,             \* the slots
  pc, i,                \* of each process: its next step, its loop counter
  read,                 \* of each process: the word it last loaded to add one to
  task,                 \* of each process: the entries it has loaded
  executed,             \* the task whose statistics were printed last
  puts, executions      \* put_task and execute_task calls completed, as the
                        \* counters would count them

shared == <<curren_task_num, current_task_number, put_counter, executed_counter,
            task_tab>>
local  == <<i, read, task>>
ghost  == <<puts, executions>>
vars   == <<sem_producer, sem_consumer, shared, pc, local, executed, ghost>>

Labels == {"down", "write", "loadCounter", "storeCounter", "loadIndex",
           "storeIndex", "up", "load", "print"}

SemaphoresOK ==
  sem_producer \in 0 .. TASK_TAB_LENGTH /\ sem_consumer \in 0 .. TASK_TAB_LENGTH

WordsOK ==
  /\ curren_task_num \in Slots /\ current_task_number \in Slots
  /\ put_counter \in 0 .. COUNTER_MODULUS - 1
  /\ executed_counter \in 0 .. COUNTER_MODULUS - 1
  /\ task_tab \in [Slots -> Task]
  /\ pc \in [Processes -> Labels]
  /\ i \in [Processes -> 0 .. TASK_LENGTH]
  /\ read \in [Processes -> Nat]
  /\ task \in [Processes -> Task]
  /\ executed \in Task \cup {NoTask}
  /\ puts \in 0 .. COUNTER_MODULUS - 1 /\ executions \in 0 .. COUNTER_MODULUS - 1

TypeOK == SemaphoresOK /\ WordsOK

Start(free) ==
  /\ sem_producer = free /\ sem_consumer = 0
  /\ curren_task_num = 0 /\ current_task_number = 0
  /\ put_counter = 0 /\ executed_counter = 0
  /\ task_tab = [s \in Slots |-> [e \in Entries |-> Zero]]
  /\ pc = [x \in Processes |-> "down"]
  /\ i = [x \in Processes |-> 0]
  /\ read = [x \in Processes |-> 0]
  /\ task = [x \in Processes |-> [e \in Entries |-> Zero]]
  /\ executed = NoTask
  /\ puts = 0 /\ executions = 0

\* Slip: one slot too many.
InitOneTooMany == Start(TASK_TAB_LENGTH + 1)

\* The startup of the producer that created the semaphores.
Init == Start(TASK_TAB_LENGTH)

Goto(x, from, to) == pc[x] = from /\ pc' = [pc EXCEPT ![x] = to]

Increment(n)   == (n + 1) % COUNTER_MODULUS

NextSlot(s)    == (s + 1) % TASK_TAB_LENGTH

\* The loop counter, back at the first entry for the next task.
NextEntry(e)   == (e + 1) % TASK_LENGTH

Load(x, word)  == read' = [read EXCEPT ![x] = word]
\* Forgetting a register once it has been used keeps the states few.
Forget(x)      == read' = [read EXCEPT ![x] = 0]

-----------------------------------------------------------------------------
\* producer.c

\* Slip: a slot is taken without waiting for a free one.
DownProducerNoWait(p) ==
  /\ Goto(p, "down", "write")
  /\ UNCHANGED <<sem_producer, sem_consumer, shared, local, executed, ghost>>

DownProducer(p) ==
  /\ sem_producer > 0
  /\ Goto(p, "down", "write")
  /\ sem_producer' = sem_producer - 1
  /\ UNCHANGED <<sem_consumer, shared, local, executed, ghost>>

\* The loop of put_task: the index is read again for every entry.
WriteEntry(p) ==
  /\ \/ i[p] + 1 < TASK_LENGTH /\ Goto(p, "write", "write")
     \/ i[p] + 1 = TASK_LENGTH /\ Goto(p, "write", "loadCounter")
  /\ \E v \in Value : task_tab' = [task_tab EXCEPT ![curren_task_num][i[p]] = v]
  /\ i' = [i EXCEPT ![p] = NextEntry(@)]
  /\ UNCHANGED <<sem_producer, sem_consumer, curren_task_num, current_task_number,
                 put_counter, executed_counter, read, task, executed, ghost>>

\* ++(*task_counter)
CountPut(p) ==
  /\ \/ /\ Goto(p, "loadCounter", "storeCounter") /\ Load(p, put_counter)
        /\ UNCHANGED put_counter
     \/ /\ Goto(p, "storeCounter", "loadIndex") /\ Forget(p)
        /\ put_counter' = Increment(read[p])
  /\ UNCHANGED <<sem_producer, sem_consumer, curren_task_num, current_task_number,
                 executed_counter, task_tab, i, task, executed, ghost>>

\* *curren_task_num = (*curren_task_num + 1) % TASK_TAB_LENGTH
AdvancePut(p) ==
  /\ \/ /\ Goto(p, "loadIndex", "storeIndex") /\ Load(p, curren_task_num)
        /\ UNCHANGED <<curren_task_num, puts>>
     \/ /\ Goto(p, "storeIndex", "up") /\ Forget(p)
        /\ curren_task_num' = NextSlot(read[p])
        /\ puts' = Increment(puts)
  /\ UNCHANGED <<sem_producer, sem_consumer, current_task_number, put_counter,
                 executed_counter, task_tab, i, task, executed, executions>>

UpConsumer(p) ==
  /\ Goto(p, "up", "down")
  /\ sem_consumer' = sem_consumer + 1
  /\ UNCHANGED <<sem_producer, shared, local, executed, ghost>>

producer(p) ==
  DownProducer(p) \/ WriteEntry(p) \/ CountPut(p) \/ AdvancePut(p) \/ UpConsumer(p)

-----------------------------------------------------------------------------
\* consumer.c

DownConsumer(c) ==
  /\ sem_consumer > 0
  /\ Goto(c, "down", "load")
  /\ sem_consumer' = sem_consumer - 1
  /\ UNCHANGED <<sem_producer, shared, local, executed, ghost>>

\* The loop of execute_task; max, min and avg stand for the task they are of.
LoadEntry(c) ==
  /\ \/ i[c] + 1 < TASK_LENGTH /\ Goto(c, "load", "load")
     \/ i[c] + 1 = TASK_LENGTH /\ Goto(c, "load", "print")
  /\ task' = [task EXCEPT ![c][i[c]] = task_tab[current_task_number][i[c]]]
  /\ i' = [i EXCEPT ![c] = NextEntry(@)]
  /\ UNCHANGED <<sem_producer, sem_consumer, shared, read, executed, ghost>>

PrintStatistics(c) ==
  /\ Goto(c, "print", "loadCounter")
  /\ executed' = task[c]
  /\ task' = [task EXCEPT ![c] = [e \in Entries |-> Zero]]
  /\ UNCHANGED <<sem_producer, sem_consumer, shared, i, read, ghost>>

\* Slip: the consumer's pointer is off by one word.
CountExecutedWrongWord(c) ==
  /\ \/ Goto(c, "loadCounter", "storeCounter") /\ Load(c, put_counter) /\ UNCHANGED put_counter
     \/ Goto(c, "storeCounter", "loadIndex") /\ Forget(c) /\ put_counter' = Increment(read[c])
  /\ UNCHANGED <<sem_producer, sem_consumer, curren_task_num, current_task_number,
                 executed_counter, task_tab, i, task, executed, ghost>>

CountExecuted(c) ==
  /\ \/ /\ Goto(c, "loadCounter", "storeCounter") /\ Load(c, executed_counter)
        /\ UNCHANGED executed_counter
     \/ /\ Goto(c, "storeCounter", "loadIndex") /\ Forget(c)
        /\ executed_counter' = Increment(read[c])
  /\ UNCHANGED <<sem_producer, sem_consumer, curren_task_num, current_task_number,
                 put_counter, task_tab, i, task, executed, ghost>>

AdvanceExecuted(c) ==
  /\ \/ /\ Goto(c, "loadIndex", "storeIndex") /\ Load(c, current_task_number)
        /\ UNCHANGED <<current_task_number, executions>>
     \/ /\ Goto(c, "storeIndex", "up") /\ Forget(c)
        /\ current_task_number' = NextSlot(read[c])
        /\ executions' = Increment(executions)
  /\ UNCHANGED <<sem_producer, sem_consumer, curren_task_num, put_counter,
                 executed_counter, task_tab, i, task, executed, puts>>

\* Slip: the slot is never given back.
UpProducerForgotten(c) ==
  /\ Goto(c, "up", "down")
  /\ UNCHANGED <<sem_producer, sem_consumer, shared, local, executed, ghost>>

UpProducer(c) ==
  /\ Goto(c, "up", "down")
  /\ sem_producer' = sem_producer + 1
  /\ UNCHANGED <<sem_consumer, shared, local, executed, ghost>>

consumer(c) ==
  \/ DownConsumer(c) \/ LoadEntry(c) \/ PrintStatistics(c) \/ CountExecuted(c)
  \/ AdvanceExecuted(c) \/ UpProducer(c)

Next == (\E p \in Producers : producer(p)) \/ (\E c \in Consumers : consumer(c))

Spec == Init /\ [][Next]_vars

-----------------------------------------------------------------------------

\* Processes between their two semop calls.
Busy(S) == {x \in S : pc[x] # "down"}

\* Every slot is free, holds a task, or is in the hands of one process: no
\* interleaving makes the two semaphores together lose or invent a slot.
SlotsConserved ==
  sem_producer + sem_consumer + Cardinality(Busy(Producers))
    + Cardinality(Busy(Consumers)) = TASK_TAB_LENGTH

\* The comments in producer.c: task_counter[0] counts the completed tasks of the
\* producers, task_counter[1] those of the consumers.
InPut(p)     == pc[p] \notin {"down", "up"}
InExecute(c) == pc[c] \notin {"down", "up"}

CompletedTasksCounted ==
  /\ (\A p \in Producers : ~InPut(p)) => put_counter = puts
  /\ (\A c \in Consumers : ~InExecute(c)) => executed_counter = executions

\* No slot is read while it is written.
Writing(p, s) == pc[p] = "write" /\ s = curren_task_num
Reading(c, s) == pc[c] = "load" /\ s = current_task_number

NoSlotShared ==
  \A p \in Producers, c \in Consumers, s \in Slots : ~(Writing(p, s) /\ Reading(c, s))

\* The tasks waiting: put and announced or about to be, and not yet executed.
Waiting ==
  sem_consumer + Cardinality({p \in Producers : pc[p] = "up"})
    + Cardinality({c \in Consumers : pc[c] \in {"load", "print"}})

\* The slot of the first of them; a task that has been printed is done with,
\* though the index still points at it.
First ==
  IF \E c \in Consumers : pc[c] \in {"loadCounter", "storeCounter", "loadIndex", "storeIndex"}
  THEN NextSlot(current_task_number) ELSE current_task_number

\* With one producer and one consumer the table is a bounded queue.
Queue == INSTANCE TaskQueue WITH
  Capacity <- TASK_TAB_LENGTH,
  queue <- [k \in 1 .. Waiting |-> task_tab[(First + k - 1) % TASK_TAB_LENGTH]]
ImplementsQueue == Queue!Spec

=============================================================================
