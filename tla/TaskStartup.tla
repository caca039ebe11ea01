------------------------------ MODULE TaskStartup ---------------------------
(***************************************************************************)
(* lab08/zad1, how producers and consumers come and go: the System V       *)
(* objects are found by key, initialised by the producer that created the  *)
(* semaphore set, and removed by atexit functions when a process is        *)
(* interrupted or fails.  What happens between sem_op down and up is       *)
(* TaskBuffer's; here a process holds a slot meanwhile.                    *)
(*                                                                         *)
(* Identifiers count from 0 as they do in a system without other IPC       *)
(* objects: a global sem_id or shm_id that was never set names the first   *)
(* object made.                                                            *)
(***************************************************************************)
EXTENDS Integers, FiniteSets

CONSTANTS
  Producers, Consumers,
  TASK_TAB_LENGTH

Processes == Producers \cup Consumers
Missing   == -1                              \* no such object
Ids       == 0 .. Cardinality(Producers) - 1 \* a producer makes one at most

SEM_PRODUCER == "producer"
SEM_CONSUMER == "consumer"

VARIABLES
  sem_key, shm_key,     \* what the keys name now
  sets_made, segs_made, \* how many identifiers are used up
  live_sets, live_segs, \* the objects that exist
  semval,               \* of each set: its two values
  initialised,          \* sets whose creator has set SEM_PRODUCER
  missed,               \* of each set: slots that nobody will give back
  pc, sem_id, shm_id, attached, is_sem_created,
  interrupted           \* of creators: a SIGINT has sent it off to remove its set

kernel == <<sem_key, shm_key, sets_made, segs_made, live_sets, live_segs>>
slots  == <<semval, initialised, missed>>
locals == <<sem_id, shm_id, attached, is_sem_created>>
vars   == <<kernel, slots, pc, locals, interrupted>>

Init ==
  /\ sem_key = Missing /\ shm_key = Missing /\ sets_made = 0 /\ segs_made = 0
  /\ live_sets = {} /\ live_segs = {}
  /\ semval = [s \in Ids |-> [x \in {SEM_PRODUCER, SEM_CONSUMER} |-> 0]]
  /\ initialised = {} /\ missed = [s \in Ids |-> 0]
  /\ pc = [p \in Processes |-> "exec"]
  /\ sem_id = [p \in Processes |-> 0] /\ shm_id = [p \in Processes |-> 0]
  /\ attached = [p \in Processes |-> FALSE]
  /\ is_sem_created = [p \in Processes |-> FALSE]
  /\ interrupted = [p \in Processes |-> FALSE]

Goto(p, from, to) == pc[p] = from /\ pc' = [pc EXCEPT ![p] = to]

\* exit() runs the atexit function: a creator removes the segment, then the set,
\* a consumer the set, and each detaches its segment.
AtExit(p) ==
  IF p \in Consumers THEN "rmsem"
  ELSE IF is_sem_created[p] THEN "shmdt" ELSE "rmshm"

\* Slots that p has taken from set s and not passed on.
Holds(p, s) == pc[p] \in {"work", "up"} /\ sem_id[p] = s

-----------------------------------------------------------------------------
\* Both programs

\* atexit() and signal() are called; a SIGINT before that just kills.
Begin(p) ==
  /\ Goto(p, "exec", "shmget")
  /\ UNCHANGED <<kernel, slots, locals, interrupted>>

\* A segment that is removed stays until the last process detaches it.
SegmentThere(s) == s \in live_segs \/ \E q \in Processes : attached[q] /\ shm_id[q] = s

\* The producer leaves when it cannot attach.  The consumer tests the wrong
\* variable, goes on, and crashes when it first uses the table.
Attach(p) ==
  \/ /\ SegmentThere(shm_id[p])
     /\ Goto(p, "shmat", IF p \in Producers /\ ~is_sem_created[p] THEN "reset" ELSE "down")
     /\ attached' = [attached EXCEPT ![p] = TRUE]
     /\ UNCHANGED <<kernel, slots, sem_id, shm_id, is_sem_created, interrupted>>
  \/ /\ ~SegmentThere(shm_id[p])
     /\ Goto(p, "shmat", IF p \in Producers THEN AtExit(p) ELSE "down")
     /\ UNCHANGED <<kernel, slots, locals, interrupted>>

Down(p) == IF p \in Producers THEN SEM_PRODUCER ELSE SEM_CONSUMER
Up(p)   == IF p \in Producers THEN SEM_CONSUMER ELSE SEM_PRODUCER

\* Slip: the result of semop() is not looked at.
SemopDownUnchecked(p) ==
  \/ /\ sem_id[p] \in live_sets /\ semval[sem_id[p]][Down(p)] > 0
     /\ Goto(p, "down", "work")
     /\ semval' = [semval EXCEPT ![sem_id[p]][Down(p)] = @ - 1]
     /\ UNCHANGED <<kernel, initialised, missed, locals, interrupted>>
  \/ /\ sem_id[p] \notin live_sets
     /\ Goto(p, "down", "down")
     /\ UNCHANGED <<kernel, slots, locals, interrupted>>

\* semop() fails once the set is removed, also for a process that waits in it.
SemopDown(p) ==
  \/ /\ sem_id[p] \in live_sets /\ semval[sem_id[p]][Down(p)] > 0
     /\ Goto(p, "down", "work")
     /\ semval' = [semval EXCEPT ![sem_id[p]][Down(p)] = @ - 1]
     /\ UNCHANGED <<kernel, initialised, missed, locals, interrupted>>
  \/ /\ sem_id[p] \notin live_sets
     /\ Goto(p, "down", AtExit(p))
     /\ UNCHANGED <<kernel, slots, locals, interrupted>>

\* put_task, execute_task and usleep.
Work(p) ==
  \/ /\ attached[p]
     /\ Goto(p, "work", "up")
     /\ UNCHANGED <<kernel, slots, locals, interrupted>>
  \/ /\ ~attached[p]
     /\ Goto(p, "work", "ended")
     /\ missed' = [missed EXCEPT ![sem_id[p]] = @ + 1]
     /\ UNCHANGED <<kernel, semval, initialised, locals, interrupted>>

SemopUp(p) ==
  \/ /\ sem_id[p] \in live_sets
     /\ Goto(p, "up", "down")
     /\ semval' = [semval EXCEPT ![sem_id[p]][Up(p)] = @ + 1]
     /\ UNCHANGED <<kernel, initialised, missed, locals, interrupted>>
  \/ /\ sem_id[p] \notin live_sets
     /\ Goto(p, "up", AtExit(p))
     /\ missed' = [missed EXCEPT ![sem_id[p]] = @ + 1]
     /\ UNCHANGED <<kernel, semval, initialised, locals, interrupted>>

\* SIGINT in main: the handler calls exit(); before signal() it just kills.
Interrupt(p) ==
  /\ pc[p] \notin {"rmshm", "rmsem", "shmdt", "ended", "cut"}
  /\ interrupted' = [interrupted EXCEPT ![p] = pc[p] # "exec" /\ AtExit(p) = "rmshm"]
  /\ pc' = [pc EXCEPT ![p] = IF @ = "exec" THEN "ended" ELSE AtExit(p)]
  /\ missed' = IF pc[p] \in {"work", "up"}
               THEN [missed EXCEPT ![sem_id[p]] = @ + 1]
               ELSE missed
  /\ UNCHANGED <<kernel, semval, initialised, locals>>

\* A SIGINT in the atexit function ends the process there.  When it is the first,
\* the handler calls exit() once more, which does not come back to the function
\* it was in; when it is the second, it kills, as signal() has reset the handler.
\* In place of shmdt() that makes no difference.
InterruptAtExit(p) ==
  /\ pc[p] \in {"rmshm", "rmsem"}
  /\ pc' = [pc EXCEPT ![p] = "cut"]
  /\ attached' = [attached EXCEPT ![p] = FALSE]
  /\ UNCHANGED <<kernel, slots, sem_id, shm_id, is_sem_created, interrupted>>

\* shmctl(IPC_RMID): the key is free at once.
RemoveSegment(p) ==
  /\ Goto(p, "rmshm", "rmsem")
  /\ live_segs' = live_segs \ {shm_id[p]}
  /\ shm_key' = IF shm_key = shm_id[p] THEN Missing ELSE shm_key
  /\ UNCHANGED <<sem_key, sets_made, segs_made, live_sets, slots, locals, interrupted>>

\* Slip: the set is left to somebody else.
RemoveSetForgotten(p) ==
  /\ Goto(p, "rmsem", "shmdt")
  /\ UNCHANGED <<kernel, slots, locals, interrupted>>

\* semctl(IPC_RMID), whatever the globals hold.
RemoveSet(p) ==
  /\ Goto(p, "rmsem", "shmdt")
  /\ live_sets' = live_sets \ {sem_id[p]}
  /\ sem_key' = IF sem_key = sem_id[p] THEN Missing ELSE sem_key
  /\ interrupted' = [interrupted EXCEPT ![p] = FALSE]
  /\ UNCHANGED <<shm_key, sets_made, segs_made, live_segs, slots, locals>>

\* shmdt(); the process ends, and its variables with it.
Detach(p) ==
  /\ Goto(p, "shmdt", "ended")
  /\ attached' = [attached EXCEPT ![p] = FALSE]
  /\ sem_id' = [sem_id EXCEPT ![p] = 0] /\ shm_id' = [shm_id EXCEPT ![p] = 0]
  /\ is_sem_created' = [is_sem_created EXCEPT ![p] = FALSE]
  /\ UNCHANGED <<kernel, slots, interrupted>>

-----------------------------------------------------------------------------
\* producer.c

GetSegment(p) ==
  /\ Goto(p, "shmget", "semget")
  /\ IF shm_key = Missing
     THEN /\ shm_key' = segs_made
          /\ segs_made' = segs_made + 1
          /\ live_segs' = live_segs \cup {segs_made}
     ELSE UNCHANGED <<shm_key, segs_made, live_segs>>
  /\ shm_id' = [shm_id EXCEPT ![p] = shm_key']
  /\ UNCHANGED <<sem_key, sets_made, live_sets, slots, sem_id, attached,
                 is_sem_created, interrupted>>

\* Slip: without IPC_EXCL an existing set looks like a new one.
CreateSetNotExcl(p) ==
  /\ Goto(p, "semget", "shmat")
  /\ sem_key' = IF sem_key = Missing THEN sets_made ELSE sem_key
  /\ sem_id' = [sem_id EXCEPT ![p] = sem_key']
  /\ sets_made' = IF sem_key = Missing THEN sets_made + 1 ELSE sets_made
  /\ live_sets' = live_sets \cup {sem_key'}
  /\ UNCHANGED <<shm_key, segs_made, live_segs, slots, shm_id, attached,
                 is_sem_created, interrupted>>

\* semget(IPC_CREAT | IPC_EXCL)
CreateSet(p) ==
  /\ sem_key = Missing
  /\ Goto(p, "semget", "shmat")
  /\ sem_key' = sets_made
  /\ sem_id' = [sem_id EXCEPT ![p] = sets_made]
  /\ sets_made' = sets_made + 1
  /\ live_sets' = live_sets \cup {sets_made}
  /\ UNCHANGED <<shm_key, segs_made, live_segs, slots, shm_id, attached,
                 is_sem_created, interrupted>>

SetExists(p) ==
  /\ sem_key # Missing
  /\ Goto(p, "semget", "eexist")
  /\ sem_id' = [sem_id EXCEPT ![p] = Missing]
  /\ UNCHANGED <<kernel, slots, shm_id, attached, is_sem_created, interrupted>>

\* Slip: the late-comer takes itself for the creator.
NoticeExistsForgotten(p) ==
  /\ Goto(p, "eexist", "semget2")
  /\ UNCHANGED <<kernel, slots, locals, interrupted>>

NoticeExists(p) ==
  /\ Goto(p, "eexist", "semget2")
  /\ is_sem_created' = [is_sem_created EXCEPT ![p] = TRUE]
  /\ UNCHANGED <<kernel, slots, sem_id, shm_id, attached, interrupted>>

\* The second semget() finds the set, or another one, or none any more.
FindSet(p) ==
  /\ Goto(p, "semget2", IF sem_key = Missing THEN AtExit(p) ELSE "shmat")
  /\ sem_id' = [sem_id EXCEPT ![p] = sem_key]
  /\ UNCHANGED <<kernel, slots, shm_id, attached, is_sem_created, interrupted>>

\* The four counters in the segment are set to 0.
ResetCounters(p) ==
  /\ Goto(p, "reset", "setProducer")
  /\ UNCHANGED <<kernel, slots, locals, interrupted>>

SetProducer(p) ==
  /\ Goto(p, "setProducer", IF sem_id[p] \in live_sets THEN "setConsumer" ELSE AtExit(p))
  /\ IF sem_id[p] \in live_sets
     THEN /\ semval' = [semval EXCEPT ![sem_id[p]][SEM_PRODUCER] = TASK_TAB_LENGTH]
          /\ initialised' = initialised \cup {sem_id[p]}
     ELSE UNCHANGED <<semval, initialised>>
  /\ UNCHANGED <<kernel, missed, locals, interrupted>>

\* A producer that is quick enough may have raised SEM_CONSUMER by then.
SetConsumer(p) ==
  /\ Goto(p, "setConsumer", IF sem_id[p] \in live_sets THEN "down" ELSE AtExit(p))
  /\ IF sem_id[p] \in live_sets
     THEN /\ semval' = [semval EXCEPT ![sem_id[p]][SEM_CONSUMER] = 0]
          /\ missed' = [missed EXCEPT ![sem_id[p]] = @ + semval[sem_id[p]][SEM_CONSUMER]]
     ELSE UNCHANGED <<semval, missed>>
  /\ UNCHANGED <<kernel, initialised, locals, interrupted>>

producer(p) ==
  \/ Begin(p) \/ GetSegment(p) \/ CreateSet(p) \/ SetExists(p) \/ NoticeExists(p)
  \/ FindSet(p) \/ Attach(p) \/ ResetCounters(p) \/ SetProducer(p) \/ SetConsumer(p)
  \/ SemopDown(p) \/ Work(p) \/ SemopUp(p) \/ RemoveSegment(p) \/ RemoveSet(p)
  \/ Detach(p)

-----------------------------------------------------------------------------
\* consumer.c

\* A consumer that is too early leaves, and its atexit function removes set
\* sem_id, which is 0 still.
LookForSegment(p) ==
  /\ Goto(p, "shmget", IF shm_key = Missing THEN AtExit(p) ELSE "semget")
  /\ shm_id' = [shm_id EXCEPT ![p] = shm_key]
  /\ UNCHANGED <<kernel, slots, sem_id, attached, is_sem_created, interrupted>>

LookForSet(p) ==
  /\ Goto(p, "semget", IF sem_key = Missing THEN AtExit(p) ELSE "shmat")
  /\ sem_id' = [sem_id EXCEPT ![p] = sem_key]
  /\ UNCHANGED <<kernel, slots, shm_id, attached, is_sem_created, interrupted>>

consumer(p) ==
  \/ Begin(p) \/ LookForSegment(p) \/ LookForSet(p) \/ Attach(p)
  \/ SemopDown(p) \/ Work(p) \/ SemopUp(p) \/ RemoveSet(p) \/ Detach(p)

-----------------------------------------------------------------------------

Next ==
  \/ \E p \in Producers : producer(p)
  \/ \E p \in Consumers : consumer(p)
  \/ \E p \in Processes : Interrupt(p) \/ InterruptAtExit(p)

Spec == Init /\ [][Next]_vars

-----------------------------------------------------------------------------

\* In every set that is in use a slot is free, full, held by a process, or lost
\* with one that was interrupted or with a late SETVAL; before the first SETVAL
\* there is none.  A slot of a removed set never turns up in a newer one.
SlotsAccounted ==
  \A s \in Ids :
    LET held == Cardinality({p \in Processes : Holds(p, s)})
    IN  semval[s][SEM_PRODUCER] + semval[s][SEM_CONSUMER] + held + missed[s]
          = IF s \in initialised THEN TASK_TAB_LENGTH ELSE 0

\* A set is initialised by one process, and while that zeroes the counters in the
\* segment nobody works on a slot of the set.
OneInitialises ==
  \A p, q \in Producers :
    pc[p] \in {"reset", "setProducer"} /\ ~is_sem_created[p] /\ sem_id[p] = sem_id[q] =>
      /\ ~Holds(q, sem_id[p])
      /\ pc[q] \in {"reset", "setProducer", "setConsumer"} => p = q

\* A set without the process that made it would be mistaken for an initialised
\* one by all programs started later.  It outlives its creator only when a SIGINT
\* cuts the atexit function short; after the first SETVAL that takes the second
\* one, and a single one leaves a set that was never initialised.
NoOrphanedSet ==
  sem_key # Missing =>
    \E p \in Producers :
      /\ sem_id[p] = sem_key /\ ~is_sem_created[p] /\ pc[p] # "ended"
      /\ pc[p] = "cut" /\ sem_key \in initialised => interrupted[p]

\* A process whose shmat() failed does not go on to the loop: both programs test
\* for it.  The consumer's test is of another variable, so it does.
AttachedAtWork ==
  \A p \in Processes : pc[p] \in {"down", "work", "up"} => attached[p]

\* The removal of a set, by whomever, ends all that use it: again and again there
\* is nobody in the loops with a set that has been removed.
RemovalEndsUsers ==
  []<>(\A p \in Processes : pc[p] \in {"down", "work", "up"} => sem_id[p] \in live_sets)

=============================================================================
