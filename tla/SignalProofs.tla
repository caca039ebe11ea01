----------------------------- MODULE SignalProofs ---------------------------
(***************************************************************************)
(* Proofs about lab05/zad3a, zad3b and zad3c for every number of signals   *)
(* and every queue of pending ones: what the counts at the end can be, and *)
(* that no signal meets a process without handlers.                        *)
(***************************************************************************)
EXTENDS SignalExercises, TLAPS

Labels ==
  {"none", "start", "fork", "exec", "sigaction", "unblock", "announce", "test", "pause",
   "paused", "send", "announceLast", "sendLast", "report", "exited", "failed", "killed"}

TypeOK ==
  /\ pc \in [Processes -> Labels]
  /\ pending \in [Processes -> [Kinds -> Nat]]
  /\ blocked \in [Processes -> BOOLEAN] /\ caught \in [Processes -> BOOLEAN]
  /\ received_signals \in [Processes -> Nat]
  /\ finish_condition \in [Processes -> BOOLEAN]
  /\ i \in [Processes -> Nat]

-----------------------------------------------------------------------------
\* The invariant

\* Whoever has no handlers has its signals blocked, or nobody who would send one.
Masked ==
  /\ pc["parent"] = "start" => pending["parent"] = [s \in Kinds |-> 0]
  /\ pc["parent"] # "start" => caught["parent"]
  /\ pc["parent"] = "fork" => blocked["parent"]
  /\ pc["parent"] \in {"start", "fork"} => pc["child"] = "none"
  /\ pc["child"] \in {"exec", "sigaction"} => blocked["child"]
  /\ pc["child"] \notin {"none", "exec", "sigaction", "failed"} => caught["child"]

\* No process is killed by a signal it has a handler for.
NobodyKilled == \A p \in Processes : pc[p] # "killed"

\* The last signal is sent after all the others, ...
ParentLast ==
  /\ i["parent"] <= quantity
  /\ pc["parent"] \in {"announceLast", "sendLast"} => i["parent"] = quantity
  /\ pending["child"][SIGUSR2] > 0 => i["parent"] = quantity
  /\ finish_condition["child"] => i["parent"] = quantity

\* ... which the child answers only when it has answered them all.
AnsweredAll == finish_condition["child"] /\ i["child"] = received_signals["child"]

ChildLast ==
  /\ i["child"] <= received_signals["child"]
  /\ pc["child"] \in {"send", "sendLast"} => finish_condition["child"]
  /\ pc["child"] = "sendLast" => AnsweredAll
  /\ pending["parent"][SIGUSR2] > 0 => AnsweredAll
  /\ finish_condition["parent"] => AnsweredAll

\* The last signal is delivered when no other is pending, and ends the loop.
LastIsLast ==
  /\ \A p \in Processes : finish_condition[p] => pending[p][SIGUSR1] = 0
  /\ pc["parent"] \in {"report", "exited"} => finish_condition["parent"]

IInv ==
  /\ exercise \in {"zad3a", "zad3c"}
  /\ TypeOK /\ Masked /\ NobodyKilled
  /\ SignalsAccounted /\ ParentLast /\ ChildLast /\ LastIsLast

-----------------------------------------------------------------------------
\* Every step keeps the invariant

LEMMA QueueLength ==
  /\ QUEUE_LENGTH \in Nat \ {0} /\ H!QUEUE_LENGTH \in Nat \ {0}
  /\ H!QUEUE_LENGTH = QUEUE_LENGTH
  /\ UNCHANGED exercise => QUEUE_LENGTH' = QUEUE_LENGTH
BY SignalsAssumption DEF QUEUE_LENGTH, H!QUEUE_LENGTH

\* A signal is added to those it was sent to join, or merged with them.
LEMMA KillAdds ==
  ASSUME pending \in [Processes -> [Kinds -> Nat]],
         NEW p \in Processes, NEW s \in Kinds, kill(p, s)
  PROVE  /\ pending' \in [Processes -> [Kinds -> Nat]]
         /\ pending'[p][s] = IF pending[p][s] < QUEUE_LENGTH THEN pending[p][s] + 1
                             ELSE pending[p][s]
         /\ \A q \in Processes, t \in Kinds :
              q # p \/ t # s => pending'[q][t] = pending[q][t]
<1> DEFINE n == pending[p][s]
<1>1. n \in Nat /\ Raised(n) \in Nat
  BY DEF Raised
<1>2. pending' = [pending EXCEPT ![p] = [@ EXCEPT ![s] = Raised(n)]]
  BY DEF kill
<1>3. pending'[p] = [pending[p] EXCEPT ![s] = Raised(n)]
  BY <1>2
<1>4. pending'[p][s] = Raised(n)
  BY <1>3
<1>5. pending' \in [Processes -> [Kinds -> Nat]]
  <2>1. [pending[p] EXCEPT ![s] = Raised(n)] \in [Kinds -> Nat]
    BY <1>1
  <2> QED
    BY <1>2, <2>1
<1>6. \A q \in Processes, t \in Kinds :
        q # p \/ t # s => pending'[q][t] = pending[q][t]
  BY <1>2, <1>3
<1> QED
  BY <1>4, <1>5, <1>6 DEF Raised

\* A delivered signal is no longer pending.
LEMMA DeliveryTakes ==
  ASSUME pending \in [Processes -> [Kinds -> Nat]],
         NEW p \in Processes, NEW s \in Kinds, pending[p][s] > 0,
         pending' = [pending EXCEPT ![p][s] = @ - 1]
  PROVE  /\ pending' \in [Processes -> [Kinds -> Nat]]
         /\ pending'[p][s] = pending[p][s] - 1
         /\ \A q \in Processes, t \in Kinds :
              q # p \/ t # s => pending'[q][t] = pending[q][t]
<1> DEFINE n == pending[p][s]
<1>1. n \in Nat /\ n - 1 \in Nat
  OBVIOUS
<1>2. pending' = [pending EXCEPT ![p] = [@ EXCEPT ![s] = n - 1]]
  OBVIOUS
<1>3. pending'[p] = [pending[p] EXCEPT ![s] = n - 1]
  BY <1>2
<1>4. pending'[p][s] = n - 1
  BY <1>3
<1>5. pending' \in [Processes -> [Kinds -> Nat]]
  <2>1. [pending[p] EXCEPT ![s] = n - 1] \in [Kinds -> Nat]
    BY <1>1
  <2> QED
    BY <1>2, <2>1
<1>6. \A q \in Processes, t \in Kinds :
        q # p \/ t # s => pending'[q][t] = pending[q][t]
  BY <1>2, <1>3
<1> QED
  BY <1>4, <1>5, <1>6

\* A process that a signal can be delivered to has its handlers, so it goes on:
\* after its pause(), if it was in one.
LEMMA HandledSignal ==
  ASSUME IInv, NEW p \in Processes, NEW s \in Kinds, Deliverable(p, s)
  PROVE  Resumed(p) = IF pc[p] = "paused" THEN "test" ELSE pc[p]
<1>1. caught[p]
  BY DEF IInv, TypeOK, Masked, Deliverable, Processes, Kinds
<1>2. pc[p] # "ackPaused"
  BY DEF IInv, TypeOK, Labels
<1> QED
  BY <1>1, <1>2 DEF Resumed

\* Starting up moves the processes and their masks, and no signal.
StartUp ==
  \/ BlockInParent \/ Fork \/ ForkFails \/ Unblock("parent", "announce")
  \/ Exec \/ ExecFails \/ InstallInChild \/ Unblock("child", "test")

LEMMA StartUpKeeps ==
  ASSUME IInv, StartUp, UNCHANGED exercise
  PROVE  IInv'
<1> USE DEF IInv, StartUp, BlockInParent, Fork, ForkFails, Unblock, Exec, ExecFails,
            InstallInChild, Goto, signalVars
<1>1. TypeOK' /\ NobodyKilled'
  <2>1. pc' \in [Processes -> Labels] /\ NobodyKilled'
    BY DEF TypeOK, Labels, Processes, NobodyKilled
  <2>2. blocked' \in [Processes -> BOOLEAN] /\ caught' \in [Processes -> BOOLEAN]
    BY DEF TypeOK, Processes
  <2> QED
    BY <2>1, <2>2 DEF TypeOK
<1>2. Masked'
  BY DEF TypeOK, Masked, Processes
<1>3. SignalsAccounted' /\ ParentLast' /\ ChildLast' /\ LastIsLast'
  BY QueueLength
  DEF TypeOK, Processes, SignalsAccounted, Other, ParentLast, ChildLast, AnsweredAll,
      LastIsLast
<1> QED
  BY <1>1, <1>2, <1>3

\* What main does between its signals moves one process, and nothing else.
Talk(p) ==
  \/ p = "parent" /\ (Announce \/ AnnounceLast \/ Report)
  \/ TestFinish(p) \/ CallPause(p) \/ LeaveLoop(p)

LEMMA TalkKeeps ==
  ASSUME IInv, NEW p \in Processes, Talk(p), UNCHANGED exercise
  PROVE  IInv'
<1> USE DEF IInv, Talk, Announce, AnnounceLast, Report, Say, TestFinish, CallPause, LeaveLoop,
            Goto, signalVars
<1>1. TypeOK' /\ NobodyKilled'
  BY DEF TypeOK, Labels, Processes, NobodyKilled
<1>2. Masked'
  BY DEF TypeOK, Masked, Processes
<1>3. SignalsAccounted'
  BY QueueLength DEF SignalsAccounted, Other
<1>4. ParentLast'
  BY DEF TypeOK, Processes, ParentLast, ToSend
<1>5. ChildLast'
  BY DEF TypeOK, Processes, ChildLast, AnsweredAll, ToSend
<1>6. LastIsLast'
  BY DEF TypeOK, Processes, LastIsLast
<1> QED
  BY <1>1, <1>2, <1>3, <1>4, <1>5, <1>6

\* A sent signal is pending, or the queue was full.
LEMMA SendUsr1Keeps ==
  ASSUME IInv, NEW p \in Processes, SendUsr1(p), UNCHANGED exercise
  PROVE  IInv'
<1> USE DEF IInv, SendUsr1, Goto
<1> DEFINE o == Other(p)
<1>1. o \in Processes /\ o # p /\ SIGUSR1 \in Kinds /\ SIGUSR2 \in Kinds /\ SIGUSR1 # SIGUSR2
  BY DEF Other, Processes, Kinds, SIGUSR1, SIGUSR2
<1>2. /\ pending' \in [Processes -> [Kinds -> Nat]]
      /\ pending'[o][SIGUSR1] = IF pending[o][SIGUSR1] < QUEUE_LENGTH
                                THEN pending[o][SIGUSR1] + 1 ELSE pending[o][SIGUSR1]
      /\ \A q \in Processes, t \in Kinds :
           q # o \/ t # SIGUSR1 => pending'[q][t] = pending[q][t]
  BY <1>1, KillAdds DEF TypeOK
<1>3. TypeOK' /\ NobodyKilled'
  BY <1>2 DEF TypeOK, NobodyKilled, Processes
<1>4. Masked'
  <2>1. pc["parent"] # "start"
    BY DEF Masked, Processes
  <2> QED
    BY <2>1 DEF TypeOK, Masked, Processes
<1>5. SignalsAccounted'
  <2> SUFFICES ASSUME NEW q \in Processes
               PROVE  LET seen == received_signals'[q] + pending'[q][SIGUSR1]
                          sent == i'[Other(q)]
                      IN  seen <= sent /\ (seen >= sent \/ seen >= QUEUE_LENGTH)
    BY QueueLength DEF SignalsAccounted, Other
  <2>1. CASE q = o
    BY <1>1, <1>2, <2>1, QueueLength DEF TypeOK, SignalsAccounted, Other, Processes
  <2>2. CASE q = p
    BY <1>1, <1>2, <2>2, QueueLength DEF TypeOK, SignalsAccounted, Other, Processes
  <2> QED
    BY <2>1, <2>2 DEF Other, Processes
<1>6. ParentLast'
  BY <1>1, <1>2, SignalsAssumption DEF TypeOK, Processes, ParentLast, ToSend, Other
<1>7. ChildLast'
  BY <1>1, <1>2 DEF TypeOK, Processes, ChildLast, AnsweredAll, ToSend, Other
<1>8. LastIsLast'
  BY <1>1, <1>2, SignalsAssumption
  DEF TypeOK, Processes, LastIsLast, ParentLast, ChildLast, AnsweredAll, ToSend, Other
<1> QED
  BY <1>3, <1>4, <1>5, <1>6, <1>7, <1>8

\* The last signal follows all the others.
LEMMA SendUsr2Keeps ==
  ASSUME IInv, NEW p \in Processes, SendUsr2(p), UNCHANGED exercise
  PROVE  IInv'
<1> USE DEF IInv, SendUsr2, Goto
<1> DEFINE o == Other(p)
<1>1. o \in Processes /\ o # p /\ SIGUSR1 \in Kinds /\ SIGUSR2 \in Kinds /\ SIGUSR1 # SIGUSR2
  BY DEF Other, Processes, Kinds, SIGUSR1, SIGUSR2
<1>2. /\ pending' \in [Processes -> [Kinds -> Nat]]
      /\ \A q \in Processes : pending'[q][SIGUSR1] = pending[q][SIGUSR1]
      /\ pending'[p][SIGUSR2] = pending[p][SIGUSR2]
  BY <1>1, KillAdds DEF TypeOK
<1>3. TypeOK' /\ NobodyKilled'
  BY <1>2 DEF TypeOK, Labels, NobodyKilled, Processes
<1>4. Masked'
  <2>1. pc["parent"] # "start"
    BY DEF Masked, Processes
  <2> QED
    BY <2>1 DEF TypeOK, Masked, Processes
<1>5. SignalsAccounted'
  BY <1>1, <1>2, QueueLength DEF TypeOK, SignalsAccounted, Other, Processes
<1>6. ParentLast'
  BY <1>1, <1>2 DEF TypeOK, Processes, ParentLast, Other
<1>7. ChildLast'
  BY <1>1, <1>2 DEF TypeOK, Processes, ChildLast, AnsweredAll, Other
<1>8. LastIsLast'
  BY <1>1, <1>2 DEF TypeOK, Processes, LastIsLast
<1> QED
  BY <1>3, <1>4, <1>5, <1>6, <1>7, <1>8

\* A counted signal was pending before.
LEMMA Usr1HandlerKeeps ==
  ASSUME IInv, NEW p \in Processes, signal_usr1_handler(p), UNCHANGED exercise
  PROVE  IInv'
<1> USE DEF IInv, signal_usr1_handler
<1>1. SIGUSR1 \in Kinds /\ SIGUSR2 \in Kinds /\ SIGUSR1 # SIGUSR2 /\ pending[p][SIGUSR1] > 0
  BY DEF Kinds, SIGUSR1, SIGUSR2, Deliverable
<1>2. /\ pending' \in [Processes -> [Kinds -> Nat]]
      /\ pending'[p][SIGUSR1] = pending[p][SIGUSR1] - 1
      /\ \A q \in Processes, t \in Kinds :
           q # p \/ t # SIGUSR1 => pending'[q][t] = pending[q][t]
  BY <1>1, DeliveryTakes DEF TypeOK
<1>3. pc' = [pc EXCEPT ![p] = IF pc[p] = "paused" THEN "test" ELSE pc[p]]
  BY <1>1, HandledSignal
<1>4. TypeOK' /\ NobodyKilled'
  BY <1>2, <1>3 DEF TypeOK, Labels, NobodyKilled, Processes
<1>5. Masked'
  <2>1. pc["parent"] # "start"
    BY <1>1 DEF Masked, Processes, Deliverable
  <2> QED
    BY <1>3, <2>1 DEF TypeOK, Masked, Processes
<1>6. SignalsAccounted'
  BY <1>1, <1>2, QueueLength DEF TypeOK, SignalsAccounted, Other, Processes
<1>7. ~finish_condition[p]
  BY <1>1 DEF LastIsLast
<1>8. ParentLast'
  BY <1>1, <1>2, <1>3 DEF TypeOK, Processes, ParentLast
<1>9. ChildLast'
  BY <1>1, <1>2, <1>3, <1>7 DEF TypeOK, Processes, ChildLast, AnsweredAll
<1>10. LastIsLast'
  BY <1>1, <1>2, <1>3, <1>7 DEF TypeOK, Processes, LastIsLast
<1> QED
  BY <1>4, <1>5, <1>6, <1>8, <1>9, <1>10

\* The flag is set when nothing else is pending.
LEMMA Usr2HandlerKeeps ==
  ASSUME IInv, NEW p \in Processes, signal_usr2_handler(p), UNCHANGED exercise
  PROVE  IInv'
<1> USE DEF IInv, signal_usr2_handler
<1>1. /\ SIGUSR1 \in Kinds /\ SIGUSR2 \in Kinds /\ SIGUSR1 # SIGUSR2
      /\ pending[p][SIGUSR2] > 0 /\ pending[p][SIGUSR1] = 0
  BY DEF Kinds, SIGUSR1, SIGUSR2, Deliverable
<1>2. /\ pending' \in [Processes -> [Kinds -> Nat]]
      /\ pending'[p][SIGUSR2] = pending[p][SIGUSR2] - 1
      /\ \A q \in Processes, t \in Kinds :
           q # p \/ t # SIGUSR2 => pending'[q][t] = pending[q][t]
  BY <1>1, DeliveryTakes DEF TypeOK
<1>3. pc' = [pc EXCEPT ![p] = IF pc[p] = "paused" THEN "test" ELSE pc[p]]
  BY <1>1, HandledSignal
<1>4. TypeOK' /\ NobodyKilled'
  BY <1>2, <1>3 DEF TypeOK, Labels, NobodyKilled, Processes
<1>5. Masked'
  <2>1. pc["parent"] # "start"
    BY <1>1 DEF Masked, Processes, Deliverable
  <2> QED
    BY <1>3, <2>1 DEF TypeOK, Masked, Processes
<1>6. SignalsAccounted'
  BY <1>1, <1>2, QueueLength DEF TypeOK, SignalsAccounted, Other, Processes
<1>7. ParentLast'
  BY <1>1, <1>2, <1>3 DEF TypeOK, Processes, ParentLast
<1>8. ChildLast'
  BY <1>1, <1>2, <1>3 DEF TypeOK, Processes, ChildLast, AnsweredAll
<1>9. LastIsLast'
  BY <1>1, <1>2, <1>3 DEF TypeOK, Processes, LastIsLast
<1> QED
  BY <1>4, <1>5, <1>6, <1>7, <1>8, <1>9

LEMMA ExchangeStarts ==
  ASSUME Init, exercise # "zad3b"
  PROVE  IInv
<1> USE DEF Init, SignalsInit
<1>1. TypeOK /\ NobodyKilled
  BY DEF TypeOK, Labels, Processes, NobodyKilled
<1>2. Masked /\ ParentLast /\ ChildLast /\ LastIsLast
  BY SignalsAssumption
  DEF Masked, Processes, Kinds, SIGUSR1, SIGUSR2, ParentLast, ChildLast, LastIsLast
<1>3. SignalsAccounted
  BY DEF SignalsAccounted, Other, Processes, Kinds, SIGUSR1, SIGUSR2
<1> QED
  BY <1>1, <1>2, <1>3 DEF IInv, Exercises

LEMMA ExchangeKeeps ==
  ASSUME IInv, parent \/ child \/ \E p \in Processes : handler(p), UNCHANGED exercise
  PROVE  IInv'
<1> DEFINE Steps(p) == \/ Talk(p) \/ SendUsr1(p) \/ SendUsr2(p)
                       \/ signal_usr1_handler(p) \/ signal_usr2_handler(p)
<1>1. CASE StartUp
  BY <1>1, StartUpKeeps
<1>2. ASSUME NEW p \in Processes, Steps(p) PROVE IInv'
  BY <1>2, TalkKeeps, SendUsr1Keeps, SendUsr2Keeps, Usr1HandlerKeeps, Usr2HandlerKeeps
<1>3. StartUp \/ \E p \in Processes : Steps(p)
  BY DEF parent, child, handler, Common, StartUp, Talk, Processes
<1> QED
  BY <1>1, <1>2, <1>3

\* The counts that are printed: the last signal of a process is the last one the
\* other handles, so the count is final when it is printed.
LEMMA CountsFinal == IInv => ResultBounds
<1> SUFFICES ASSUME IInv, pc["parent"] \in {"report", "exited"}
             PROVE  LET there == received_signals["child"]
                        back  == received_signals["parent"]
                    IN  /\ there <= quantity /\ (there = quantity \/ there >= QUEUE_LENGTH)
                        /\ back <= there /\ (back = there \/ back >= QUEUE_LENGTH)
  BY DEF ResultBounds
<1>1. finish_condition["parent"] /\ finish_condition["child"]
  BY DEF IInv, LastIsLast, ChildLast, AnsweredAll
<1>2. pending["parent"][SIGUSR1] = 0 /\ pending["child"][SIGUSR1] = 0
  BY <1>1 DEF IInv, LastIsLast, Processes
<1>3. i["parent"] = quantity /\ i["child"] = received_signals["child"]
  BY <1>1 DEF IInv, ParentLast, ChildLast, AnsweredAll
<1> QED
  BY <1>2, <1>3, SignalsAssumption, QueueLength
  DEF IInv, TypeOK, SignalsAccounted, Other, Processes

-----------------------------------------------------------------------------
\* zad3b: one signal each way in every round

HLabels == Labels \cup {"ackTest", "ackPause", "ackPaused", "reset"}

HTypeOK ==
  /\ pc \in [Processes -> HLabels]
  /\ pending \in [Processes -> [Kinds -> Nat]]
  /\ received_signals \in [Processes -> Nat]
  /\ i \in [Processes -> Nat]
  /\ received_successful \in BOOLEAN

\* How far the round of the parent has come: the counts of both and the signals
\* under way, one at a time.
Round(there, toChild, toParent, back) ==
  /\ received_signals["child"] = i["parent"] + there
  /\ received_signals["parent"] = i["parent"] + back
  /\ pending["child"][SIGUSR1] = toChild /\ pending["parent"][SIGUSR1] = toParent

Between == Round(0, 0, 0, 0) /\ ~received_successful
Asked   == Round(0, 1, 0, 0) /\ ~received_successful
Replied == Round(1, 0, 1, 0) /\ ~received_successful
Counted == Round(1, 0, 0, 1) /\ received_successful

\* The parent is in a round exactly between its kill and its count.
RoundInv ==
  /\ Between \/ Asked \/ Replied \/ Counted
  /\ pc["parent"] \in {"ackTest", "ackPause", "ackPaused"} => ~Between
  /\ pc["parent"] = "reset" => Counted
  /\ pc["parent"] \in Labels \ {"killed"} => Between

HIInv == exercise = "zad3b" /\ HTypeOK /\ RoundInv

\* What moves a process and touches no SIGUSR1 leaves the round alone.
LEMMA RoundStays ==
  ASSUME HIInv, HTypeOK', UNCHANGED <<exercise, received_signals, i, received_successful>>,
         \A p \in Processes : pending'[p][SIGUSR1] = pending[p][SIGUSR1],
         \/ pc'["parent"] = pc["parent"]
         \/ pc["parent"] \in Labels \ {"killed"} /\ pc'["parent"] \in Labels
         \/ pc'["parent"] = "killed"
         \/ /\ pc["parent"] \in {"ackTest", "ackPause", "ackPaused"}
            /\ pc'["parent"] \in {"ackTest", "ackPause", "ackPaused"}
  PROVE  HIInv'
<1>1. /\ (Between' <=> Between) /\ (Asked' <=> Asked)
      /\ (Replied' <=> Replied) /\ (Counted' <=> Counted)
  BY DEF Between, Asked, Replied, Counted, Round, Processes
<1> QED
  BY <1>1 DEF HIInv, RoundInv, Labels

\* Starting up and the loops of main send no signal.
HStartUp ==
  \/ H!BlockInParent \/ H!Fork \/ H!ForkFails \/ H!Unblock("parent", "announce")
  \/ H!Exec \/ H!ExecFails \/ H!InstallInChild \/ H!Unblock("child", "test")
  \/ H!Say("parent", "announce", "send") \/ H!Say("parent", "announceLast", "sendLast")
  \/ H!Say("parent", "report", "exited")

HTalk ==
  \/ H!PauseForAnswer \/ H!LeaveLoop
  \/ \E p \in Processes : H!TestFinish(p) \/ H!CallPause(p)

LEMMA HStartUpKeeps ==
  ASSUME HIInv, HStartUp, UNCHANGED received_successful, UNCHANGED exercise
  PROVE  HIInv'
<1> USE DEF HIInv, HStartUp, H!BlockInParent, H!Fork, H!ForkFails, H!Unblock, H!Exec,
            H!ExecFails, H!InstallInChild, H!Say, H!Goto, H!signalVars
<1>1. HTypeOK'
  BY DEF HTypeOK, HLabels, Labels, Processes
<1>2. \/ pc'["parent"] = pc["parent"]
      \/ pc["parent"] \in Labels \ {"killed"} /\ pc'["parent"] \in Labels
  BY DEF HTypeOK, Labels, Processes
<1> QED
  BY <1>1, <1>2, RoundStays

LEMMA HTalkKeeps ==
  ASSUME HIInv, HTalk, UNCHANGED exercise
  PROVE  HIInv'
<1> USE DEF HIInv, HTalk, H!PauseForAnswer, H!LeaveLoop, H!TestFinish, H!CallPause,
            H!Goto, H!signalVars, H!counters
<1>1. HTypeOK'
  BY DEF HTypeOK, HLabels, Labels, Processes
<1>2. \/ pc'["parent"] = pc["parent"]
      \/ pc["parent"] \in Labels \ {"killed"} /\ pc'["parent"] \in Labels
      \/ /\ pc["parent"] \in {"ackTest", "ackPause", "ackPaused"}
         /\ pc'["parent"] \in {"ackTest", "ackPause", "ackPaused"}
  BY DEF HTypeOK, Labels, Processes
<1> QED
  BY <1>1, <1>2, RoundStays

\* The second kind of signal has no part in a round.
LEMMA HUsr2Keeps ==
  ASSUME HIInv, UNCHANGED exercise,
         \/ H!SendUsr2 \/ H!AnswerUsr2 \/ \E p \in Processes : H!signal_usr2_handler(p)
  PROVE  HIInv'
<1> USE DEF HIInv, H!Goto, H!counters
<1>1. SIGUSR1 \in Kinds /\ SIGUSR2 \in Kinds /\ SIGUSR1 # SIGUSR2
  BY DEF Kinds, SIGUSR1, SIGUSR2
<1>2. ASSUME NEW p \in Processes, kill(p, SIGUSR2), pc' \in [Processes -> HLabels],
             UNCHANGED <<received_signals, i, received_successful>>,
             \/ pc'["parent"] = pc["parent"]
             \/ pc["parent"] \in Labels \ {"killed"} /\ pc'["parent"] \in Labels
      PROVE  HIInv'
  BY <1>1, <1>2, KillAdds, RoundStays DEF HTypeOK
<1>3. CASE H!SendUsr2
  <2>1. kill("child", SIGUSR2)
    BY <1>3 DEF H!SendUsr2, H!kill, H!Raised, H!QUEUE_LENGTH, kill, Raised, QUEUE_LENGTH,
                H!SIGUSR2, SIGUSR2
  <2>2. pc["parent"] \in Labels \ {"killed"} /\ pc'["parent"] \in Labels
        /\ pc' \in [Processes -> HLabels]
    BY <1>3 DEF H!SendUsr2, HTypeOK, HLabels, Labels, Processes
  <2> QED
    BY <1>2, <1>3, <2>1, <2>2 DEF H!SendUsr2, Processes
<1>4. CASE H!AnswerUsr2
  <2>1. kill("parent", SIGUSR2)
    BY <1>4 DEF H!AnswerUsr2, H!kill, H!Raised, H!QUEUE_LENGTH, kill, Raised, QUEUE_LENGTH,
                H!SIGUSR2, SIGUSR2
  <2>2. pc'["parent"] = pc["parent"] /\ pc' \in [Processes -> HLabels]
    BY <1>4 DEF H!AnswerUsr2, HTypeOK, HLabels, Labels, Processes
  <2> QED
    BY <1>2, <1>4, <2>1, <2>2 DEF H!AnswerUsr2, Processes
<1>5. ASSUME NEW p \in Processes, H!signal_usr2_handler(p) PROVE HIInv'
  <2> USE <1>5 DEF H!signal_usr2_handler, H!SIGUSR2, SIGUSR2
  <2>1. /\ pending' \in [Processes -> [Kinds -> Nat]]
        /\ \A q \in Processes : pending'[q][SIGUSR1] = pending[q][SIGUSR1]
    BY <1>1, DeliveryTakes DEF HTypeOK, H!Deliverable
  <2>2. H!Resumed(p) \in {pc[p], "killed", "test", "ackTest"} 
    BY DEF H!Resumed
  <2>3. HTypeOK'
    BY <2>1, <2>2 DEF HTypeOK, HLabels, Labels
  <2>4. /\ H!Resumed(p) = "test" => pc[p] \in {"paused", "test"}
        /\ H!Resumed(p) = "ackTest" => pc[p] \in {"ackPaused", "ackTest"}
    BY DEF H!Resumed
  <2>5. \/ pc'["parent"] = pc["parent"]
        \/ pc["parent"] \in Labels \ {"killed"} /\ pc'["parent"] \in Labels
        \/ pc'["parent"] = "killed"
        \/ /\ pc["parent"] \in {"ackTest", "ackPause", "ackPaused"}
           /\ pc'["parent"] \in {"ackTest", "ackPause", "ackPaused"}
    BY <2>2, <2>4 DEF HTypeOK, Labels
  <2> QED
    BY <2>1, <2>3, <2>5, RoundStays
<1> QED
  BY <1>3, <1>4, <1>5

\* A round begins when the one before it has been counted.
LEMMA HSendUsr1Keeps ==
  ASSUME HIInv, H!SendUsr1, UNCHANGED exercise
  PROVE  HIInv'
<1> USE DEF HIInv, H!SendUsr1, H!Goto, H!counters
<1>1. SIGUSR1 \in Kinds /\ kill("child", SIGUSR1)
  BY DEF Kinds, SIGUSR1, H!kill, H!Raised, H!QUEUE_LENGTH, kill, Raised, QUEUE_LENGTH, H!SIGUSR1
<1>2. /\ pending' \in [Processes -> [Kinds -> Nat]]
      /\ pending'["parent"][SIGUSR1] = pending["parent"][SIGUSR1]
      /\ pending["child"][SIGUSR1] = 0 => pending'["child"][SIGUSR1] = 1
  BY <1>1, KillAdds, QueueLength DEF HTypeOK, Processes
<1>3. HTypeOK'
  BY <1>2 DEF HTypeOK, HLabels, Labels
<1>4. pc'["parent"] = "ackTest"
  BY DEF HTypeOK, Processes
<1>5. Asked' /\ ~Between'
  BY <1>2 DEF HTypeOK, RoundInv, Labels, Between, Asked, Round
<1> QED
  BY <1>3, <1>4, <1>5 DEF RoundInv, Labels

\* The parent ends a round when it has counted the answer, and then counts the round.
LEMMA HRoundEndKeeps ==
  ASSUME HIInv, H!TestAnswer \/ H!NextRound, UNCHANGED exercise
  PROVE  HIInv'
<1> USE DEF HIInv, H!TestAnswer, H!NextRound, H!Goto, H!signalVars, H!counters
<1>1. HTypeOK'
  <2>1. pc' \in [Processes -> HLabels]
    BY DEF HTypeOK, HLabels, Labels, Processes
  <2>2. i' \in [Processes -> Nat]
    BY DEF HTypeOK, Processes
  <2>3. received_successful' \in BOOLEAN
    BY DEF HTypeOK
  <2> QED
    BY <2>1, <2>2, <2>3 DEF HTypeOK
<1>2. CASE H!TestAnswer
  <2>1. pc'["parent"] = IF received_successful THEN "reset" ELSE "ackPause"
    BY <1>2 DEF HTypeOK, Processes
  <2>2. /\ (Between' <=> Between) /\ (Asked' <=> Asked)
        /\ (Replied' <=> Replied) /\ (Counted' <=> Counted)
    BY <1>2 DEF Between, Asked, Replied, Counted, Round
  <2>3. received_successful => Counted
    BY DEF RoundInv, Between, Asked, Replied
  <2> QED
    BY <1>1, <1>2, <2>1, <2>2, <2>3 DEF RoundInv, Labels
<1>3. CASE H!NextRound
  <2>1. pc'["parent"] = "send" /\ Counted
    BY <1>3 DEF HTypeOK, RoundInv, Processes
  <2>2. Between'
    BY <1>3, <2>1 DEF HTypeOK, Processes, Between, Counted, Round
  <2> QED
    BY <1>1, <2>1, <2>2 DEF RoundInv, Labels
<1> QED
  BY <1>2, <1>3

\* The child counts and answers in one handler.
LEMMA HAnswerKeeps ==
  ASSUME HIInv, H!Answer, UNCHANGED exercise
  PROVE  HIInv'
<1> USE DEF HIInv, H!Answer
<1>1. SIGUSR1 \in Kinds /\ pending["child"][SIGUSR1] > 0
  BY DEF Kinds, SIGUSR1, H!Deliverable, H!SIGUSR1
<1>2. Asked
  BY <1>1 DEF RoundInv, Between, Replied, Counted, Round
<1>3. /\ pending["child"][SIGUSR1] = 1 /\ pending["parent"][SIGUSR1] = 0
      /\ H!Raised(0) = 1
  BY <1>2, QueueLength DEF Asked, Round, H!Raised
<1> DEFINE toChild  == [pending["child"] EXCEPT ![SIGUSR1] = 0]
           toParent == [pending["parent"] EXCEPT ![SIGUSR1] = 1]
<1>4. pending' = [pending EXCEPT !["child"][SIGUSR1] = 0, !["parent"][SIGUSR1] = 1]
  <2> DEFINE a == pending["child"][SIGUSR1] - 1
             b == H!Raised(pending["parent"][SIGUSR1])
  <2>1. pending' = [pending EXCEPT !["child"][SIGUSR1] = a, !["parent"][SIGUSR1] = b]
    BY Zenon DEF H!SIGUSR1, SIGUSR1
  <2>2. a = 0 /\ b = 1
    BY <1>3
  <2> HIDE DEF a, b
  <2> QED
    BY <2>1, <2>2, Zenon
<1>5. pending'["child"] = toChild /\ pending'["parent"] = toParent
  BY <1>4 DEF HTypeOK, Processes
<1>6. pending' \in [Processes -> [Kinds -> Nat]]
  <2>1. toChild \in [Kinds -> Nat] /\ toParent \in [Kinds -> Nat]
    BY DEF HTypeOK, Processes
  <2>2. pending' = [pending EXCEPT !["child"] = toChild, !["parent"] = toParent]
    BY <1>4 DEF HTypeOK, Processes
  <2> HIDE DEF toChild, toParent
  <2> QED
    BY <2>1, <2>2 DEF HTypeOK, Processes
<1>7. pending'["child"][SIGUSR1] = 0 /\ pending'["parent"][SIGUSR1] = 1
  BY <1>1, <1>5 DEF HTypeOK, Processes
<1>8. H!Resumed("child") \in HLabels
  BY DEF H!Resumed, HTypeOK, HLabels, Labels, Processes
<1>9. HTypeOK' /\ pc'["parent"] = pc["parent"]
  BY <1>6, <1>8 DEF HTypeOK, Processes
<1>10. Replied' /\ ~Between'
  BY <1>2, <1>7 DEF HTypeOK, Processes, Asked, Replied, Between, Round
<1>11. ~Between /\ ~Counted
  BY <1>1, <1>2 DEF Between, Counted, Asked, Round
<1> QED
  BY <1>9, <1>10, <1>11 DEF RoundInv

\* The parent takes the answer for that of its round, which it is.
LEMMA HCountAnswerKeeps ==
  ASSUME HIInv, H!CountAnswer, UNCHANGED exercise
  PROVE  HIInv'
<1> USE DEF HIInv, H!CountAnswer
<1>1. SIGUSR1 \in Kinds /\ pending["parent"][SIGUSR1] > 0
  BY DEF Kinds, SIGUSR1, H!Deliverable, H!SIGUSR1
<1>2. Replied
  BY <1>1 DEF RoundInv, Between, Asked, Counted, Round
<1>3. /\ pending' \in [Processes -> [Kinds -> Nat]]
      /\ pending'["parent"][SIGUSR1] = 0
      /\ pending'["child"][SIGUSR1] = pending["child"][SIGUSR1]
  BY <1>1, <1>2, DeliveryTakes DEF HTypeOK, Processes, Replied, Round, H!SIGUSR1, SIGUSR1
<1>4. ~Between /\ ~Counted
  BY <1>1, <1>2 DEF Between, Counted, Replied, Round
<1>5. pc["parent"] \in {"ackTest", "ackPause", "ackPaused", "killed"}
  BY <1>4 DEF HTypeOK, HLabels, RoundInv, Processes
<1>6. H!Resumed("parent") \in {"ackTest", "ackPause", "killed"}
  BY <1>5 DEF H!Resumed, H!Deliverable
<1>7. HTypeOK' /\ pc'["parent"] \in {"ackTest", "ackPause", "killed"}
  BY <1>3, <1>6 DEF HTypeOK, HLabels, Labels, Processes
<1>8. Counted' /\ ~Between'
  BY <1>2, <1>3 DEF HTypeOK, Processes, Replied, Counted, Between, Round
<1> QED
  BY <1>7, <1>8 DEF RoundInv, Labels

LEMMA HandshakeStarts ==
  ASSUME Init, exercise = "zad3b"
  PROVE  HIInv
<1> USE DEF Init, SignalsInit, Processes, Kinds, SIGUSR1, SIGUSR2
<1>1. HTypeOK
  BY DEF HTypeOK, HLabels, Labels
<1>2. Between
  BY DEF Between, Round
<1>3. pc["parent"] = "start"
  OBVIOUS
<1> QED
  BY <1>1, <1>2, <1>3 DEF HIInv, RoundInv

LEMMA HandshakeKeeps ==
  ASSUME HIInv, H!parent \/ H!child \/ \E p \in Processes : H!handler(p), UNCHANGED exercise
  PROVE  HIInv'
<1>1. \/ HStartUp /\ UNCHANGED received_successful
      \/ HTalk \/ H!SendUsr1 \/ H!TestAnswer \/ H!NextRound \/ H!Answer \/ H!CountAnswer
      \/ H!SendUsr2 \/ H!AnswerUsr2 \/ \E p \in Processes : H!signal_usr2_handler(p)
  BY DEF H!parent, H!child, H!handler, HStartUp, HTalk, Processes
<1> QED
  BY <1>1, HStartUpKeeps, HTalkKeeps, HSendUsr1Keeps, HRoundEndKeeps, HAnswerKeeps,
     HCountAnswerKeeps, HUsr2Keeps

-----------------------------------------------------------------------------
\* The three programs

ExerciseInv ==
  /\ exercise \in Exercises
  /\ exercise # "zad3b" => IInv
  /\ exercise = "zad3b" => HIInv

\* The strengthened invariant holds of every reachable state.
LEMMA InvariantHolds == Spec => []ExerciseInv
<1>1. Init => ExerciseInv
  BY ExchangeStarts, HandshakeStarts DEF ExerciseInv, Init, SignalsInit
<1>2. ExerciseInv /\ [Next]_vars => ExerciseInv'
  <2> SUFFICES ASSUME ExerciseInv, [Next]_vars PROVE ExerciseInv'
    OBVIOUS
  <2>1. CASE UNCHANGED vars
    <3>1. IInv => IInv'
      BY <2>1 DEF vars, IInv, TypeOK, Masked, NobodyKilled, SignalsAccounted, QUEUE_LENGTH,
                  ParentLast, ChildLast, AnsweredAll, LastIsLast
    <3>2. HIInv => HIInv'
      BY <2>1 DEF vars, HIInv, HTypeOK, RoundInv, Between, Asked, Replied, Counted, Round
    <3> QED
      BY <2>1, <3>1, <3>2 DEF vars, ExerciseInv
  <2>2. CASE Next
    <3>1. UNCHANGED exercise
      BY <2>2 DEF Next, Parent, Child, Handler, Exchange, Handshake
    <3>2. CASE exercise # "zad3b"
      <4>1. parent \/ child \/ \E p \in Processes : handler(p)
        BY <2>2, <3>2 DEF Next, Parent, Child, Handler, Exchange, Handshake
      <4> QED
        BY <3>1, <3>2, <4>1, ExchangeKeeps DEF ExerciseInv
    <3>3. CASE exercise = "zad3b"
      <4>1. H!parent \/ H!child \/ \E p \in Processes : H!handler(p)
        BY <2>2, <3>3 DEF Next, Parent, Child, Handler, Exchange, Handshake
      <4> QED
        BY <3>1, <3>3, <4>1, HandshakeKeeps DEF ExerciseInv
    <3> QED
      BY <3>2, <3>3
  <2> QED
    BY <2>1, <2>2
<1> QED
  BY <1>1, <1>2, PTL DEF Spec

\* Every variable keeps its type.
THEOREM TypeCorrect == Spec => [](IF exercise = "zad3b" THEN HTypeOK ELSE TypeOK)
<1>1. ExerciseInv => IF exercise = "zad3b" THEN HTypeOK ELSE TypeOK
  BY DEF ExerciseInv, IInv, HIInv
<1> QED
  BY <1>1, InvariantHolds, PTL

\* zad3a and zad3c: the parent's mask outlives fork() and exec(), so whenever a signal
\* is sent its receiver has handlers or holds the signal back until it has.
THEOREM HandlersInTime == Spec => [](exercise # "zad3b" => NobodyKilled)
<1>1. ExerciseInv => (exercise # "zad3b" => NobodyKilled)
  BY DEF ExerciseInv, IInv
<1> QED
  BY <1>1, InvariantHolds, PTL

\* zad3a and zad3c, for a queue of any length: a signal is lost only to a full queue.
THEOREM LossIsBounded == Spec => []SignalsAccounted
<1>1. ExerciseInv => SignalsAccounted
  BY DEF ExerciseInv, IInv, SignalsAccounted
<1> QED
  BY <1>1, InvariantHolds, PTL

\* zad3a and zad3c: how many signals the two counts show.
THEOREM CountsReported == Spec => []ResultBounds
<1>1. ExerciseInv => ResultBounds
  BY CountsFinal DEF ExerciseInv, ResultBounds
<1> QED
  BY <1>1, InvariantHolds, PTL

\* zad3b, for any number of rounds, although the queue holds one signal only: no
\* answer is lost or taken for another.
THEOREM NoAnswerLost == Spec => []RoundsCounted
<1>1. ExerciseInv => RoundsCounted
  BY DEF ExerciseInv, HIInv, HTypeOK, RoundInv, Labels, Between, Round, RoundsCounted,
         H!RoundsCounted, H!Processes, Processes
<1> QED
  BY <1>1, InvariantHolds, PTL

=============================================================================
