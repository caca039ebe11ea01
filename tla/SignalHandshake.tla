---------------------------- MODULE SignalHandshake -------------------------
(***************************************************************************)
(* lab05/zad3b: the exchange of SIGUSR1 made safe by acknowledgement.  The *)
(* child's handler answers every signal at once and the parent waits for   *)
(* the answer before it sends the next, so that neither ever has two       *)
(* signals of a kind pending.                                              *)
(***************************************************************************)
EXTENDS Signals

VARIABLE received_successful    \* the parent has its answer

counters == <<received_signals, finish_condition, i, received_successful>>

-----------------------------------------------------------------------------
\* parent.c

CountAnswer ==
  /\ Deliverable("parent", SIGUSR1)
  /\ received_signals' = [received_signals EXCEPT !["parent"] = @ + 1]
  /\ received_successful' = TRUE
  /\ pending' = [pending EXCEPT !["parent"][SIGUSR1] = @ - 1]
  /\ pc' = [pc EXCEPT !["parent"] = Resumed("parent")]
  /\ UNCHANGED <<blocked, caught, finish_condition, i>>

SendUsr1 ==
  /\ i["parent"] < quantity
  /\ Goto("parent", "send", "ackTest")
  /\ kill("child", SIGUSR1)
  /\ UNCHANGED <<blocked, caught, counters>>

\* Slip: the parent does not wait for the answer.
TestAnswerSkipped ==
  /\ Goto("parent", "ackTest", "reset")
  /\ UNCHANGED <<signalVars, counters>>

TestAnswer ==
  /\ Goto("parent", "ackTest", IF received_successful THEN "reset" ELSE "ackPause")
  /\ UNCHANGED <<signalVars, counters>>

PauseForAnswer ==
  /\ Goto("parent", "ackPause", "ackPaused")
  /\ UNCHANGED <<signalVars, counters>>

NextRound ==
  /\ Goto("parent", "reset", "send")
  /\ received_successful' = FALSE
  /\ i' = [i EXCEPT !["parent"] = @ + 1]
  /\ UNCHANGED <<signalVars, received_signals, finish_condition>>

LeaveLoop ==
  /\ i["parent"] = quantity
  /\ Goto("parent", "send", "announceLast")
  /\ UNCHANGED <<signalVars, counters>>

SendUsr2 ==
  /\ Goto("parent", "sendLast", "test")
  /\ kill("child", SIGUSR2)
  /\ UNCHANGED <<blocked, caught, counters>>

-----------------------------------------------------------------------------
\* child.c

\* The handler answers before it returns.
Answer ==
  /\ Deliverable("child", SIGUSR1)
  /\ received_signals' = [received_signals EXCEPT !["child"] = @ + 1]
  /\ pending' = [pending EXCEPT !["child"][SIGUSR1] = @ - 1,
                                !["parent"][SIGUSR1] = Raised(@)]
  /\ pc' = [pc EXCEPT !["child"] = Resumed("child")]
  /\ UNCHANGED <<blocked, caught, finish_condition, i, received_successful>>

AnswerUsr2 ==
  /\ Goto("child", "sendLast", "exited")
  /\ kill("parent", SIGUSR2)
  /\ UNCHANGED <<blocked, caught, counters>>

-----------------------------------------------------------------------------
\* Both

signal_usr2_handler(p) ==
  /\ Deliverable(p, SIGUSR2)
  /\ finish_condition' = [finish_condition EXCEPT ![p] = TRUE]
  /\ pending' = [pending EXCEPT ![p][SIGUSR2] = @ - 1]
  /\ pc' = [pc EXCEPT ![p] = Resumed(p)]
  /\ UNCHANGED <<blocked, caught, received_signals, i, received_successful>>

TestFinish(p) ==
  /\ Goto(p, "test", IF ~finish_condition[p] THEN "pause"
                     ELSE IF p = "parent" THEN "report" ELSE "sendLast")
  /\ UNCHANGED <<signalVars, counters>>

CallPause(p) ==
  /\ Goto(p, "pause", "paused")
  /\ UNCHANGED <<signalVars, counters>>

parent ==
  \/ SendUsr1 \/ TestAnswer \/ PauseForAnswer \/ NextRound \/ LeaveLoop \/ SendUsr2
  \/ TestFinish("parent") \/ CallPause("parent")
  \/ /\ \/ BlockInParent \/ Fork \/ ForkFails \/ Unblock("parent", "announce")
        \/ Say("parent", "announce", "send") \/ Say("parent", "announceLast", "sendLast")
        \/ Say("parent", "report", "exited")
     /\ UNCHANGED received_successful

child ==
  \/ TestFinish("child") \/ CallPause("child") \/ AnswerUsr2
  \/ /\ Exec \/ ExecFails \/ InstallInChild \/ Unblock("child", "test")
     /\ UNCHANGED received_successful

handler(p) ==
  (p = "parent" /\ CountAnswer) \/ (p = "child" /\ Answer) \/ signal_usr2_handler(p)

-----------------------------------------------------------------------------

\* No answer is lost or taken for the next one, although the queue holds one:
\* when the parent counts a round the child has counted exactly as many.
RoundsCounted ==
  exercise = "zad3b" /\ pc["parent"] \in {"send", "announceLast", "sendLast", "test", "pause", "paused",
                    "report", "exited"} =>
    \A p \in Processes : received_signals[p] = i["parent"]

\* A handler has run between the test of its flag and the call of pause(), and no
\* other signal will end that pause().
WakeupLost(p) ==
  \/ pc[p] = "paused" /\ finish_condition[p]
  \/ p = "parent" /\ pc[p] = "ackPaused" /\ received_successful

\* Every round costs another chance to lose a wakeup; nothing else stops the two.
EndsUnlessWakeupLost ==
  exercise = "zad3b" =>
    <>(\/ pc["parent"] = "exited" /\ pc["child"] = "exited"
       \/ \E p \in Processes : WakeupLost(p) \/ pc[p] = "failed")

=============================================================================
