---------------------------- MODULE SignalExchange --------------------------
(***************************************************************************)
(* lab05/zad3a and zad3c: the parent sends `quantity' signals and then a   *)
(* last one of another kind; the child counts them and sends as many back. *)
(* zad3a uses SIGUSR1 and SIGUSR2, of which one of a kind can be pending;  *)
(* zad3c the real-time signals SIGRTMIN + SIGUSR1 and SIGRTMIN + SIGUSR2,  *)
(* which are queued.  Otherwise the programs agree.                        *)
(***************************************************************************)
EXTENDS Signals

\* The handlers.
signal_usr1_handler(p) ==
  /\ Deliverable(p, SIGUSR1)
  /\ received_signals' = [received_signals EXCEPT ![p] = @ + 1]
  /\ pending' = [pending EXCEPT ![p][SIGUSR1] = @ - 1]
  /\ pc' = [pc EXCEPT ![p] = Resumed(p)]
  /\ UNCHANGED <<blocked, caught, finish_condition, i>>

signal_usr2_handler(p) ==
  /\ Deliverable(p, SIGUSR2)
  /\ finish_condition' = [finish_condition EXCEPT ![p] = TRUE]
  /\ pending' = [pending EXCEPT ![p][SIGUSR2] = @ - 1]
  /\ pc' = [pc EXCEPT ![p] = Resumed(p)]
  /\ UNCHANGED <<blocked, caught, received_signals, i>>

\* while(!finish_condition) pause(): the test and the call are two steps.
TestFinish(p) ==
  /\ Goto(p, "test", IF ~finish_condition[p] THEN "pause"
                     ELSE IF p = "parent" THEN "report" ELSE "send")
  /\ UNCHANGED <<signalVars, received_signals, finish_condition, i>>

CallPause(p) ==
  /\ Goto(p, "pause", "paused")
  /\ UNCHANGED <<signalVars, received_signals, finish_condition, i>>

\* The parent sends `quantity' signals, the child as many as it has counted.
ToSend(p) == IF p = "parent" THEN quantity ELSE received_signals[p]
Other(p)  == IF p = "parent" THEN "child" ELSE "parent"

SendUsr1(p) ==
  /\ i[p] < ToSend(p)
  /\ Goto(p, "send", "send")
  /\ kill(Other(p), SIGUSR1)
  /\ i' = [i EXCEPT ![p] = @ + 1]
  /\ UNCHANGED <<blocked, caught, received_signals, finish_condition>>

LeaveLoop(p) ==
  /\ i[p] = ToSend(p)
  /\ Say(p, "send", IF p = "parent" THEN "announceLast" ELSE "sendLast")

\* Slip: the last signal is sent along with the announcement of the first ones.
AnnounceWithLast ==
  /\ Goto("parent", "announce", "send")
  /\ kill("child", SIGUSR2)
  /\ UNCHANGED <<blocked, caught, received_signals, finish_condition, i>>

Announce     == Say("parent", "announce", "send")
AnnounceLast == Say("parent", "announceLast", "sendLast")
Report       == Say("parent", "report", "exited")

SendUsr2(p) ==
  /\ Goto(p, "sendLast", IF p = "parent" THEN "test" ELSE "exited")
  /\ kill(Other(p), SIGUSR2)
  /\ UNCHANGED <<blocked, caught, received_signals, finish_condition, i>>

\* What either process does on its own account.
Common(p) ==
  TestFinish(p) \/ CallPause(p) \/ SendUsr1(p) \/ LeaveLoop(p) \/ SendUsr2(p)

parent ==
  \/ BlockInParent \/ Fork \/ ForkFails \/ Unblock("parent", "announce")
  \/ Announce \/ AnnounceLast \/ Report \/ Common("parent")

child ==
  Exec \/ ExecFails \/ InstallInChild \/ Unblock("child", "test") \/ Common("child")

handler(p) == signal_usr1_handler(p) \/ signal_usr2_handler(p)

-----------------------------------------------------------------------------

\* A signal that meets a full queue is lost, and nothing else loses one or makes
\* one up: of n sent signals at least as many are counted or pending as fit the
\* queue, and never more than n.
SignalsAccounted ==
  exercise # "zad3b" => \A p \in Processes :
    LET seen == received_signals[p] + pending[p][SIGUSR1]
        sent == i[Other(p)]
    IN  seen <= sent /\ (seen >= sent \/ seen >= QUEUE_LENGTH)

\* The counts printed at the end: with a queue as long as the exchange both are
\* `quantity'; without one at least a signal gets through each way.
ResultBounds ==
  exercise # "zad3b" /\ pc["parent"] \in {"report", "exited"} =>
    LET there == received_signals["child"]
        back  == received_signals["parent"]
    IN  /\ there <= quantity /\ (there = quantity \/ there >= QUEUE_LENGTH)
        /\ back <= there /\ (back = there \/ back >= QUEUE_LENGTH)

\* The handler has run between the test of the flag and the call of pause(), and
\* no signal is left to end that pause().
WakeupLost(p) == pc[p] = "paused" /\ finish_condition[p]

Ended == pc["parent"] = "exited" /\ pc["child"] = "exited"

\* Nothing but a lost wakeup or a program that cannot be started keeps the two
\* from coming to an end; the child is not killed either by a signal that comes
\* before its handlers are there, since the parent's mask outlives fork and exec.
EndsUnlessWakeupLost ==
  exercise # "zad3b" =>
    <>(\/ Ended
       \/ \E p \in Processes : WakeupLost(p) \/ pc[p] = "failed")

=============================================================================
