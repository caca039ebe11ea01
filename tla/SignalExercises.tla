--------------------------- MODULE SignalExercises --------------------------
(***************************************************************************)
(* The three programs of lab05/zad3: each behaviour is one of zad3a        *)
(* (SIGUSR1 and SIGUSR2), zad3b (the same with acknowledgement) and zad3c  *)
(* (real-time signals, which are queued).                                  *)
(***************************************************************************)
EXTENDS SignalExchange

VARIABLE received_successful    \* zad3b: the parent has its answer

H == INSTANCE SignalHandshake

vars == <<exercise, pc, pending, blocked, caught, received_signals, finish_condition, i,
          received_successful>>

Init == SignalsInit /\ received_successful = FALSE

Exchange(A)  == exercise # "zad3b" /\ A /\ UNCHANGED <<exercise, received_successful>>
Handshake(A) == exercise = "zad3b" /\ A /\ UNCHANGED exercise

Parent     == Exchange(parent) \/ Handshake(H!parent)
Child      == Exchange(child) \/ Handshake(H!child)
Handler(p) == Exchange(handler(p)) \/ Handshake(H!handler(p))

Next == Parent \/ Child \/ \E p \in Processes : Handler(p)

Spec == Init /\ [][Next]_vars

\* The kernel runs both processes and delivers what is pending.
FairSpec ==
  /\ Spec
  /\ WF_vars(Parent) /\ WF_vars(Child)
  /\ \A p \in Processes : WF_vars(Handler(p))

-----------------------------------------------------------------------------
\* SignalExchange's properties are those of zad3a and zad3c.

\* zad3b: with an acknowledgement for each both programs count every signal.
RoundsCounted == H!RoundsCounted

\* Only a wakeup lost between the test of a flag and pause(), or a program that
\* cannot be started, keeps the two processes of either exercise from ending.
AllEndUnlessWakeupLost == EndsUnlessWakeupLost /\ H!EndsUnlessWakeupLost

=============================================================================
