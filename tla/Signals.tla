-------------------------------- MODULE Signals -----------------------------
(***************************************************************************)
(* What the parent and child programs of lab05/zad3a, zad3b and zad3c have *)
(* in common: two processes, two signals, their handlers, and the loop     *)
(* that tests a flag and calls pause().  A handler runs with every signal  *)
(* blocked (sigfillset) and main suspended, so it is one step.             *)
(***************************************************************************)
EXTENDS Naturals

CONSTANTS
  quantity,             \* the program's argument
  REALTIME_LENGTH       \* what RLIMIT_SIGPENDING leaves room for

ASSUME SignalsAssumption == quantity \in Nat \ {0} /\ REALTIME_LENGTH \in Nat \ {0}

Exercises == {"zad3a", "zad3b", "zad3c"}
Processes == {"parent", "child"}
SIGUSR1 == "SIGUSR1"
SIGUSR2 == "SIGUSR2"
Kinds   == {SIGUSR1, SIGUSR2}

VARIABLES
  exercise,             \* the program that runs
  pc,
  pending,              \* pending[p][s]: signals s sent to p and not delivered
  blocked,              \* blocked[p]: the signal mask of p holds both signals
  caught,               \* caught[p]: p has its handlers installed
  received_signals, finish_condition,
  i                     \* how many times the sending loop of p has sent SIGUSR1

\* Pending signals of one kind: zad3c's SIGRTMIN + SIGUSR1 are queued.
QUEUE_LENGTH == IF exercise = "zad3c" THEN REALTIME_LENGTH ELSE 1

signalVars == <<pending, blocked, caught>>

SignalsInit ==
  /\ exercise \in Exercises
  /\ pc = [p \in Processes |-> IF p = "parent" THEN "start" ELSE "none"]
  /\ pending = [p \in Processes |-> [s \in Kinds |-> 0]]
  /\ blocked = [p \in Processes |-> FALSE]
  /\ caught = [p \in Processes |-> FALSE]
  /\ received_signals = [p \in Processes |-> 0]
  /\ finish_condition = [p \in Processes |-> FALSE]
  /\ i = [p \in Processes |-> 0]

Goto(p, from, to) == pc[p] = from /\ pc' = [pc EXCEPT ![p] = to]

\* Slip: a standard signal is used where a queued one is meant.
RaisedMerged(n) == 1

\* One more pending signal; what the queue cannot hold is merged with the rest.
Raised(n) == IF n < QUEUE_LENGTH THEN n + 1 ELSE n

kill(p, s) == pending' = [pending EXCEPT ![p][s] = Raised(@)]

\* Of the signals that are pending the one with the lower number comes first.
Deliverable(p, s) ==
  /\ pc[p] \notin {"none", "exited", "failed", "killed"}
  /\ ~blocked[p] /\ pending[p][s] > 0
  /\ s = SIGUSR2 => pending[p][SIGUSR1] = 0

\* Slip: the mask is left as it was.
BlockInParentForgotten ==
  /\ Goto("parent", "start", "fork")
  /\ caught' = [caught EXCEPT !["parent"] = TRUE]
  /\ UNCHANGED <<pending, blocked, received_signals, finish_condition, i>>

\* Signal dispositions survive fork() but not exec(); masks survive both.
BlockInParent ==
  /\ Goto("parent", "start", "fork")
  /\ caught' = [caught EXCEPT !["parent"] = TRUE]
  /\ blocked' = [blocked EXCEPT !["parent"] = TRUE]
  /\ UNCHANGED <<pending, received_signals, finish_condition, i>>

Fork ==
  /\ pc["parent"] = "fork"
  /\ pc' = [pc EXCEPT !["parent"] = "unblock", !["child"] = "exec"]
  /\ caught' = [caught EXCEPT !["child"] = caught["parent"]]
  /\ blocked' = [blocked EXCEPT !["child"] = blocked["parent"]]
  /\ UNCHANGED <<pending, received_signals, finish_condition, i>>

ForkFails ==
  /\ Goto("parent", "fork", "failed")
  /\ UNCHANGED <<signalVars, received_signals, finish_condition, i>>

Exec ==
  /\ Goto("child", "exec", "sigaction")
  /\ caught' = [caught EXCEPT !["child"] = FALSE]
  /\ UNCHANGED <<pending, blocked, received_signals, finish_condition, i>>

ExecFails ==
  /\ Goto("child", "exec", "failed")
  /\ UNCHANGED <<signalVars, received_signals, finish_condition, i>>

InstallInChild ==
  /\ Goto("child", "sigaction", "unblock")
  /\ caught' = [caught EXCEPT !["child"] = TRUE]
  /\ UNCHANGED <<pending, blocked, received_signals, finish_condition, i>>

Unblock(p, to) ==
  /\ Goto(p, "unblock", to)
  /\ blocked' = [blocked EXCEPT ![p] = FALSE]
  /\ UNCHANGED <<pending, caught, received_signals, finish_condition, i>>

\* The printf calls of main.
Say(p, from, to) ==
  /\ Goto(p, from, to)
  /\ UNCHANGED <<signalVars, received_signals, finish_condition, i>>

\* A delivered signal ends a pause(), and a process without handlers.
Resumed(p) ==
  IF ~caught[p] THEN "killed"
  ELSE CASE pc[p] = "paused"    -> "test"
         [] pc[p] = "ackPaused" -> "ackTest"
         [] OTHER               -> pc[p]

=============================================================================
