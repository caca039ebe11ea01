------------------------------ MODULE SaveServer ----------------------------
(***************************************************************************)
(* lab07/zad2a, zad2b and zad2c: clients send one message each, a server   *)
(* appends it to a file of limited length and answers with SIGUSR1 (saved) *)
(* or SIGUSR2 (no room).  zad2a polls a System V queue; zad2b receives     *)
(* from a POSIX queue, where the sender's pid is the message's priority;   *)
(* zad2c does so in the handler of the queue's notification.               *)
(***************************************************************************)
EXTENDS Naturals, SequencesExt

CONSTANTS
  CLIENTS,              \* clients, numbered in the order of their pids
  MAX_FILE_LENGTH,
  LENGTHS,              \* the lengths a message may have
  PRIO_MAX              \* the first pid that is too high for a priority

Senders == 1 .. CLIENTS
Nobody  == 0

VARIABLES
  variant, length,      \* the program, and the length of each client's record
  server,               \* "open", "loop" (or pause), "write", "notify", "ended"
  message,              \* whose message is being saved
  size, saved,          \* the file: its length and whose messages it holds
  registered, notified, \* zad2c: mq_notify is in force; its signal is pending
  queue,
  client,               \* a client's main
  answer_from_serwer, pending,
  interrupted           \* history: whose message the server had when it was interrupted

file    == <<message, size, saved>>
notice  == <<registered, notified>>
client_ == <<client, answer_from_serwer, pending>>
fixed   == <<variant, length>>
vars    == <<fixed, server, file, notice, queue, client_, interrupted>>

Init ==
  /\ variant \in {"zad2a", "zad2b", "zad2c"}
  /\ length \in [Senders -> LENGTHS]
  /\ server = IF variant = "zad2c" THEN "open" ELSE "loop"
  /\ message = Nobody /\ size = 0 /\ saved = {}
  /\ registered = (variant = "zad2c") /\ notified = FALSE
  /\ queue = <<>>
  /\ client = [c \in Senders |-> "start"]
  /\ answer_from_serwer = [c \in Senders |-> "none"] /\ pending = [c \in Senders |-> "none"]
  /\ interrupted = {}

-----------------------------------------------------------------------------
\* The client

Goto(c, from, to) == client[c] = from /\ client' = [client EXCEPT ![c] = to]

Open(c) ==
  /\ Goto(c, "start", IF server = "ended" THEN "failed" ELSE "send")
  /\ UNCHANGED <<fixed, server, file, notice, queue, answer_from_serwer, pending, interrupted>>

\* msgsnd() fails when the queue has been removed, mq_send() only when the pid is
\* too high.  zad2b and zad2c have both signals blocked from here.
Send(c) ==
  /\ IF IF variant = "zad2a" THEN server = "ended" ELSE c >= PRIO_MAX
     THEN Goto(c, "send", "failed") /\ UNCHANGED <<queue, notice>>
     ELSE /\ Goto(c, "send", IF variant = "zad2a" THEN "test" ELSE "reset")
          /\ queue' = Append(queue, c)
          /\ IF registered /\ queue = <<>>
             THEN registered' = FALSE /\ notified' = TRUE
             ELSE UNCHANGED notice
  /\ UNCHANGED <<fixed, server, file, answer_from_serwer, pending, interrupted>>

\* answer_from_serwer is cleared, then the signals are unblocked.
Reset(c) ==
  /\ Goto(c, "reset", "test")
  /\ answer_from_serwer' = [answer_from_serwer EXCEPT ![c] = pending[c]]
  /\ pending' = [pending EXCEPT ![c] = "none"]
  /\ UNCHANGED <<fixed, server, file, notice, queue, interrupted>>

TestAnswer(c) ==
  /\ Goto(c, "test", IF answer_from_serwer[c] = "none" THEN "pausing" ELSE "done")
  /\ UNCHANGED <<fixed, server, file, notice, queue, answer_from_serwer, pending, interrupted>>

Pause(c) ==
  /\ Goto(c, "pausing", "pause")
  /\ UNCHANGED <<fixed, server, file, notice, queue, answer_from_serwer, pending, interrupted>>

\* SIGINT has its default action in the clients.
Interrupt(c) ==
  /\ client[c] \notin {"failed", "done", "killed"}
  /\ client' = [client EXCEPT ![c] = "killed"]
  /\ UNCHANGED <<fixed, server, file, notice, queue, answer_from_serwer, pending, interrupted>>

client_a(c) == variant = "zad2a" /\ (Open(c) \/ Send(c) \/ TestAnswer(c) \/ Pause(c))
client_b(c) == variant # "zad2a" /\ (Open(c) \/ Send(c) \/ Reset(c) \/ TestAnswer(c) \/ Pause(c))
client_main(c) == client_a(c) \/ client_b(c)

-----------------------------------------------------------------------------
\* The server

Gone(c) == client[c] \in {"failed", "done", "killed"}

\* Slip: zad2b does not block the signals before it sends.
KillUnblocked(c, answer) ==
  /\ answer_from_serwer' = [answer_from_serwer EXCEPT ![c] = answer]
  /\ client' = [client EXCEPT ![c] = IF @ = "pause" THEN "test" ELSE @]
  /\ UNCHANGED pending

\* kill() and the client's signal_handler, when the signal is not blocked; it ends
\* a pause() that has begun.
Kill(c, answer) ==
  IF client[c] = "reset"
  THEN /\ pending' = [pending EXCEPT ![c] = answer]
       /\ UNCHANGED <<client, answer_from_serwer>>
  ELSE /\ answer_from_serwer' = [answer_from_serwer EXCEPT ![c] = answer]
       /\ client' = [client EXCEPT ![c] = IF @ = "pause" THEN "test" ELSE @]
       /\ UNCHANGED pending

\* The message taken from the queue: the first, or one of the highest priority.
First    == IF variant = "zad2a" THEN 1
            ELSE CHOOSE i \in DOMAIN queue : \A j \in DOMAIN queue : queue[i] >= queue[j]
Received == queue[First]
Others   == RemoveAt(queue, First)
AfterMessage == IF variant = "zad2c" THEN "notify" ELSE "loop"

\* Slip: the record to be written is not counted.
FullBefore(c) == size > MAX_FILE_LENGTH

Full(c) == size + length[c] > MAX_FILE_LENGTH

\* The client is told first; one that has gone ends the server.
Answer ==
  /\ server = "loop" /\ queue # <<>>
  /\ variant = "zad2c" => notified
  /\ notified' = FALSE
  /\ queue' = Others
  /\ IF Gone(Received) THEN server' = "ended" /\ UNCHANGED <<message, client_>>
     ELSE IF Full(Received)
     THEN Kill(Received, "full") /\ server' = AfterMessage /\ UNCHANGED message
     ELSE Kill(Received, "saved") /\ server' = "write" /\ message' = Received
  /\ UNCHANGED <<fixed, size, saved, registered, interrupted>>

\* fprintf() and fflush().
Write ==
  /\ server = "write"
  /\ size' = size + length[message]
  /\ saved' = saved \cup {message}
  /\ message' = Nobody
  /\ server' = AfterMessage
  /\ UNCHANGED <<fixed, notice, queue, client_, interrupted>>

\* zad2c: one message is received for a notification, and mq_notify says nothing of
\* those that are in the queue already.
Reregister ==
  /\ server = "notify" /\ server' = "loop"
  /\ registered' = TRUE
  /\ UNCHANGED <<fixed, file, notified, queue, client_, interrupted>>

\* zad2c opens its file after it has asked to be notified.  A message that comes
\* before finds no file, or that of an earlier run: when it is full the client is
\* told so, otherwise fprintf() has no stream to write to.
AnswerTooEarly ==
  /\ server = "open" /\ notified
  /\ notified' = FALSE /\ queue' = Others
  /\ \/ server' = "ended" /\ UNCHANGED <<registered, client_, interrupted>>
     \/ /\ ~Gone(Received)
        /\ \/ Kill(Received, "full") /\ registered' = TRUE /\ UNCHANGED <<server, interrupted>>
           \/ /\ Kill(Received, "saved") /\ server' = "ended" /\ interrupted' = {Received}
              /\ UNCHANGED registered
  /\ UNCHANGED <<fixed, file>>

OpenFile ==
  /\ server = "open" /\ ~notified /\ server' = "loop"
  /\ UNCHANGED <<fixed, file, notice, queue, client_, interrupted>>

\* sigint_handler and atexit_function.
InterruptServer ==
  /\ server # "ended" /\ server' = "ended"
  /\ interrupted' = IF server = "write" THEN {message} ELSE {}
  /\ message' = Nobody
  /\ UNCHANGED <<fixed, size, saved, notice, queue, client_>>

server_a == variant = "zad2a" /\ (Answer \/ Write)
server_b == variant = "zad2b" /\ (Answer \/ Write)
server_c == variant = "zad2c" /\ (AnswerTooEarly \/ OpenFile \/ Answer \/ Write \/ Reregister)
server_main == server_a \/ server_b \/ server_c

Next == server_main \/ InterruptServer \/ \E c \in Senders : client_main(c) \/ Interrupt(c)

Spec == Init /\ [][Next]_vars

\* The server and the clients run.
FairSpec ==
  /\ Spec
  /\ WF_vars(server_main)
  /\ \A c \in Senders : WF_vars(client_main(c))

-----------------------------------------------------------------------------

\* What a client prints ("has been successfully saved in messages.txt", zad2a
\* client.c:87) is so, but for the one message that is not written yet, or was not
\* when the server was interrupted or found its file not open; and the file keeps its limit.
SavedIsWritten ==
  /\ size <= MAX_FILE_LENGTH
  /\ \A c \in Senders :
       "saved" \in {answer_from_serwer[c], pending[c]} => c \in saved \cup {message} \cup interrupted

\* A client that has sent its message ends, unless the server has ended, or its
\* signal came between the test and pause(), or zad2c was told nothing of it.
ClientEnds ==
  \A c \in Senders :
    client[c] \in {"reset", "test"} ~>
      \/ Gone(c) \/ server = "ended"
      \/ client[c] = "pause" /\ answer_from_serwer[c] # "none"
      \/ registered /\ queue # <<>>

=============================================================================
