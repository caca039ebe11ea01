------------------------------ MODULE ChatServer ----------------------------
(***************************************************************************)
(* lab07/zad1a: a chat over System V queues.  A client makes a queue of    *)
(* its own and sends its name to the server's; one process of it writes to *)
(* its queue what the user types, a child takes from the same queue what   *)
(* the server sends.  The server polls all queues and sends every message  *)
(* to everybody else, one client after the other.                          *)
(*                                                                         *)
(* A message is its sender and a number: a text has a number above 0, and  *)
(* "joined", "left" and the user's "quit" have one below.  Keys of queues  *)
(* are different (ftok uses eight bits of the pid).                        *)
(***************************************************************************)
EXTENDS Integers, SequencesExt

CONSTANTS
  Clients,
  MAX_CLIENTS_NUM,
  CAPACITY,             \* messages of either kind a queue has room for
  BUDGET                \* bound: messages, "quit" included, and interrupts

ASSUME ChatAssumption ==
  MAX_CLIENTS_NUM \in Nat /\ CAPACITY \in Nat \ {0} /\ BUDGET \in Nat

VARIABLES
  server,               \* "register", "poll", "send", "ended"
  i,                    \* the index main's polling loop is at, 0 before it
  message, to,          \* send_everyone: what is sent, and to which entry next
  clients,              \* the array: records [id, state]
  registrations,        \* the server's queue
  toServer, toClient,   \* the two types of messages in a client's queue
  queue,                \* the client queues that exist
  writer,               \* a client's parent: "off", "chat", "left", "failed", "killed"
  number, budget,       \* messages a client has sent
  log,                  \* history: what send_everyone was called for
  heard                 \* history: what a client's child has printed

array  == <<i, message, to, clients>>
queues == <<toServer, toClient, queue>>
users  == <<writer, number, budget>>
vars   == <<server, array, registrations, queues, users, log, heard>>

Joined(c)  == [from |-> c, no |-> 0]
Left(c)    == [from |-> c, no |-> -1]
Quit(c)    == [from |-> c, no |-> -2]
Text(c, n) == [from |-> c, no |-> n]
IsQuit(m)  == m.no = -2
IsText(m)  == m.no > 0
Nothing    == [from |-> "nobody", no |-> 0]

Init ==
  /\ server = "register" /\ i = 0 /\ message = Nothing /\ to = 0 /\ clients = <<>>
  /\ registrations = <<>> /\ queue = {}
  /\ toServer = [c \in Clients |-> <<>>] /\ toClient = [c \in Clients |-> <<>>]
  /\ writer = [c \in Clients |-> "off"]
  /\ number = [c \in Clients |-> 0] /\ budget = BUDGET
  /\ log = <<>> /\ heard = [c \in Clients |-> <<>>]

Room(c) == Len(toServer[c]) + Len(toClient[c]) < CAPACITY

-----------------------------------------------------------------------------
\* The server

Ended == server' = "ended" /\ UNCHANGED array

\* send_everyone is called, after which main goes on at index n.
SendEveryone(m, n) ==
  /\ server' = "send" /\ i' = n /\ message' = m /\ to' = 1
  /\ log' = Append(log, m)

\* add_client: the client's queue has to be there; more clients than the array
\* holds, counting those that have left, are written past its end.
Register ==
  /\ server = "register" /\ registrations # <<>>
  /\ registrations' = Tail(registrations)
  /\ LET c == Head(registrations)
     IN  IF c \notin queue \/ Len(clients) >= MAX_CLIENTS_NUM
         THEN Ended /\ UNCHANGED log
         ELSE /\ clients' = Append(clients, [id |-> c, state |-> "present"])
              /\ SendEveryone(Joined(c), 1)
  /\ UNCHANGED <<queues, users, heard>>

NobodyRegisters ==
  /\ server = "register" /\ registrations = <<>>
  /\ server' = "poll" /\ i' = 1
  /\ UNCHANGED <<message, to, clients, registrations, queues, users, log, heard>>

Polled == clients[i].id
Present(n) == clients[n].state = "present"

\* Nothing to do for this entry, or "quit", which is left to the queue's removal.
PollNext ==
  /\ server = "poll"
  /\ \/ /\ i > Len(clients)
        /\ server' = "register" /\ i' = 0
        /\ UNCHANGED toServer
     \/ /\ i <= Len(clients)
        /\ \/ ~Present(i) /\ UNCHANGED toServer
           \/ Present(i) /\ Polled \in queue /\ toServer[Polled] = <<>> /\ UNCHANGED toServer
           \/ /\ Present(i) /\ Polled \in queue /\ toServer[Polled] # <<>>
              /\ IsQuit(Head(toServer[Polled]))
              /\ toServer' = [toServer EXCEPT ![Polled] = Tail(@)]
        /\ i' = i + 1 /\ UNCHANGED server
  /\ UNCHANGED <<message, to, clients, registrations, toClient, queue, users, log, heard>>

PollMessage ==
  /\ server = "poll" /\ i <= Len(clients) /\ Present(i) /\ Polled \in queue
  /\ toServer[Polled] # <<>> /\ ~IsQuit(Head(toServer[Polled]))
  /\ toServer' = [toServer EXCEPT ![Polled] = Tail(@)]
  /\ SendEveryone(Head(toServer[Polled]), i + 1)
  /\ UNCHANGED <<clients, registrations, toClient, queue, users, heard>>

\* remove_client, when the queue is gone.
PollRemoved ==
  /\ server = "poll" /\ i <= Len(clients) /\ Present(i) /\ Polled \notin queue
  /\ clients' = [clients EXCEPT ![i].state = "absent"]
  /\ SendEveryone(Left(Polled), i + 1)
  /\ UNCHANGED <<registrations, queues, users, heard>>

Recipient(n) == Present(n) /\ (IsText(message) => clients[n].id # message.from)

\* Slip: IPC_NOWAIT, and nothing is sent to a full queue.
SendNoWait ==
  /\ server = "send" /\ to <= Len(clients)
  /\ LET c == clients[to].id
     IN  /\ toClient' = IF Recipient(to) /\ c \in queue /\ Room(c)
                        THEN [toClient EXCEPT ![c] = Append(@, message)] ELSE toClient
         /\ IF Recipient(to) /\ c \notin queue THEN Ended
            ELSE to' = to + 1 /\ UNCHANGED <<server, i, message, clients>>
  /\ UNCHANGED <<registrations, toServer, queue, users, log, heard>>

\* msgsnd() waits while the queue is full, and fails when it is removed.
Send ==
  /\ server = "send" /\ to <= Len(clients)
  /\ LET c == clients[to].id
     IN  \/ /\ ~Recipient(to) \/ (c \in queue /\ Room(c))
            /\ toClient' = IF Recipient(to) THEN [toClient EXCEPT ![c] = Append(@, message)] ELSE toClient
            /\ to' = to + 1 /\ UNCHANGED <<server, i, message, clients>>
         \/ Recipient(to) /\ c \notin queue /\ Ended /\ UNCHANGED toClient
  /\ UNCHANGED <<registrations, toServer, queue, users, log, heard>>

Sent ==
  /\ server = "send" /\ to > Len(clients)
  /\ server' = "poll" /\ message' = Nothing /\ to' = 0
  /\ UNCHANGED <<i, clients, registrations, queues, users, log, heard>>

server_main == Register \/ NobodyRegisters \/ PollNext \/ PollMessage \/ PollRemoved \/ Send \/ Sent

\* sigint_handler, atexit_function.
Interrupt ==
  /\ server # "ended" /\ Ended
  /\ budget > 0 /\ budget' = budget - 1
  /\ UNCHANGED <<registrations, queues, writer, number, log, heard>>

-----------------------------------------------------------------------------
\* The client

\* Without a server's queue the client ends and leaves its own.
Join(c) ==
  /\ writer[c] = "off"
  /\ queue' = queue \cup {c}
  /\ IF server = "ended"
     THEN writer' = [writer EXCEPT ![c] = "failed"] /\ UNCHANGED registrations
     ELSE writer' = [writer EXCEPT ![c] = "chat"] /\ registrations' = Append(registrations, c)
  /\ UNCHANGED <<server, array, toServer, toClient, number, budget, log, heard>>

\* msgsnd() waits for room here as well.
Write(c) ==
  /\ writer[c] = "chat" /\ Room(c)
  /\ budget > 0 /\ budget' = budget - 1
  /\ \/ /\ number' = [number EXCEPT ![c] = @ + 1]
        /\ toServer' = [toServer EXCEPT ![c] = Append(@, Text(c, number[c] + 1))]
        /\ UNCHANGED writer
     \/ /\ toServer' = [toServer EXCEPT ![c] = Append(@, Quit(c))]
        /\ writer' = [writer EXCEPT ![c] = "left"]
        /\ UNCHANGED number
  /\ UNCHANGED <<server, array, registrations, toClient, queue, log, heard>>

\* SIGINT from the terminal ends both processes, and the queue stays.
Kill(c) ==
  /\ writer[c] = "chat"
  /\ budget > 0 /\ budget' = budget - 1
  /\ writer' = [writer EXCEPT ![c] = "killed"]
  /\ UNCHANGED <<server, array, registrations, queues, number, log, heard>>

\* Slip: the child takes messages of the other type.
ReadWrongType(c) ==
  /\ writer[c] \in {"chat", "left"} /\ c \in queue /\ toServer[c] # <<>>
  /\ toServer' = [toServer EXCEPT ![c] = Tail(@)]
  /\ UNCHANGED <<server, array, registrations, toClient, queue, users, log, heard>>

\* The child looks for the parent before it reads once more.
Read(c) ==
  /\ writer[c] \in {"chat", "left"} /\ c \in queue /\ toClient[c] # <<>>
  /\ heard' = [heard EXCEPT ![c] = Append(@, Head(toClient[c]))]
  /\ toClient' = [toClient EXCEPT ![c] = Tail(@)]
  /\ UNCHANGED <<server, array, registrations, toServer, queue, users, log>>

\* Slip: the child ends without removing the queue.
RemoveQueueForgotten(c) ==
  /\ writer[c] = "left" /\ c \in queue
  /\ writer' = [writer EXCEPT ![c] = "killed"]
  /\ UNCHANGED <<server, array, registrations, queues, number, budget, log, heard>>

RemoveQueue(c) ==
  /\ writer[c] = "left" /\ c \in queue
  /\ queue' = queue \ {c}
  /\ toServer' = [toServer EXCEPT ![c] = <<>>] /\ toClient' = [toClient EXCEPT ![c] = <<>>]
  /\ UNCHANGED <<server, array, registrations, users, log, heard>>

client_main(c) == Join(c) \/ Write(c) \/ Read(c) \/ RemoveQueue(c)

Next == server_main \/ Interrupt \/ \E c \in Clients : client_main(c) \/ Kill(c)

Spec == Init /\ [][Next]_vars

\* The server runs, and the clients' children do.
FairSpec ==
  /\ Spec
  /\ WF_vars(server_main)
  /\ \A c \in Clients : WF_vars(Read(c)) /\ WF_vars(RemoveQueue(c))

-----------------------------------------------------------------------------

\* s has the messages of the log at the places in P, in that order, and no others.
Selects(s, P) ==
  /\ Len(s) = Cardinality(P)
  /\ \A k \in P : s[Cardinality({j \in P : j <= k})] = log[k]

\* Where in the log the n-th client's messages are: from when it joined, without
\* its own, up to the one that is being sent now if that has come to it.
SentTo(n) == Len(log) - IF server = "send" /\ n >= to THEN 1 ELSE 0
Due(n) ==
  LET c     == clients[n].id
      start == CHOOSE k \in DOMAIN log : log[k] = Joined(c)
  IN  {k \in start .. SentTo(n) : IsText(log[k]) => log[k].from # c}

\* Everybody hears the same: what a client has printed and what is in its queue is
\* all that was sent since it joined, in that order, without its own messages; of
\* what is being sent now those after index `to' have nothing yet.
EveryoneHearsTheLog ==
  server # "ended" => \A n \in DOMAIN clients :
    LET c == clients[n].id
    IN  Present(n) /\ c \in queue => Selects(heard[c] \o toClient[c], Due(n))

\* send_everyone is for ever at a client whose queue is full of its own messages,
\* which only the server would take, or whose processes were killed.
Stuck ==
  /\ server = "send" /\ to <= Len(clients)
  /\ LET c == clients[to].id
     IN  Recipient(to) /\ ~Room(c) /\ (writer[c] = "killed" \/ toClient[c] = <<>>)

\* Nothing else keeps the server from going on: the message reaches everybody.
ServerGoesOn == server = "send" ~> server # "send" \/ Stuck

\* A client that has quit is removed from the chat.
QuitNoticed ==
  \A c \in Clients :
    writer[c] = "left" ~>
      \/ server = "ended" \/ Stuck
      \/ c \in {clients[n].id : n \in DOMAIN clients}
         /\ \A n \in DOMAIN clients : clients[n].id = c => ~Present(n)

=============================================================================
