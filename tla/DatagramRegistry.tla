--------------------------- MODULE DatagramRegistry -------------------------
(***************************************************************************)
(* lab10/zad1: a server that keeps a list of clients and passes questions  *)
(* on to them, over Unix and internet datagrams, and the clients, whose    *)
(* main sends a request and waits for one datagram while a second thread   *)
(* answers the server's questions on the same socket; a mutex keeps the    *)
(* two apart.                                                              *)
(*                                                                         *)
(* The contents of a list and of the statistics are left out.  A datagram  *)
(* is what its sender meant by it; who takes it for something else is in   *)
(* the actions that receive.                                               *)
(***************************************************************************)
EXTENDS Naturals, SequencesExt

CONSTANTS
  Clients, Nobody,
  Directories,          \* where clients are started
  Remote,               \* those of them that are not on the server's host
  MAX_CLIENTS,
  BUDGET                \* bound: requests, vain starts and interrupts of all users

VARIABLES
  local, place,         \* whether a client uses the Unix socket, and where it is started
  clients,              \* the list, 0 .. MAX_CLIENTS - 1
  server,               \* what the server does, for whom, whom it has asked
  requests,             \* the two sockets of the server: unix (TRUE), inet (FALSE)
  main, want,           \* a client's main and the answer it waits for
  inbox,                \* the client's socket
  files,                \* the local clients whose socket file is there
  budget,
  disturbed             \* history: clients a datagram of which was lost or misread, or an
                        \* answer to or from which went to another client at its address,
                        \* or which left while waiting or found the list full

network == <<requests, inbox>>
client_ == <<main, want, files, budget>>
fixed   == <<local, place>>
vars    == <<fixed, clients, server, network, client_, disturbed>>

Entries == 0 .. MAX_CLIENTS - 1
Empty   == [name |-> "", who |-> Nobody]
name(c) == IF place[c] \in Remote THEN "there" ELSE "here"
Waiting == [pc |-> "receive", asker |-> Nobody, asked |-> Nobody]

Init ==
  /\ local \in [Clients -> BOOLEAN] /\ place \in [Clients -> Directories]
  /\ \A c \in Clients : local[c] => place[c] \notin Remote
  /\ clients = [i \in Entries |-> Empty]
  /\ server = Waiting
  /\ requests = [unix \in BOOLEAN |-> <<>>]
  /\ main = [c \in Clients |-> "off"] /\ want = [c \in Clients |-> ""]
  /\ inbox = [c \in Clients |-> <<>>]
  /\ files = {} /\ disturbed = {}
  /\ budget = BUDGET

-----------------------------------------------------------------------------
\* The server

Ended == server' = [Waiting EXCEPT !.pc = "ended"]

\* What a client binds: a path, the host's name in the current directory, or a port,
\* what rand() gives without a seed, the same in every client.
address(c) == <<local[c], IF local[c] THEN place[c] ELSE name(c)>>

\* Who has the address now.  A client whose file was removed has its own no more,
\* and it may be another's.
Holders(c) ==
  IF c = Nobody THEN {}
  ELSE {d \in Clients : address(d) = address(c) /\ main[d] # "off" /\ (local[d] => d \in files)}

\* sendto() an address, whoever holds it.  To a Unix socket that is not there, or to
\* an entry that was never filled, it fails and the server exits; on the internet
\* nothing is noticed.
Send(c, m, after) ==
  \/ \E d \in Holders(c) : inbox' = [inbox EXCEPT ![d] = Append(@, m)] /\ server' = after
  \/ /\ Holders(c) = {}
     /\ IF c # Nobody /\ ~local[c] THEN server' = after ELSE Ended
     /\ UNCHANGED inbox

\* An answer to c that another client gets fails both.
Misled(c) == IF Holders(c) \subseteq {c} THEN {} ELSE Holders(c) \cup {c}

\* recvfrom() on the Unix socket, and if it has nothing, on the other.
Request(unix, kind) ==
  /\ server.pc = "receive"
  /\ requests[unix] # <<>> /\ (~unix => requests[TRUE] = <<>>)
  /\ Head(requests[unix]).kind \in kind
  /\ requests' = [requests EXCEPT ![unix] = Tail(@)]

FirstEmpty == CHOOSE i \in 0 .. MAX_CLIENTS :
  /\ i < MAX_CLIENTS => clients[i].name = ""
  /\ \A j \in Entries : j < i => clients[j].name # ""

\* The client is told that it is registered even when the list is full.
add_client(c) ==
  IF FirstEmpty < MAX_CLIENTS
  THEN /\ clients' = [clients EXCEPT ![FirstEmpty] = [name |-> name(c), who |-> c]]
       /\ disturbed' = disturbed \cup Misled(c)
  ELSE /\ disturbed' = disturbed \cup Misled(c) \cup {c}
       /\ UNCHANGED clients

Named(n) == {i \in Entries : clients[i].name = n}

\* Slip: the entry is cleared where it is.
delete_clientLeavesGap(n) ==
  clients' = IF Named(n) = {} THEN clients
             ELSE [clients EXCEPT ![Min(Named(n))] = Empty]

\* The first entry of that name goes and the later ones move up; of the last only
\* the name is cleared, its address stays.
delete_client(n) ==
  clients' = IF Named(n) = {} THEN clients
             ELSE [i \in Entries |->
                    IF i < Min(Named(n)) THEN clients[i]
                    ELSE IF i + 1 < MAX_CLIENTS THEN clients[i + 1]
                    ELSE [clients[i] EXCEPT !.name = ""]]

AddClient(unix) ==
  /\ Request(unix, {"ADD_CLIENT"})
  /\ LET c == Head(requests[unix]).from
     IN  add_client(c) /\ Send(c, "ADD_CLIENT", Waiting)
  /\ UNCHANGED <<fixed, client_>>

Unregister(unix) ==
  /\ Request(unix, {"UNREGISTER"})
  /\ delete_client(name(Head(requests[unix]).from))
  /\ UNCHANGED <<fixed, server, inbox, client_, disturbed>>

ListClients(unix) ==
  /\ Request(unix, {"LIST_CLIENTS"})
  /\ LET c == Head(requests[unix]).from
     IN  Send(c, "LIST_CLIENTS", Waiting) /\ disturbed' = disturbed \cup Misled(c)
  /\ UNCHANGED <<fixed, clients, client_>>

\* client_no is what the user typed, off a list that may have changed.
AskClient(unix) ==
  /\ Request(unix, {"CLIENT_INFO"})
  /\ LET m == Head(requests[unix])
         asked == clients[m.no].who
     IN  Send(asked, "question", [pc |-> "ask", asker |-> m.from, asked |-> asked])
  /\ UNCHANGED <<fixed, clients, client_, disturbed>>

\* A late answer is an unknown request.
NotRecognized(unix) ==
  /\ Request(unix, {"info"})
  /\ UNCHANGED <<fixed, clients, server, inbox, client_, disturbed>>

\* Slip: recvfrom() here too, which overwrites the address of the asker.
InfoReceivedFromAnyone ==
  /\ server.pc = "ask" /\ requests[local[server.asked]] # <<>>
  /\ LET m == Head(requests[local[server.asked]])
     IN  /\ disturbed' = disturbed \cup Misled(m.from) \cup (IF m.kind = "info" THEN {} ELSE {m.from})
         /\ Send(m.from, "CLIENT_INFO", Waiting)
  /\ requests' = [requests EXCEPT ![local[server.asked]] = Tail(@)]
  /\ UNCHANGED <<fixed, clients, client_>>

\* Whatever comes next on the asked client's socket is taken for its answer and
\* sent on: also another client's request, which is lost.
InfoReceived ==
  /\ server.pc = "ask" /\ requests[local[server.asked]] # <<>>
  /\ LET m == Head(requests[local[server.asked]])
     IN  disturbed' = disturbed \cup Misled(server.asker)
                        \cup (IF m.kind = "info" THEN {} ELSE {m.from})
  /\ requests' = [requests EXCEPT ![local[server.asked]] = Tail(@)]
  /\ Send(server.asker, "CLIENT_INFO", Waiting)
  /\ UNCHANGED <<fixed, clients, client_>>

\* Slip: the trials are not counted.
NotRespondingNever == server.pc = "ask" /\ UNCHANGED vars

\* 2000 trials, a millisecond each.
NotResponding ==
  /\ server.pc = "ask"
  /\ Send(server.asker, "CLIENT_INFO", Waiting)
  /\ disturbed' = disturbed \cup Misled(server.asker)
  /\ UNCHANGED <<fixed, clients, requests, client_>>

sigint_handler ==
  /\ server.pc # "ended" /\ Ended
  /\ budget > 0 /\ budget' = budget - 1
  /\ UNCHANGED <<fixed, clients, network, main, want, files, disturbed>>

server_main ==
  \/ \E unix \in BOOLEAN : AddClient(unix) \/ Unregister(unix) \/ ListClients(unix)
                             \/ AskClient(unix) \/ NotRecognized(unix)
  \/ InfoReceived \/ NotResponding

-----------------------------------------------------------------------------
\* The client's main

\* atexit_fun, which removes the socket file of this directory whoever has made it:
\* close() and remove() are one step here.
Leave(c) ==
  /\ main' = [main EXCEPT ![c] = "off"]
  /\ want' = [want EXCEPT ![c] = ""]
  /\ inbox' = [inbox EXCEPT ![c] = <<>>]
  /\ files' = {d \in files : place[d] # place[c]}

\* bind() fails.
Taken(c) == Holders(c) # {}

Start(c) ==
  /\ main[c] = "off" /\ budget > 0
  /\ IF Taken(c)
     THEN Leave(c) /\ budget' = budget - 1
     ELSE /\ main' = [main EXCEPT ![c] = "register"]
          /\ files' = IF local[c] THEN files \cup {c} ELSE files
          /\ UNCHANGED <<want, inbox, budget>>
  /\ UNCHANGED <<fixed, clients, server, requests, disturbed>>

\* sendto() with the mutex locked; when it fails main exits and waits for its
\* thread, which waits for the mutex.
SendRequest(c, kind, no, after) ==
  /\ budget > 0 /\ budget' = budget - 1
  /\ IF local[c] /\ server.pc = "ended"
     THEN main' = [main EXCEPT ![c] = "hung"] /\ UNCHANGED <<want, requests>>
     ELSE /\ main' = [main EXCEPT ![c] = after]
          /\ want' = [want EXCEPT ![c] = IF after = "wait" THEN kind ELSE ""]
          /\ requests' = [requests EXCEPT ![local[c]] =
               Append(@, [kind |-> kind, from |-> c, no |-> no])]
  /\ UNCHANGED <<fixed, clients, server, inbox, files, disturbed>>

Register(c)     == main[c] = "register" /\ SendRequest(c, "ADD_CLIENT", 0, "wait")
CheckList(c)    == main[c] = "menu" /\ SendRequest(c, "LIST_CLIENTS", 0, "wait")
CheckState(c)   == main[c] = "menu" /\ \E no \in Entries : SendRequest(c, "CLIENT_INFO", no, "wait")
Logout(c)       == main[c] = "menu" /\ SendRequest(c, "UNREGISTER", 0, "leave")

\* recv(): the next datagram is the answer, even the server's question.
ReceiveAnswer(c) ==
  /\ main[c] = "wait" /\ inbox[c] # <<>>
  /\ inbox' = [inbox EXCEPT ![c] = Tail(@)]
  /\ disturbed' = IF Head(inbox[c]) = "question" THEN disturbed \cup {c} ELSE disturbed
  /\ main' = [main EXCEPT ![c] = "menu"]
  /\ want' = [want EXCEPT ![c] = ""]
  /\ UNCHANGED <<fixed, clients, server, requests, files, budget>>

Exit(c) ==
  /\ main[c] = "leave"
  /\ Leave(c)
  /\ UNCHANGED <<fixed, clients, server, requests, budget, disturbed>>

\* SIGINT; a client that waits for an answer holds the mutex its thread waits for,
\* unless the thread is just about to look at is_thread_alive.
Interrupt(c) ==
  /\ main[c] \in {"register", "menu", "wait"}
  /\ \/ Leave(c)
     \/ /\ main[c] = "wait" /\ main' = [main EXCEPT ![c] = "hung"]
        /\ UNCHANGED <<want, inbox, files>>
  /\ disturbed' = IF main[c] = "wait" THEN disturbed \cup {c} ELSE disturbed
  /\ budget > 0 /\ budget' = budget - 1
  /\ UNCHANGED <<fixed, clients, server, requests>>

client_main(c) ==
  Start(c) \/ Register(c) \/ CheckList(c) \/ CheckState(c) \/ Logout(c) \/ ReceiveAnswer(c) \/ Exit(c)

\* The client's thread, when the mutex is free: a question is answered, anything
\* else dropped.  When the answer cannot be sent the client exits.
thread_run(c) ==
  /\ main[c] \in {"register", "menu", "leave"} /\ inbox[c] # <<>>
  /\ IF Head(inbox[c]) = "question" /\ local[c] /\ server.pc = "ended"
     THEN Leave(c) /\ UNCHANGED requests
     ELSE /\ inbox' = [inbox EXCEPT ![c] = Tail(@)]
          /\ requests' = IF Head(inbox[c]) # "question" THEN requests
                         ELSE [requests EXCEPT ![local[c]] =
                                 Append(@, [kind |-> "info", from |-> c, no |-> 0])]
          /\ UNCHANGED <<main, want, files>>
  /\ UNCHANGED <<fixed, clients, server, budget, disturbed>>

\* Internet datagrams are lost.
Lose ==
  \/ \E i \in DOMAIN requests[FALSE] :
       /\ requests' = [requests EXCEPT ![FALSE] = RemoveAt(@, i)]
       /\ disturbed' = disturbed \cup {requests[FALSE][i].from}
       /\ UNCHANGED <<fixed, clients, server, inbox, client_>>
  \/ \E c \in Clients : \E i \in DOMAIN inbox[c] :
       /\ ~local[c]
       /\ inbox' = [inbox EXCEPT ![c] = RemoveAt(@, i)]
       /\ disturbed' = disturbed \cup {c}
       /\ UNCHANGED <<fixed, clients, server, requests, client_>>

Next ==
  \/ server_main \/ sigint_handler \/ Lose
  \/ \E c \in Clients : client_main(c) \/ Interrupt(c) \/ thread_run(c)

Spec == Init /\ [][Next]_vars

-----------------------------------------------------------------------------

\* What the server prints for a list stops at the first empty name; a client that
\* thinks it is registered is before that, unless it shares its name, a datagram of
\* it was lost or misread, an answer went astray, or the list was full.
EveryMemberListed ==
  server.pc # "ended" =>
    \A c \in Clients :
      main[c] \in {"menu", "wait"} /\ want[c] # "ADD_CLIENT" /\ c \notin disturbed
        /\ (\A d \in Clients \ {c} : name(d) # name(c))
      => \E i \in Entries : clients[i].who = c /\ \A j \in 0 .. i : clients[j].name # ""

\* main takes the answer to the request it has sent and none to an earlier one or to
\* another client's, until a question has been misread for an answer, a datagram was
\* lost, or an answer found another client at the address it was sent to.
AnswersMatch ==
  [][\A c \in Clients :
       ReceiveAnswer(c) /\ c \notin disturbed' => Head(inbox[c]) = want[c]]_vars

\* A client that waits gets an answer, whatever the client it asked about does,
\* unless its request was lost or misread, or the answer went to a client that had
\* bound its address since, or the server has ended: again and again it does not wait.
AnswerComes ==
  \A c \in Clients :
    []<>(main[c] # "wait" \/ c \in disturbed \/ server.pc = "ended")

=============================================================================
