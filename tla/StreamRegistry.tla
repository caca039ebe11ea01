---------------------------- MODULE StreamRegistry --------------------------
(***************************************************************************)
(* lab10/zad2: the registry of lab10/zad1 over streams.  The server has a  *)
(* thread for each client; a list links variables on the threads' stacks.  *)
(* main takes client_list_mutex for a new client and that client's thread  *)
(* gives it back when the client has said its name.  An answer goes from   *)
(* the thread of the client asked to the thread of the asker through       *)
(* shared_info: info_producer_mutex is locked while there is an answer in  *)
(* it, info_consumer_mutex while there is none.                            *)
(*                                                                         *)
(* client.c uses fields that header.h has no more and does not compile; it *)
(* is modelled as if its thread filled in `info', as that of lab10/zad1.   *)
(***************************************************************************)
EXTENDS Naturals, SequencesExt

CONSTANTS
  CLIENTS,              \* clients, numbered in the order in which they connect
  MAX_CLIENTS,
  BUDGET                \* bound: connections, requests and interrupts of all users

Users  == 1 .. CLIENTS
NoUser == 0

VARIABLES
  process,              \* the server: "running", "crashed", "killed", "exited"
  backlog,              \* connections main has not accepted
  thread,               \* what the server's thread for a client does
  request,              \* its request, the last one until the next is received
  asked,                \* the client it has sent a question to
  clients,              \* the list, from head_client
  client_list_mutex, info_producer_mutex, info_consumer_mutex,
  shared_info,          \* whose answer is there
  toServer, toClient,   \* the streams
  main,                 \* the client's main
  budget,
  crossed               \* history: a question was without answer, or another was
                        \* under way, or the answer of a closed client was repeated

server_ == <<backlog, thread, request, asked, clients>>
locks   == <<client_list_mutex, info_producer_mutex, info_consumer_mutex>>
streams == <<toServer, toClient>>
vars    == <<process, server_, locks, shared_info, streams, main, budget, crossed>>

None == [kind |-> "none", no |-> 0]

\* Slip: main forgets to lock info_consumer_mutex.
InitUnlocked ==
  /\ process = "running" /\ backlog = {} /\ clients = <<>>
  /\ thread = [c \in Users |-> "none"] /\ request = [c \in Users |-> None]
  /\ asked = [c \in Users |-> NoUser] /\ shared_info = NoUser
  /\ client_list_mutex = FALSE /\ info_producer_mutex = FALSE /\ info_consumer_mutex = FALSE
  /\ toServer = [c \in Users |-> <<>>] /\ toClient = [c \in Users |-> <<>>]
  /\ main = [c \in Users |-> "off"] /\ budget = BUDGET /\ crossed = FALSE

Init ==
  /\ process = "running" /\ backlog = {} /\ clients = <<>>
  /\ thread = [c \in Users |-> "none"] /\ request = [c \in Users |-> None]
  /\ asked = [c \in Users |-> NoUser] /\ shared_info = NoUser
  /\ client_list_mutex = FALSE /\ info_producer_mutex = FALSE /\ info_consumer_mutex = TRUE
  /\ toServer = [c \in Users |-> <<>>] /\ toClient = [c \in Users |-> <<>>]
  /\ main = [c \in Users |-> "off"] /\ budget = BUDGET /\ crossed = FALSE

-----------------------------------------------------------------------------
\* The server

\* main's accept() and pthread_create().
Accept(c) ==
  /\ c \in backlog /\ ~client_list_mutex
  /\ client_list_mutex' = TRUE
  /\ backlog' = backlog \ {c}
  /\ thread' = [thread EXCEPT ![c] = "start"]
  /\ UNCHANGED <<process, request, asked, clients, info_producer_mutex, info_consumer_mutex,
                 shared_info, streams, main, budget, crossed>>

Goto(c, from, to) == thread[c] = from /\ thread' = [thread EXCEPT ![c] = to]

\* A client too many is linked as well, then its thread ends at recv().
Start(c) ==
  /\ clients' = <<c>> \o clients
  /\ IF Len(clients) >= MAX_CLIENTS
     THEN Goto(c, "start", "refused") /\ client_list_mutex' = FALSE
     ELSE Goto(c, "start", "recv") /\ UNCHANGED client_list_mutex
  /\ UNCHANGED <<process, backlog, request, asked, info_producer_mutex, info_consumer_mutex,
                 shared_info, streams, main, budget, crossed>>

\* "silent" has gone without saying its name.
Gone(c) == main[c] \in {"gone", "silent"}

\* send(): to a client that has gone it ends the server by SIGPIPE (over the
\* internet only the next send would).
Send(c, m) ==
  IF ~Gone(c) THEN toClient' = [toClient EXCEPT ![c] = Append(@, m)] /\ UNCHANGED process
  ELSE UNCHANGED toClient /\ process' = "killed"

\* recv(): at the end of the stream the request of before stands.  A request that
\* needs a mutex is received when the mutex is free, nobody sees the difference.
Closed(c) == toServer[c] = <<>> /\ Gone(c)
Receive(c, kind, to) ==
  /\ Goto(c, "recv", to)
  /\ IF Closed(c) THEN request[c].kind = kind /\ UNCHANGED <<request, toServer>>
     ELSE /\ toServer[c] # <<>> /\ Head(toServer[c]).kind = kind
          /\ request' = [request EXCEPT ![c] = Head(toServer[c])]
          /\ toServer' = [toServer EXCEPT ![c] = Tail(@)]

\* If there was none it is whatever the stack holds.
Uninitialized(c) ==
  /\ thread[c] = "recv" /\ Closed(c) /\ request[c] = None
  /\ \E kind \in {"MY_NAME_IS", "UNREGISTER", "LIST_CLIENTS", "CLIENT_INFO", "INFO_RESPONSE", "unknown"} :
       request' = [request EXCEPT ![c] = [kind |-> kind, no |-> 0]]
  /\ UNCHANGED <<process, backlog, thread, asked, clients, locks, shared_info, streams, main,
                 budget, crossed>>

\* Slip: the mutex main has locked is kept.
MyNameIsKeepsMutex(c) ==
  /\ Receive(c, "MY_NAME_IS", "recv") /\ Send(c, "list")
  /\ UNCHANGED <<backlog, asked, clients, locks, shared_info, main, budget, crossed>>

MyNameIs(c) ==
  /\ Receive(c, "MY_NAME_IS", "recv") /\ Send(c, "list")
  /\ client_list_mutex' = FALSE
  /\ UNCHANGED <<backlog, asked, clients, info_producer_mutex, info_consumer_mutex,
                 shared_info, main, budget, crossed>>

\* Slip: only the head is taken out.
UnregisterHead(c) ==
  /\ ~client_list_mutex /\ Receive(c, "UNREGISTER", "ended")
  /\ clients' = IF Head(clients) = c THEN Tail(clients) ELSE clients
  /\ UNCHANGED <<process, backlog, asked, locks, shared_info, toClient, main, budget, crossed>>

\* The thread takes itself out of the list and ends.
Unregister(c) ==
  /\ ~client_list_mutex /\ Receive(c, "UNREGISTER", "ended")
  /\ clients' = RemoveFirst(clients, c)
  /\ UNCHANGED <<process, backlog, asked, locks, shared_info, toClient, main, budget, crossed>>

ListClients(c) ==
  /\ ~client_list_mutex /\ Receive(c, "LIST_CLIENTS", "recv")
  /\ Send(c, "list")
  /\ UNCHANGED <<backlog, asked, clients, locks, shared_info, main, budget, crossed>>

\* The number is off a list that may have become shorter: its end is a null
\* pointer, whose socket is read before it is tested.
AskClient(c) ==
  /\ ~client_list_mutex /\ Receive(c, "CLIENT_INFO", "try")
  /\ IF request'[c].no < Len(clients)
     THEN LET d == clients[request'[c].no + 1]
          IN  asked' = [asked EXCEPT ![c] = d] /\ Send(d, "question")
     ELSE process' = "crashed" /\ UNCHANGED <<asked, toClient>>
  /\ crossed' = (crossed \/ \E d \in Users : thread[d] \in {"try", "reply"})
  /\ UNCHANGED <<backlog, clients, locks, shared_info, main, budget>>

GotResponse(c) ==
  /\ ~info_consumer_mutex /\ Goto(c, "try", "reply")
  /\ info_consumer_mutex' = TRUE
  /\ UNCHANGED <<process, backlog, request, asked, clients, client_list_mutex, info_producer_mutex,
                 shared_info, streams, main, budget, crossed>>

Reply(c) ==
  /\ Goto(c, "reply", "recv") /\ asked' = [asked EXCEPT ![c] = NoUser]
  /\ Send(c, "info")
  /\ info_producer_mutex' = FALSE
  /\ UNCHANGED <<backlog, request, clients, client_list_mutex, info_consumer_mutex,
                 shared_info, toServer, main, budget, crossed>>

\* After 2000 trials; the producer's mutex is unlocked although nothing was taken.
NotResponding(c) ==
  /\ Goto(c, "try", "recv") /\ asked' = [asked EXCEPT ![c] = NoUser]
  /\ Send(c, "failure")
  /\ info_producer_mutex' = FALSE
  /\ crossed' = TRUE
  /\ UNCHANGED <<backlog, request, clients, client_list_mutex, info_consumer_mutex,
                 shared_info, toServer, main, budget>>

LockProducer(c) ==
  /\ ~info_producer_mutex /\ Receive(c, "INFO_RESPONSE", "write")
  /\ info_producer_mutex' = TRUE
  /\ crossed' = (crossed \/ Closed(c))
  /\ UNCHANGED <<process, backlog, asked, clients, client_list_mutex, info_consumer_mutex,
                 shared_info, toClient, main, budget>>

InfoResponse(c) ==
  /\ Goto(c, "write", "recv")
  /\ shared_info' = c
  /\ info_consumer_mutex' = FALSE
  /\ UNCHANGED <<process, backlog, request, asked, clients, client_list_mutex, info_producer_mutex,
                 streams, main, budget, crossed>>

\* A thread that has ended takes its variable with it: to walk over it may crash.
Dangling == \E d \in ToSet(clients) : thread[d] = "refused"
WalkDangling(c) ==
  /\ Dangling /\ thread[c] \in {"start", "recv"}
  /\ process' = "crashed"
  /\ UNCHANGED <<server_, locks, shared_info, streams, main, budget, crossed>>

sigint_handler ==
  /\ budget > 0 /\ budget' = budget - 1
  /\ process' = "exited"
  /\ UNCHANGED <<server_, locks, shared_info, streams, main, crossed>>

thread_run(c) ==
  \/ Start(c) \/ Uninitialized(c) \/ MyNameIs(c) \/ Unregister(c) \/ ListClients(c) \/ AskClient(c)
  \/ GotResponse(c) \/ Reply(c) \/ NotResponding(c) \/ LockProducer(c) \/ InfoResponse(c)
  \/ WalkDangling(c)

-----------------------------------------------------------------------------
\* The client

ClientSays(c, kind, no) == toServer' = [toServer EXCEPT ![c] = Append(@, [kind |-> kind, no |-> no])]
ClientGoto(c, from, to) == main[c] = from /\ main' = [main EXCEPT ![c] = to]

Connect(c) ==
  /\ budget > 0 /\ budget' = budget - 1
  /\ ClientGoto(c, "off", "connected") /\ \A d \in 1 .. c - 1 : main[d] # "off"
  /\ backlog' = backlog \cup {c}
  /\ UNCHANGED <<process, thread, request, asked, clients, locks, shared_info, streams, crossed>>

SayName(c) ==
  /\ ClientGoto(c, "connected", "waitList") /\ ClientSays(c, "MY_NAME_IS", 0)
  /\ UNCHANGED <<process, server_, locks, shared_info, toClient, budget, crossed>>

\* `info' is not initialized and may look like an answer: then none is received.
Choose(c) ==
  /\ budget > 0 /\ budget' = budget - 1
  /\ \/ ClientGoto(c, "menu", "waitList") /\ ClientSays(c, "LIST_CLIENTS", 0)
     \/ \E no \in 0 .. MAX_CLIENTS - 1, to \in {"waitInfo", "menu"} :
          ClientGoto(c, "menu", to) /\ ClientSays(c, "CLIENT_INFO", no)
     \/ ClientGoto(c, "menu", "gone") /\ ClientSays(c, "UNREGISTER", 0)
  /\ UNCHANGED <<process, server_, locks, shared_info, toClient, crossed>>

\* A recv() of the wrong size leaves the stream out of step: the client is of no
\* more use.  After a failure main waits for another answer.
ReceiveAnswer(c) ==
  /\ toClient[c] # <<>> /\ toClient' = [toClient EXCEPT ![c] = Tail(@)]
  /\ \/ ClientGoto(c, "waitList", IF Head(toClient[c]) = "list" THEN "menu" ELSE "garbled")
     \/ ClientGoto(c, "waitInfo", CASE Head(toClient[c]) = "info" -> "menu"
                                    [] Head(toClient[c]) = "failure" -> "waitInfo"
                                    [] OTHER -> "garbled")
  /\ UNCHANGED <<process, server_, locks, shared_info, toServer, budget, crossed>>

\* The thread has the mutex while main is in its menu.
AnswerQuestion(c) ==
  /\ toClient[c] # <<>> /\ toClient' = [toClient EXCEPT ![c] = Tail(@)]
  /\ \/ /\ Head(toClient[c]) = "question"
        /\ ClientGoto(c, "menu", "menu") /\ ClientSays(c, "INFO_RESPONSE", 0)
     \/ /\ Head(toClient[c]) # "question"
        /\ ClientGoto(c, "menu", IF Len(toClient[c]) = 1 THEN "menu" ELSE "garbled")
        /\ UNCHANGED toServer
  /\ UNCHANGED <<process, server_, locks, shared_info, budget, crossed>>

\* SIGINT; who waits holds the mutex, and the exit waits for the thread.
Interrupt(c) ==
  /\ budget > 0 /\ budget' = budget - 1
  /\ \/ ClientGoto(c, "connected", "silent") \/ ClientGoto(c, "menu", "gone") \/ ClientGoto(c, "garbled", "gone")
     \/ main[c] \in {"waitList", "waitInfo"} /\ main' = [main EXCEPT ![c] = "hung"]
  /\ UNCHANGED <<process, server_, locks, shared_info, streams, crossed>>

client(c) == Connect(c) \/ SayName(c) \/ Choose(c) \/ ReceiveAnswer(c) \/ Interrupt(c)

Next ==
  /\ process = "running"
  /\ \/ sigint_handler
     \/ \E c \in Users : Accept(c) \/ thread_run(c) \/ client(c) \/ AnswerQuestion(c)

Spec == Init /\ [][Next]_vars

-----------------------------------------------------------------------------

\* The list links the variables of threads that run, each once, except for those
\* of the clients that were one too many.
ListedThreadsRun ==
  /\ IsInjective(clients)
  /\ ToSet(clients) = {c \in Users : thread[c] \notin {"none", "start", "ended"}}

\* A question is answered by the client it was sent to, and not while the answer
\* is being written, unless one was not answered before or two were asked at once.
AnswerFromAsked ==
  [][\A c \in Users : Reply(c) /\ ~crossed =>
       shared_info = asked[c] /\ \A d \in Users : thread[d] # "write"]_vars

\* A client that connects is accepted, unless one before it has gone without
\* saying its name, with client_list_mutex locked.
ConnectionAccepted ==
  \A c \in Users :
    []<>(\/ c \notin backlog \/ process # "running"
         \/ \E d \in Users : main[d] = "silent" /\ thread[d] \notin {"none", "refused"})

=============================================================================
