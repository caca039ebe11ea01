------------------------------ MODULE Registries ----------------------------
(***************************************************************************)
(* The two registries of lab10: each behaviour is one of zad1 (datagrams)  *)
(* or one of zad2 (streams), and the other's variables stay as they are.   *)
(***************************************************************************)
EXTENDS Naturals

CONSTANTS
  Clients, Nobody, Directories, Remote, CLIENTS,
  MAX_CLIENTS, BUDGET, STREAM_BUDGET

ASSUME RegistriesAssumption ==
  /\ MAX_CLIENTS \in Nat \ {0} /\ BUDGET \in Nat /\ STREAM_BUDGET \in Nat /\ CLIENTS \in Nat
  /\ Nobody \notin Clients /\ Remote \subseteq Directories /\ Directories \ Remote # {}

VARIABLES
  program,              \* "zad1" or "zad2"
  local, place, clients, server, requests, main, want, inbox, files, budget, disturbed,
  process, backlog, thread, request, asked, linked,
  client_list_mutex, info_producer_mutex, info_consumer_mutex, shared_info,
  toServer, toClient, stream_main, stream_budget, crossed

D == INSTANCE DatagramRegistry
S == INSTANCE StreamRegistry WITH
       clients <- linked, main <- stream_main, budget <- stream_budget, BUDGET <- STREAM_BUDGET

datagram == <<local, place, clients, server, requests, main, want, inbox, files, budget,
              disturbed>>
stream   == <<process, backlog, thread, request, asked, linked, client_list_mutex,
              info_producer_mutex, info_consumer_mutex, shared_info, toServer, toClient,
              stream_main, stream_budget, crossed>>
allVars  == <<program, datagram, stream>>

Init ==
  /\ program \in {"zad1", "zad2"}
  /\ D!Init /\ S!Init
  /\ program = "zad2" => \A c \in Clients :
                           local[c] /\ place[c] = CHOOSE d \in Directories \ Remote : TRUE

InDatagram(A) == program = "zad1" /\ A /\ UNCHANGED <<program, stream>>
InStream(A)   == program = "zad2" /\ process = "running" /\ A /\ UNCHANGED <<program, datagram>>

Next == InDatagram(D!Next) \/ InStream(S!Next)

\* Both servers and both threads of a client are scheduled; what users do is up
\* to them.
FairSpec ==
  /\ Init /\ [][Next]_allVars
  /\ WF_allVars(InDatagram(D!server_main))
  /\ \A c \in Clients :
       /\ WF_allVars(InDatagram(D!ReceiveAnswer(c) \/ D!Exit(c)))
       /\ WF_allVars(InDatagram(D!thread_run(c)))
  /\ WF_allVars(InStream(\E c \in S!Users : S!Accept(c)))
  /\ \A c \in S!Users :
       /\ WF_allVars(InStream(S!thread_run(c)))
       /\ WF_allVars(InStream(S!SayName(c) \/ S!ReceiveAnswer(c)))
       /\ WF_allVars(InStream(S!AnswerQuestion(c)))

-----------------------------------------------------------------------------

\* zad1: a client that thinks it is registered is before the first empty entry.
EveryMemberListed == D!EveryMemberListed

\* zad1: main takes the answer to the request it has sent and none to another.
AnswersMatch == D!AnswersMatch

\* zad1: a client that waits gets an answer, whatever the one it asked about does.
AnswerComes == D!AnswerComes

\* zad2: the list links variables on the stacks of threads that run, each once.
ListedThreadsRun == S!ListedThreadsRun

\* zad2: the mailbox of two mutexes brings the answer of the client asked.
AnswerFromAsked == S!AnswerFromAsked

\* zad2: a client that connects is accepted.
ConnectionAccepted == S!ConnectionAccepted

=============================================================================
