-------------------------- MODULE QueueServersProofs ------------------------
(***************************************************************************)
(* Proofs about the two servers of lab07 that talk over message queues.    *)
(* ChatServer (Spec is its own) for any set of clients and any sizes of    *)
(* the array and the queues: what a client has been sent is the log from   *)
(* its joining on, but for its own messages.  SaveServer (Save!Spec) for   *)
(* any number of clients, any lengths of their records and any limit: who  *)
(* has been told that its message is saved finds it in the file, but for   *)
(* the one the server has not written yet, and the file keeps its limit.   *)
(***************************************************************************)
EXTENDS QueueServers, SequenceTheorems, FiniteSetTheorems, WellFoundedInduction, TLAPS

-----------------------------------------------------------------------------
\* The chat (zad1a)

Messages == [from : Clients \cup {"nobody"}, no : Int]
Entries  == [id : Clients, state : {"present", "absent"}]

\* The types; of the bound on the users' actions nothing has to be known.
ChatTypeOK ==
  /\ server \in {"register", "poll", "send", "ended"}
  /\ i \in Nat /\ to \in Nat /\ message \in Messages
  /\ clients \in Seq(Entries) /\ registrations \in Seq(Clients) /\ queue \subseteq Clients
  /\ toServer \in [Clients -> Seq(Messages)] /\ toClient \in [Clients -> Seq(Messages)]
  /\ writer \in [Clients -> {"off", "chat", "left", "failed", "killed"}]
  /\ number \in [Clients -> Nat]
  /\ log \in Seq(Messages) /\ heard \in [Clients -> Seq(Messages)]

Enrolled(c) == \E n \in DOMAIN clients : clients[n].id = c

\* Nobody asks twice, and who has not asked is not in the array.
OnceRegistered ==
  /\ \A j, k \in DOMAIN registrations : registrations[j] = registrations[k] => j = k
  /\ \A j, k \in DOMAIN clients : clients[j].id = clients[k].id => j = k
  /\ \A j \in DOMAIN registrations : ~Enrolled(registrations[j])
  /\ \A c \in Clients : writer[c] = "off" =>
       ~Enrolled(c) /\ \A j \in DOMAIN registrations : registrations[j] # c

\* The log says of each client of the array, and only of these, once that it has
\* joined; nobody else has been sent anything, and clients do not say so.
Announced ==
  /\ \A k \in DOMAIN log : log[k].no = 0 => Enrolled(log[k].from)
  /\ \A n \in DOMAIN clients : \E k \in DOMAIN log : log[k] = Joined(clients[n].id)
  /\ \A j, k \in DOMAIN log : log[j].no = 0 /\ log[j] = log[k] => j = k
  /\ \A c \in Clients : ~Enrolled(c) => toClient[c] = <<>> /\ heard[c] = <<>>
  /\ \A c \in Clients : \A k \in DOMAIN toServer[c] : toServer[c][k].no # 0

\* The message being sent is the log's last, and the loops are at an entry.
InLoop ==
  /\ server = "send" => to > 0 /\ log # <<>> /\ message = log[Len(log)]
  /\ server \in {"poll", "send"} => i > 0

\* One more in the second of two sequences, or moved from the second to the first.
LEMMA AppendToSecond ==
  ASSUME NEW X, NEW s \in Seq(X), NEW t \in Seq(X), NEW x \in X
  PROVE  s \o Append(t, x) = Append(s \o t, x)
<1>1. Append(t, x) = t \o <<x>> /\ Append(s \o t, x) = (s \o t) \o <<x>> /\ <<x>> \in Seq(X)
  OBVIOUS
<1> QED
  BY <1>1, ConcatAssociative

LEMMA HeadToFirst ==
  ASSUME NEW X, NEW s \in Seq(X), NEW t \in Seq(X), t # <<>>
  PROVE  Append(s, Head(t)) \o Tail(t) = s \o t
<1>1. /\ Head(t) \in X /\ Tail(t) \in Seq(X) /\ <<Head(t)>> \in Seq(X)
      /\ Append(s, Head(t)) = s \o <<Head(t)>> /\ t = <<Head(t)>> \o Tail(t)
  OBVIOUS
<1> QED
  BY <1>1, ConcatAssociative

-----------------------------------------------------------------------------
\* What a log l has for client c, between two places.

Selection(l, s, P) ==
  /\ Len(s) = Cardinality(P)
  /\ \A k \in P : s[Cardinality({j \in P : j <= k})] = l[k]

JoinedAt(l, c) == CHOOSE k \in DOMAIN l : l[k] = Joined(c)
DueIn(l, c, u) == {k \in JoinedAt(l, c) .. u : IsText(l[k]) => l[k].from # c}

LEMMA SelectsAsSelection ==
  /\ \A s, P : Selects(s, P) <=> Selection(log, s, P)
  /\ \A n : Due(n) = DueIn(log, clients[n].id, SentTo(n))
<1>1. ASSUME NEW s, NEW P
      PROVE  Selects(s, P) <=> Selection(log, s, P)
  BY DEF Selects, Selection
<1>2. ASSUME NEW n
      PROVE  Due(n) = DueIn(log, clients[n].id, SentTo(n))
  BY DEF Due, DueIn, JoinedAt
<1> QED
  BY <1>1, <1>2

\* The places of a log that satisfy something are finitely many.
LEMMA SelectionAppended ==
  ASSUME NEW M, NEW l \in Seq(M), NEW s \in Seq(M), NEW u \in Nat,
         NEW P, P \subseteq 1 .. u, u + 1 \in DOMAIN l, Selection(l, s, P)
  PROVE  Selection(l, Append(s, l[u + 1]), P \cup {u + 1})
<1> DEFINE Q == P \cup {u + 1}
           m == l[u + 1]
<1>1. IsFiniteSet(P) /\ u + 1 \notin P /\ m \in M
  <2>1. IsFiniteSet(1 .. u)
    BY FS_Interval
  <2>2. IsFiniteSet(P)
    BY <2>1, FS_Subset
  <2>3. u + 1 \notin 1 .. u /\ m \in M
    OBVIOUS
  <2> QED
    BY <2>2, <2>3
<1>2. IsFiniteSet(Q) /\ Cardinality(Q) = Cardinality(P) + 1 /\ Cardinality(P) \in Nat
  BY <1>1, FS_AddElement, FS_CardinalityType
<1>3. /\ Len(Append(s, m)) = Cardinality(Q)
      /\ Append(s, m)[Cardinality(Q)] = m
      /\ \A x \in 1 .. Cardinality(P) : Append(s, m)[x] = s[x]
  BY <1>1, <1>2 DEF Selection
<1>4. ASSUME NEW k \in Q
      PROVE  Append(s, m)[Cardinality({j \in Q : j <= k})] = l[k]
  <2>1. CASE k = u + 1
    <3>0. \A j \in 1 .. u : j <= u + 1
      OBVIOUS
    <3>1. \A j \in Q : j <= k
      BY <2>1, <3>0
    <3> QED
      <4>1. {j \in Q : j <= k} = Q
        <5> HIDE DEF Q
        <5> QED
          BY <3>1
      <4> QED
        BY <1>3, <2>1, <4>1
  <2>2. CASE k \in P
    <3> DEFINE R == {j \in P : j <= k}
    <3>1. {j \in Q : j <= k} = R /\ R \subseteq P /\ k \in R
      BY <2>2
    <3>2. Cardinality(R) \in 1 .. Cardinality(P)
      <4>1. IsFiniteSet(R) /\ Cardinality(R) <= Cardinality(P)
        BY <1>1, <3>1, FS_Subset
      <4>2. Cardinality(R) \in Nat /\ Cardinality(R) # 0
        BY <3>1, <4>1, FS_CardinalityType, FS_EmptySet
      <4> QED
        BY <1>2, <4>1, <4>2
    <3>3. s[Cardinality(R)] = l[k]
      BY <2>2 DEF Selection
    <3> QED
      BY <1>3, <3>1, <3>2, <3>3
  <2> QED
    BY <2>1, <2>2
<1> QED
  BY <1>3, <1>4 DEF Selection

\* What is appended to the log is not in a selection from before.
LEMMA SelectionKept ==
  ASSUME NEW M, NEW l \in Seq(M), NEW m \in M, NEW s, NEW P, P \subseteq 1 .. Len(l)
  PROVE  Selection(l, s, P) <=> Selection(Append(l, m), s, P)
<1>1. \A k \in P : Append(l, m)[k] = l[k]
  OBVIOUS
<1> QED
  BY <1>1 DEF Selection

\* Where a client's joining is, when it is in the log once.
LEMMA JoinedAtPlace ==
  ASSUME NEW l, NEW c, NEW k \in DOMAIN l, l[k] = Joined(c),
         \A j \in DOMAIN l : l[j] = Joined(c) => j = k
  PROVE  JoinedAt(l, c) = k
BY DEF JoinedAt

\* The places due up to the next one: that one is added if it is for the client.
LEMMA DueNext ==
  ASSUME NEW M, NEW l \in Seq(M), NEW c, JoinedAt(l, c) \in DOMAIN l,
         NEW u \in Nat, u + 1 = Len(l)
  PROVE  /\ DueIn(l, c, u) \subseteq 1 .. u
         /\ DueIn(l, c, u + 1) =
              IF IsText(l[u + 1]) => l[u + 1].from # c
              THEN DueIn(l, c, u) \cup {u + 1} ELSE DueIn(l, c, u)
<1> DEFINE k == JoinedAt(l, c)
<1>1. k \in 1 .. u + 1
  OBVIOUS
<1> HIDE DEF k
<1>2. k .. u + 1 = (k .. u) \cup {u + 1} /\ k .. u \subseteq 1 .. u /\ u + 1 \notin k .. u
  BY <1>1
<1> DEFINE For(j) == IsText(l[j]) => l[j].from # c
<1>3. \A v : DueIn(l, c, v) = {j \in k .. v : For(j)}
  BY DEF DueIn, k
<1> HIDE DEF For
<1>4. {j \in k .. u + 1 : For(j)} =
        IF For(u + 1) THEN {j \in k .. u : For(j)} \cup {u + 1} ELSE {j \in k .. u : For(j)}
  BY <1>2
<1>5. DueIn(l, c, u + 1) = IF For(u + 1) THEN DueIn(l, c, u) \cup {u + 1} ELSE DueIn(l, c, u)
  BY <1>3, <1>4
<1>6. DueIn(l, c, u) \subseteq 1 .. u
  BY <1>2, <1>3
<1> QED
  BY <1>5, <1>6 DEF For

\* A longer log has the same messages at the places there were.
LEMMA DueKept ==
  ASSUME NEW M, NEW l \in Seq(M), NEW m \in M, NEW c, NEW k \in DOMAIN l,
         l[k] = Joined(c),
         \A j \in DOMAIN Append(l, m) : Append(l, m)[j] = Joined(c) => j = k
  PROVE  /\ DueIn(Append(l, m), c, Len(l)) = DueIn(l, c, Len(l))
         /\ DueIn(l, c, Len(l)) \subseteq 1 .. Len(l)
<1> DEFINE g == Append(l, m)
<1>1. /\ Len(l) \in Nat /\ DOMAIN l = 1 .. Len(l) /\ DOMAIN g = 1 .. Len(l) + 1
      /\ \A j \in 1 .. Len(l) : g[j] = l[j]
  OBVIOUS
<1> HIDE DEF g
<1>2. JoinedAt(l, c) = k
  <2>1. \A j \in DOMAIN l : l[j] = Joined(c) => j = k
    BY <1>1 DEF g
  <2> QED
    BY <2>1, JoinedAtPlace
<1>3. JoinedAt(g, c) = k
  <2>1. k \in DOMAIN g /\ g[k] = Joined(c)
    BY <1>1
  <2>2. \A j \in DOMAIN g : g[j] = Joined(c) => j = k
    BY DEF g
  <2> QED
    BY <2>1, <2>2, JoinedAtPlace
<1>4. k .. Len(l) \subseteq 1 .. Len(l)
  BY <1>1
<1>5. DueIn(g, c, Len(l)) = DueIn(l, c, Len(l)) /\ DueIn(l, c, Len(l)) \subseteq 1 .. Len(l)
  BY <1>1, <1>2, <1>3, <1>4 DEF DueIn
<1> QED
  BY <1>5 DEF g

\* A client that joins now is due nothing before.
LEMMA DueToNewcomer ==
  ASSUME NEW M, NEW l \in Seq(M), NEW m \in M, NEW c, m = Joined(c),
         \A j \in DOMAIN Append(l, m) : Append(l, m)[j] = m => j = Len(l) + 1
  PROVE  DueIn(Append(l, m), c, Len(l)) = {}
<1>1. Len(l) \in Nat /\ Len(l) + 1 \in DOMAIN Append(l, m) /\ Append(l, m)[Len(l) + 1] = m
  OBVIOUS
<1> DEFINE g == Append(l, m)
<1>2. JoinedAt(g, c) = Len(l) + 1
  BY <1>1, JoinedAtPlace
<1> HIDE DEF g
<1>3. DueIn(g, c, Len(l)) = {}
  BY <1>1, <1>2 DEF DueIn
<1> QED
  BY <1>3 DEF g

-----------------------------------------------------------------------------
\* The inductive invariant: the property as it is about the log, and what it
\* rests on.

HeardTheLog ==
  server # "ended" => \A n \in DOMAIN clients :
    clients[n].state = "present" /\ clients[n].id \in queue =>
      Selection(log, heard[clients[n].id] \o toClient[clients[n].id],
                DueIn(log, clients[n].id, SentTo(n)))

ChatInv == ChatTypeOK /\ OnceRegistered /\ Announced /\ InLoop /\ HeardTheLog

\* The property as the model states it.
LEMMA HeardAsStated == ChatInv => EveryoneHearsTheLog
BY SelectsAsSelection DEF ChatInv, HeardTheLog, EveryoneHearsTheLog, Present

LEMMA ChatInit == Init => ChatInv
<1> SUFFICES ASSUME Init PROVE ChatInv
  OBVIOUS
<1>1. ChatTypeOK
  BY DEF Init, ChatTypeOK, Nothing, Messages
<1>2. OnceRegistered /\ Announced /\ InLoop /\ HeardTheLog
  BY DEF Init, OnceRegistered, Announced, InLoop, HeardTheLog, Enrolled
<1> QED
  BY <1>1, <1>2 DEF ChatInv

\* send_everyone is called for a message that is not "joined", or for that of a
\* new entry: what the old ones are due is what it was.
LEMMA SendEveryoneKeeps ==
  ASSUME ChatInv, ChatTypeOK', NEW m \in Messages, NEW j, server \in {"register", "poll"},
         SendEveryone(m, j), UNCHANGED <<toClient, queue, heard>>,
         DOMAIN clients \subseteq DOMAIN clients',
         \A n \in DOMAIN clients : /\ clients'[n].id = clients[n].id
                                   /\ clients'[n].state = "present" => clients[n].state = "present",
         \A n \in DOMAIN clients' \ DOMAIN clients : m = Joined(clients'[n].id),
         \A n \in DOMAIN clients' \ DOMAIN clients : ~Enrolled(clients'[n].id),
         m.no = 0 => ~Enrolled(m.from) /\ Enrolled(m.from)',
         \A c \in Clients : \A k \in DOMAIN toServer'[c] : toServer'[c][k].no # 0
  PROVE  Announced' /\ HeardTheLog' /\ (server' = "send" => to' > 0 /\ log' # <<>>
                                                                 /\ message' = log'[Len(log')])
<1>1. /\ server' = "send" /\ to' = 1 /\ message' = m /\ log' = Append(log, m)
      /\ toClient' = toClient /\ queue' = queue /\ heard' = heard
  BY DEF SendEveryone
<1>2. /\ log \in Seq(Messages) /\ Len(log) \in Nat /\ DOMAIN log = 1 .. Len(log)
      /\ Len(log') = Len(log) + 1 /\ DOMAIN log' = 1 .. Len(log) + 1
      /\ log'[Len(log) + 1] = m /\ \A k \in DOMAIN log : log'[k] = log[k]
      /\ log' # <<>>
  <2>1. log \in Seq(Messages)
    BY DEF ChatInv, ChatTypeOK
  <2> QED
    BY <1>1, <2>1
<1>3. \A c : Enrolled(c) => Enrolled(c)'
  BY DEF Enrolled
<1>4. Announced'
  <2>1. \A k \in DOMAIN log' : log'[k].no = 0 => Enrolled(log[k].from)'
    <3> SUFFICES ASSUME NEW k \in DOMAIN log', log'[k].no = 0 PROVE Enrolled(log[k].from)'
      OBVIOUS
    <3>1. CASE k \in DOMAIN log
      <4>1. log'[k] = log[k] /\ Enrolled(log[k].from)
        BY <1>2, <3>1 DEF ChatInv, Announced
      <4> QED
        BY <1>3, <4>1 DEF Enrolled
    <3>2. CASE k = Len(log) + 1
      <4>1. log'[k] = m /\ Enrolled(m.from)'
        BY <1>2, <3>2
      <4> QED
        BY <4>1 DEF Enrolled
    <3> QED
      BY <1>2, <3>1, <3>2
  <2>2. \A n \in DOMAIN clients' : \E k \in DOMAIN log' : log'[k] = Joined(clients'[n].id)
    <3> SUFFICES ASSUME NEW n \in DOMAIN clients'
                 PROVE  \E k \in DOMAIN log' : log'[k] = Joined(clients'[n].id)
      OBVIOUS
    <3>1. CASE n \in DOMAIN clients
      <4>1. PICK k \in DOMAIN log : log[k] = Joined(clients[n].id)
        BY <3>1 DEF ChatInv, Announced
      <4> QED
        BY <1>2, <3>1, <4>1
    <3>2. CASE n \notin DOMAIN clients
      BY <1>2, <3>2
    <3> QED
      BY <3>1, <3>2
  <2>3. \A k \in DOMAIN log : m.no = 0 => log[k] # m
    BY DEF ChatInv, Announced
  <2>4. \A a, b \in DOMAIN log' : log'[a].no = 0 /\ log'[a] = log'[b] => a = b
    <3> SUFFICES ASSUME NEW a \in DOMAIN log', NEW b \in DOMAIN log', log'[a].no = 0,
                        log'[a] = log'[b]
                 PROVE  a = b
      OBVIOUS
    <3>1. a \in DOMAIN log \/ a = Len(log) + 1
      BY <1>2
    <3>2. b \in DOMAIN log \/ b = Len(log) + 1
      BY <1>2
    <3>3. CASE a \in DOMAIN log /\ b \in DOMAIN log
      BY <1>2, <3>3 DEF ChatInv, Announced
    <3> QED
      BY <1>2, <2>3, <3>1, <3>2, <3>3
  <2>5. \A c \in Clients : ~Enrolled(c)' => toClient'[c] = <<>> /\ heard'[c] = <<>>
    BY <1>1, <1>3 DEF ChatInv, Announced
  <2> QED
    BY <2>1, <2>2, <2>4, <2>5 DEF Announced
<1>5. HeardTheLog'
  <2> SUFFICES ASSUME NEW n \in DOMAIN clients', clients'[n].state = "present",
                      clients'[n].id \in queue'
               PROVE  Selection(log', heard'[clients'[n].id] \o toClient'[clients'[n].id],
                                DueIn(log', clients'[n].id, SentTo(n)'))
    BY DEF HeardTheLog
  <2> DEFINE c == clients'[n].id
  <2>1. SentTo(n)' = Len(log)
    <3>1. n \in Nat /\ n >= 1
      BY DEF ChatTypeOK
    <3> QED
      BY <1>1, <1>2, <3>1 DEF SentTo
  <2>2. c \in Clients
    BY DEF ChatTypeOK, Entries
  <2>3. CASE n \in DOMAIN clients
    <3>1. c = clients[n].id /\ clients[n].state = "present" /\ c \in queue
      BY <1>1, <2>3
    <3>2. Selection(log, heard[c] \o toClient[c], DueIn(log, c, Len(log)))
      <4>1. SentTo(n) = Len(log)
        <5>1. Len(log) \in Nat /\ server # "send"
          BY <1>2
        <5> QED
          BY <5>1 DEF SentTo
      <4> QED
        BY <2>3, <3>1, <4>1 DEF ChatInv, HeardTheLog
    <3>3. PICK k \in DOMAIN log : log[k] = Joined(c)
      BY <2>3, <3>1 DEF ChatInv, Announced
    <3>4. \A a \in DOMAIN log' : log'[a] = Joined(c) => a = k
      BY <1>2, <1>4, <3>3 DEF Announced, Joined
    <3> HIDE DEF c
    <3>5. DueIn(log', c, Len(log)) = DueIn(log, c, Len(log))
          /\ DueIn(log, c, Len(log)) \subseteq 1 .. Len(log)
      BY <1>1, <1>2, <3>3, <3>4, DueKept
    <3>6. Selection(log', heard[c] \o toClient[c], DueIn(log, c, Len(log)))
      BY <1>1, <1>2, <3>2, <3>5, SelectionKept
    <3> QED
      BY <1>1, <2>1, <3>5, <3>6 DEF c
  <2>4. CASE n \notin DOMAIN clients
    <3>1. m = Joined(c) /\ ~Enrolled(c)
      BY <2>4
    <3>2. heard[c] = <<>> /\ toClient[c] = <<>>
      BY <2>2, <3>1 DEF ChatInv, Announced
    <3>3. \A a \in DOMAIN log' : log'[a] = m => a = Len(log) + 1
      BY <1>2, <1>4, <3>1 DEF Announced, Joined
    <3> HIDE DEF c
    <3>4. DueIn(log', c, Len(log)) = {}
      BY <1>1, <1>2, <3>1, <3>3, DueToNewcomer
    <3>5. Selection(log', heard[c] \o toClient[c], {})
      BY <3>2, FS_EmptySet DEF Selection
    <3> QED
      BY <1>1, <2>1, <3>4, <3>5 DEF c
  <2> QED
    BY <2>3, <2>4
<1> QED
  BY <1>1, <1>2, <1>4, <1>5

-----------------------------------------------------------------------------
\* The types, action by action.

LEMMA EntryType ==
  ASSUME ChatTypeOK, NEW n \in DOMAIN clients
  PROVE  clients[n] \in Entries /\ clients[n].id \in Clients
<1>1. clients[n] \in Entries
  BY DEF ChatTypeOK
<1> QED
  BY <1>1 DEF Entries

LEMMA PolledIsMember ==
  ASSUME ChatTypeOK, InLoop, server = "poll", i <= Len(clients)
  PROVE  /\ i \in DOMAIN clients /\ Polled = clients[i].id
         /\ Polled \in Clients
<1>1. i \in DOMAIN clients
  BY DEF ChatTypeOK, InLoop
<1> QED
  BY <1>1, EntryType DEF Polled

LEMMA RegisterTypes ==
  ASSUME ChatInv, Register
  PROVE  ChatTypeOK'
<1> USE DEF ChatInv, ChatTypeOK
<1>1. Head(registrations) \in Clients /\ registrations' \in Seq(Clients)
  BY DEF Register
<1>2. CASE Ended /\ UNCHANGED log
  BY <1>1, <1>2 DEF Register, Ended, array, queues, users
<1>3. CASE /\ clients' = Append(clients, [id |-> Head(registrations), state |-> "present"])
           /\ SendEveryone(Joined(Head(registrations)), 1)
  <2>1. Joined(Head(registrations)) \in Messages
    BY <1>1 DEF Joined, Messages
  <2>2. clients' \in Seq(Entries)
    BY <1>1, <1>3 DEF Entries
  <2> QED
    BY SMTT(60), <1>1, <1>3, <2>1, <2>2 DEF Register, SendEveryone, queues, users
<1> QED
  BY <1>2, <1>3 DEF Register

LEMMA PollTypes ==
  ASSUME ChatInv, PollNext \/ PollMessage \/ PollRemoved
  PROVE  ChatTypeOK'
<1> USE DEF ChatInv
<1>1. CASE PollNext
  <2>1. i' \in Nat /\ server' \in {"register", "poll", "send", "ended"}
    BY <1>1 DEF PollNext, ChatTypeOK
  <2>2. toServer' \in [Clients -> Seq(Messages)]
    <3>1. CASE UNCHANGED toServer
      BY <3>1 DEF ChatTypeOK
    <3>2. CASE /\ i <= Len(clients) /\ toServer[Polled] # <<>>
               /\ toServer' = [toServer EXCEPT ![Polled] = Tail(@)]
      <4>1. Polled \in Clients
        BY <1>1, <3>2, PolledIsMember DEF PollNext
      <4>2. Tail(toServer[Polled]) \in Seq(Messages)
        BY <3>2, <4>1 DEF ChatTypeOK
      <4> QED
        BY <3>2, <4>1, <4>2 DEF ChatTypeOK
    <3> QED
      BY <1>1, <3>1, <3>2 DEF PollNext
  <2> QED
    BY <1>1, <2>1, <2>2 DEF PollNext, users, ChatTypeOK
<1>2. CASE PollMessage
  <2>1. Polled \in Clients
    BY <1>2, PolledIsMember DEF PollMessage
  <2>2. Head(toServer[Polled]) \in Messages /\ toServer' \in [Clients -> Seq(Messages)]
    <3>1. toServer[Polled] \in Seq(Messages) /\ toServer[Polled] # <<>>
      BY <1>2, <2>1 DEF ChatTypeOK, PollMessage
    <3>2. Head(toServer[Polled]) \in Messages /\ Tail(toServer[Polled]) \in Seq(Messages)
      BY <3>1
    <3> QED
      BY <1>2, <2>1, <3>2 DEF ChatTypeOK, PollMessage
  <2> QED
    BY <1>2, <2>2 DEF PollMessage, SendEveryone, users, ChatTypeOK
<1>3. CASE PollRemoved
  <2>1. i \in DOMAIN clients /\ Polled \in Clients
    BY <1>3, PolledIsMember DEF PollRemoved
  <2>2. Left(Polled) \in Messages
    BY <2>1 DEF Left, Messages
  <2>3. clients' \in Seq(Entries)
    <3>1. [clients[i] EXCEPT !.state = "absent"] \in Entries
      BY <2>1, EntryType DEF Entries
    <3>2. clients' = [clients EXCEPT ![i] = [clients[i] EXCEPT !.state = "absent"]]
      BY <1>3 DEF PollRemoved
    <3> QED
      BY <2>1, <3>1, <3>2 DEF ChatTypeOK
  <2> QED
    BY <1>3, <2>2, <2>3 DEF PollRemoved, SendEveryone, queues, users, ChatTypeOK
<1> QED
  BY <1>1, <1>2, <1>3

LEMMA SendTypes ==
  ASSUME ChatInv, Send
  PROVE  ChatTypeOK'
<1> USE DEF ChatInv
<1>1. to \in DOMAIN clients /\ clients[to].id \in Clients
  <2>1. to \in DOMAIN clients
    BY DEF ChatTypeOK, InLoop, Send
  <2> QED
    BY <2>1, EntryType
<1>2. toClient' \in [Clients -> Seq(Messages)]
  <2>1. Append(toClient[clients[to].id], message) \in Seq(Messages)
    BY <1>1 DEF ChatTypeOK
  <2> QED
    BY <1>1, <2>1 DEF Send, ChatTypeOK
<1>3. to' \in Nat /\ i' \in Nat /\ message' \in Messages /\ clients' \in Seq(Entries)
      /\ server' \in {"register", "poll", "send", "ended"}
  BY SMTT(60) DEF Send, Ended, array, ChatTypeOK
<1> QED
  BY <1>2, <1>3 DEF Send, users, ChatTypeOK

LEMMA LoopTypes ==
  ASSUME ChatInv, NobodyRegisters \/ Sent \/ Interrupt
  PROVE  ChatTypeOK'
<1> USE DEF ChatInv, ChatTypeOK
<1>1. CASE NobodyRegisters
  BY <1>1 DEF NobodyRegisters, queues, users
<1>2. CASE Sent
  <2>1. Nothing \in Messages
    BY DEF Nothing, Messages
  <2> QED
    BY <1>2, <2>1 DEF Sent, queues, users
<1>3. CASE Interrupt
  BY <1>3 DEF Interrupt, Ended, array, queues
<1> QED
  BY <1>1, <1>2, <1>3

LEMMA ClientTypes ==
  ASSUME ChatInv, NEW c \in Clients, client_main(c) \/ Kill(c)
  PROVE  ChatTypeOK'
<1> USE DEF ChatInv, ChatTypeOK
<1>1. CASE Join(c)
  <2>1. writer' \in [Clients -> {"off", "chat", "left", "failed", "killed"}]
    BY <1>1 DEF Join
  <2>2. registrations' \in Seq(Clients)
    <3>1. registrations' = registrations \/ registrations' = Append(registrations, c)
      BY <1>1 DEF Join
    <3>2. registrations \in Seq(Clients)
      OBVIOUS
    <3> HIDE DEF ChatInv, ChatTypeOK
    <3> QED
      BY <3>1, <3>2
  <2> QED
    BY <1>1, <2>1, <2>2 DEF Join, array
<1>2. CASE Write(c)
  <2>1. Text(c, number[c] + 1) \in Messages /\ Quit(c) \in Messages
    BY DEF Text, Quit, Messages
  <2>2. \A m \in Messages : Append(toServer[c], m) \in Seq(Messages)
    OBVIOUS
  <2>3. toServer' \in [Clients -> Seq(Messages)]
    <3>1. PICK m \in Messages : toServer' = [toServer EXCEPT ![c] = Append(@, m)]
      <4>1. \/ toServer' = [toServer EXCEPT ![c] = Append(@, Text(c, number[c] + 1))]
            \/ toServer' = [toServer EXCEPT ![c] = Append(@, Quit(c))]
        BY <1>2 DEF Write
      <4> HIDE DEF ChatInv, ChatTypeOK
      <4> QED
        BY <2>1, <4>1
    <3>2. toServer \in [Clients -> Seq(Messages)]
      OBVIOUS
    <3> HIDE DEF ChatInv, ChatTypeOK
    <3> QED
      BY <2>2, <3>1, <3>2
  <2>4. number' \in [Clients -> Nat]
    <3>1. number' = number \/ number' = [number EXCEPT ![c] = @ + 1]
      BY <1>2 DEF Write
    <3>2. number \in [Clients -> Nat]
      OBVIOUS
    <3> HIDE DEF ChatInv, ChatTypeOK
    <3> QED
      BY <3>1, <3>2
  <2>5. writer' \in [Clients -> {"off", "chat", "left", "failed", "killed"}]
    BY <1>2 DEF Write
  <2> QED
    BY <1>2, <2>3, <2>4, <2>5 DEF Write, array
<1>3. CASE Read(c)
  <2>1. toClient[c] \in Seq(Messages) /\ toClient[c] # <<>> /\ heard[c] \in Seq(Messages)
    BY <1>3 DEF Read
  <2>2. Append(heard[c], Head(toClient[c])) \in Seq(Messages) /\ Tail(toClient[c]) \in Seq(Messages)
    BY <2>1
  <2> QED
    BY <1>3, <2>2 DEF Read, array, users
<1>4. CASE RemoveQueue(c)
  BY <1>4 DEF RemoveQueue, array, users
<1>5. CASE Kill(c)
  BY <1>5 DEF Kill, array, queues
<1> QED
  BY <1>1, <1>2, <1>3, <1>4, <1>5 DEF client_main

-----------------------------------------------------------------------------
\* The server's steps.

\* When the server ends, the array stays and nothing is promised any more.
LEMMA EndedKeeps ==
  ASSUME ChatInv, ChatTypeOK', OnceRegistered', Ended,
         UNCHANGED <<toServer, toClient, log, heard>>
  PROVE  ChatInv'
BY DEF ChatInv, Ended, array, Announced, InLoop, HeardTheLog, Enrolled

\* Entries and registrations as they were: so is what is known of them.
LEMMA SameRegistered ==
  ASSUME OnceRegistered, UNCHANGED <<registrations, writer>>, DOMAIN clients' = DOMAIN clients,
         \A n \in DOMAIN clients : clients'[n].id = clients[n].id
  PROVE  OnceRegistered' /\ \A c : Enrolled(c)' <=> Enrolled(c)
BY DEF OnceRegistered, Enrolled

\* Nothing that the property depends on changes.
LEMMA UnheardKeeps ==
  ASSUME ChatInv, ChatTypeOK', OnceRegistered', InLoop',
         UNCHANGED <<clients, toClient, log, heard>>,
         \A n \in DOMAIN clients : clients[n].id \in queue' => clients[n].id \in queue,
         server' # "ended" => server # "ended",
         server # "ended" => \A n \in DOMAIN clients : SentTo(n)' = SentTo(n),
         \A c \in Clients : \A k \in DOMAIN toServer'[c] : toServer'[c][k].no # 0
  PROVE  ChatInv'
<1>1. Announced'
  BY DEF ChatInv, Announced, Enrolled
<1>2. HeardTheLog'
  <2> SUFFICES ASSUME server' # "ended", NEW n \in DOMAIN clients,
                      clients[n].state = "present", clients[n].id \in queue'
               PROVE  Selection(log, heard[clients[n].id] \o toClient[clients[n].id],
                                DueIn(log, clients[n].id, SentTo(n)'))
    BY DEF HeardTheLog
  <2>1. SentTo(n)' = SentTo(n) /\ clients[n].id \in queue
        /\ server # "ended"
    OBVIOUS
  <2> QED
    BY <2>1 DEF ChatInv, HeardTheLog
<1> QED
  BY <1>1, <1>2 DEF ChatInv

\* What a client sends is neither of the server's own messages.
LEMMA TakenFromQueue ==
  ASSUME ChatInv, server = "poll", i <= Len(clients), toServer[Polled] # <<>>,
         toServer' = [toServer EXCEPT ![Polled] = Tail(@)]
  PROVE  \A c \in Clients : \A k \in DOMAIN toServer'[c] : toServer'[c][k].no # 0
<1> SUFFICES ASSUME NEW c \in Clients, NEW k \in DOMAIN toServer'[c]
             PROVE  toServer'[c][k].no # 0
  OBVIOUS
<1>1. Polled \in Clients /\ toServer \in [Clients -> Seq(Messages)]
  BY PolledIsMember DEF ChatInv, ChatTypeOK
<1>2. CASE c = Polled
  <2>1. toServer'[c] = Tail(toServer[c]) /\ toServer[c] \in Seq(Messages) /\ toServer[c] # <<>>
    BY <1>1, <1>2
  <2>2. PICK q \in Seq(Messages) : q = toServer[c]
    BY <2>1
  <2>3. k + 1 \in DOMAIN q /\ toServer'[c][k] = q[k + 1]
    <3>1. toServer'[c] = Tail(q) /\ q # <<>>
      BY <2>1, <2>2
    <3>2. \A j \in DOMAIN Tail(q) : j + 1 \in DOMAIN q /\ Tail(q)[j] = q[j + 1]
      BY <3>1
    <3> QED
      BY <3>1, <3>2
  <2> QED
    BY <2>2, <2>3 DEF ChatInv, Announced
<1>3. CASE c # Polled
  BY <1>1, <1>3 DEF ChatInv, Announced
<1> QED
  BY <1>2, <1>3

LEMMA RegisterKeeps ==
  ASSUME ChatInv, Register
  PROVE  ChatInv'
<1> DEFINE c == Head(registrations)
<1>1. ChatTypeOK'
  BY RegisterTypes
<1>2. /\ registrations \in Seq(Clients) /\ registrations # <<>> /\ c \in Clients
      /\ registrations' = Tail(registrations) /\ 1 \in DOMAIN registrations
      /\ c = registrations[1]
  BY DEF ChatInv, ChatTypeOK, Register
<1>3. \A j \in DOMAIN registrations' :
        j + 1 \in DOMAIN registrations /\ registrations'[j] = registrations[j + 1] /\ j \in Nat \ {0}
  BY <1>2
<1>4. UNCHANGED <<toServer, toClient, queue, writer, number, budget, heard>>
  BY DEF Register, queues, users
<1>5. ~Enrolled(c) /\ \A j \in DOMAIN registrations' : registrations'[j] # c
  <2>1. ~Enrolled(c)
    BY <1>2 DEF ChatInv, OnceRegistered
  <2>2. ASSUME NEW j \in DOMAIN registrations', registrations'[j] = c PROVE FALSE
    <3>1. j + 1 = 1
      BY <1>2, <1>3, <2>2 DEF ChatInv, OnceRegistered
    <3> QED
      BY <1>3, <3>1
  <2> QED
    BY <2>1, <2>2
<1>6. \A j, k \in DOMAIN registrations' : registrations'[j] = registrations'[k] => j = k
  <2> SUFFICES ASSUME NEW j \in DOMAIN registrations', NEW k \in DOMAIN registrations',
                      registrations'[j] = registrations'[k]
               PROVE  j = k
    OBVIOUS
  <2>1. j + 1 = k + 1
    BY <1>3 DEF ChatInv, OnceRegistered
  <2> QED
    BY <1>3, <2>1
<1>7. writer[c] # "off"
  BY <1>2 DEF ChatInv, OnceRegistered
<1>8. CASE Ended /\ UNCHANGED log
  <2>1. UNCHANGED clients
    BY <1>8 DEF Ended, array
  <2>2. OnceRegistered'
    BY <1>3, <1>4, <1>6, <2>1 DEF ChatInv, OnceRegistered, Enrolled
  <2> QED
    BY <1>1, <1>4, <1>8, <2>2, EndedKeeps
<1>9. CASE /\ clients' = Append(clients, [id |-> c, state |-> "present"])
           /\ SendEveryone(Joined(c), 1)
  <2>1. /\ clients \in Seq(Entries) /\ DOMAIN clients = 1 .. Len(clients) /\ Len(clients) \in Nat
        /\ DOMAIN clients' = 1 .. Len(clients) + 1
        /\ \A n \in DOMAIN clients : clients'[n] = clients[n]
        /\ clients'[Len(clients) + 1] = [id |-> c, state |-> "present"]
    <3>1. clients \in Seq(Entries) /\ [id |-> c, state |-> "present"] \in Entries
      BY <1>2 DEF ChatInv, ChatTypeOK, Entries
    <3> QED
      BY <1>9, <3>1
  <2>2. clients'[Len(clients) + 1].id = c
    BY <2>1
  <2>3. \A x : Enrolled(x)' <=> Enrolled(x) \/ x = c
    BY <2>1, <2>2 DEF Enrolled
  <2>4. OnceRegistered'
    <3>1. \A j, k \in DOMAIN clients' : clients'[j].id = clients'[k].id => j = k
      <4> SUFFICES ASSUME NEW j \in DOMAIN clients', NEW k \in DOMAIN clients',
                          clients'[j].id = clients'[k].id
                   PROVE  j = k
        OBVIOUS
      <4>1. \A n \in DOMAIN clients : clients'[n].id = clients[n].id /\ clients[n].id # c
        BY <1>5, <2>1 DEF Enrolled
      <4>2. j \in DOMAIN clients \/ j = Len(clients) + 1
        BY <2>1
      <4>3. k \in DOMAIN clients \/ k = Len(clients) + 1
        BY <2>1
      <4> QED
        BY <2>2, <4>1, <4>2, <4>3 DEF ChatInv, OnceRegistered
    <3>2. \A j \in DOMAIN registrations' : ~Enrolled(registrations[j + 1]) /\ registrations'[j] # c
      BY <1>3, <1>5 DEF ChatInv, OnceRegistered
    <3>3. \A j \in DOMAIN registrations', n \in DOMAIN clients' : clients'[n].id # registrations'[j]
      BY <1>3, <2>1, <2>2, <3>2 DEF Enrolled
    <3>4. \A x \in Clients : writer'[x] = "off" =>
            ~Enrolled(x)' /\ \A j \in DOMAIN registrations' : registrations'[j] # x
      BY <1>3, <1>4, <1>7, <2>3 DEF ChatInv, OnceRegistered
    <3> QED
      BY <1>6, <3>1, <3>3, <3>4 DEF OnceRegistered, Enrolled
  <2>5. server \in {"register", "poll"} /\ Joined(c) \in Messages
        /\ Joined(c).no = 0 /\ Joined(c).from = c
    BY <1>2 DEF Register, Joined, Messages
  <2>6. PICK m \in Messages : m = Joined(c)
    BY <2>5
  <2>7. PICK d : d = c
    OBVIOUS
  <2>8. /\ \A n \in DOMAIN clients : /\ clients'[n].id = clients[n].id
                                     /\ clients'[n].state = "present" => clients[n].state = "present"
        /\ \A n \in DOMAIN clients' \ DOMAIN clients : clients'[n].id = d
        /\ DOMAIN clients \subseteq DOMAIN clients'
    BY <2>1, <2>2, <2>7
  <2>9. \A x \in Clients : \A k \in DOMAIN toServer'[x] : toServer'[x][k].no # 0
    BY <1>4 DEF ChatInv, Announced
  <2>10. Enrolled(d)' /\ ~Enrolled(d) /\ m = Joined(d) /\ m.from = d /\ SendEveryone(m, 1)
    <3>1. m = Joined(c) /\ m.from = c
      BY <2>5, <2>6
    <3> QED
      BY <1>5, <1>9, <2>3, <2>6, <2>7, <3>1
  <2>11. m.no = 0 => ~Enrolled(m.from) /\ Enrolled(m.from)'
    BY <2>10
  <2>12. /\ \A n \in DOMAIN clients' \ DOMAIN clients : m = Joined(clients'[n].id)
         /\ \A n \in DOMAIN clients' \ DOMAIN clients : ~Enrolled(clients'[n].id)
    BY <2>8, <2>10
  <2> HIDE DEF c
  <2>13. Announced' /\ HeardTheLog' /\ (server' = "send" =>
           to' > 0 /\ log' # <<>> /\ message' = log'[Len(log')])
    BY <1>1, <1>4, <2>5, <2>8, <2>9, <2>10, <2>11, <2>12, SendEveryoneKeeps
  <2>14. server' = "send" /\ i' = 1
    BY <1>9 DEF SendEveryone
  <2> QED
    BY <1>1, <2>4, <2>13, <2>14 DEF ChatInv, InLoop
<1> QED
  BY <1>8, <1>9 DEF Register

\* The loop over the registrations ends, or the one over the entries.
LEMMA LoopKeeps ==
  ASSUME ChatInv, NobodyRegisters \/ PollNext \/ Sent
  PROVE  ChatInv'
<1>1. ChatTypeOK'
  BY PollTypes, LoopTypes
<1>2. UNCHANGED <<clients, registrations, toClient, queue, writer, log, heard>>
  BY DEF NobodyRegisters, PollNext, Sent, queues, users
<1>3. OnceRegistered'
  BY <1>2, SameRegistered DEF ChatInv
<1>4. server # "ended" /\ server' # "send"
      /\ (server' = "poll" => i' > 0)
  <2>1. i \in Nat /\ (server \in {"poll", "send"} => i > 0)
    BY DEF ChatInv, ChatTypeOK, InLoop
  <2> QED
    BY <2>1 DEF NobodyRegisters, PollNext, Sent
<1>5. \A n \in DOMAIN clients : SentTo(n)' = SentTo(n)
  <2> SUFFICES ASSUME NEW n \in DOMAIN clients PROVE SentTo(n)' = SentTo(n)
    OBVIOUS
  <2>1. SentTo(n)' = Len(log)
    <3>1. Len(log) \in Nat
      BY DEF ChatInv, ChatTypeOK
    <3> QED
      BY <1>2, <1>4, <3>1 DEF SentTo
  <2>2. ~(server = "send" /\ n >= to)
    <3>1. n \in Nat /\ n <= Len(clients) /\ to \in Nat /\ Len(clients) \in Nat
      BY DEF ChatInv, ChatTypeOK
    <3> QED
      BY <3>1 DEF NobodyRegisters, PollNext, Sent
  <2>3. SentTo(n) = Len(log)
    <3>1. Len(log) \in Nat
      BY DEF ChatInv, ChatTypeOK
    <3> QED
      BY <2>2, <3>1 DEF SentTo
  <2> QED
    BY <2>1, <2>3
<1>6. \A c \in Clients : \A k \in DOMAIN toServer'[c] : toServer'[c][k].no # 0
  <2>1. CASE UNCHANGED toServer
    BY <2>1 DEF ChatInv, Announced
  <2>2. CASE /\ i <= Len(clients) /\ toServer[Polled] # <<>> /\ server = "poll"
             /\ toServer' = [toServer EXCEPT ![Polled] = Tail(@)]
    BY <2>2, TakenFromQueue
  <2> QED
    BY <2>1, <2>2 DEF NobodyRegisters, PollNext, Sent, queues
<1> QED
  BY <1>1, <1>2, <1>3, <1>4, <1>5, <1>6, UnheardKeeps DEF InLoop

LEMMA PollMessageKeeps ==
  ASSUME ChatInv, PollMessage
  PROVE  ChatInv'
<1>1. ChatTypeOK'
  BY PollTypes
<1>2. UNCHANGED <<clients, registrations, toClient, queue, writer, heard>>
  BY DEF PollMessage, users
<1>3. OnceRegistered'
  BY <1>2, SameRegistered DEF ChatInv
<1>4. \A c \in Clients : \A k \in DOMAIN toServer'[c] : toServer'[c][k].no # 0
  BY TakenFromQueue DEF PollMessage
<1>5. PICK m \in Messages : m = Head(toServer[Polled])
  <2>1. Polled \in Clients /\ toServer[Polled] # <<>>
    BY PolledIsMember DEF PollMessage, ChatInv
  <2>2. toServer[Polled] \in Seq(Messages)
    BY <2>1 DEF ChatInv, ChatTypeOK
  <2> QED
    BY <2>1, <2>2
<1>6. m.no # 0
  <2>1. Polled \in Clients /\ toServer[Polled] # <<>>
    BY PolledIsMember DEF PollMessage, ChatInv
  <2>2. toServer[Polled] \in Seq(Messages)
    BY <2>1 DEF ChatInv, ChatTypeOK
  <2>3. 1 \in DOMAIN toServer[Polled] /\ m = toServer[Polled][1]
    BY <1>5, <2>1, <2>2
  <2> QED
    BY <2>1, <2>3 DEF ChatInv, Announced
<1>7. PICK j \in Nat \ {0} : SendEveryone(m, j)
  <2>1. i + 1 \in Nat \ {0}
    BY DEF ChatInv, ChatTypeOK
  <2> QED
    BY <1>5, <2>1 DEF PollMessage
<1>8. Announced' /\ HeardTheLog' /\ (server' = "send" =>
        to' > 0 /\ log' # <<>> /\ message' = log'[Len(log')])
  <2>1. server \in {"register", "poll"}
    BY DEF PollMessage
  <2>2. DOMAIN clients' = DOMAIN clients /\ clients' = clients
    BY <1>2
  <2> QED
    BY <1>1, <1>2, <1>4, <1>6, <1>7, <2>1, <2>2, SendEveryoneKeeps
<1>9. server' = "send" /\ i' = j
  BY <1>7 DEF SendEveryone
<1> QED
  BY <1>1, <1>3, <1>8, <1>9 DEF ChatInv, InLoop

LEMMA PollRemovedKeeps ==
  ASSUME ChatInv, PollRemoved
  PROVE  ChatInv'
<1>1. ChatTypeOK'
  BY PollTypes
<1>2. UNCHANGED <<registrations, toServer, toClient, queue, writer, heard>>
  BY DEF PollRemoved, queues, users
<1>3. /\ DOMAIN clients' = DOMAIN clients
      /\ \A n \in DOMAIN clients :
           /\ clients'[n].id = clients[n].id
           /\ clients'[n].state = "present" => clients[n].state = "present"
  <2>1. clients \in Seq(Entries) /\ i \in DOMAIN clients
    BY PolledIsMember DEF PollRemoved, ChatInv, ChatTypeOK
  <2>2. \A n \in DOMAIN clients : clients[n] \in Entries
    BY <2>1
  <2>3. clients' = [clients EXCEPT ![i] = [clients[i] EXCEPT !.state = "absent"]]
    BY DEF PollRemoved
  <2>4. clients[i] \in Entries
    BY <2>1, <2>2
  <2>5. /\ [clients[i] EXCEPT !.state = "absent"].id = clients[i].id
        /\ [clients[i] EXCEPT !.state = "absent"].state = "absent"
    BY <2>4 DEF Entries
  <2> QED
    BY <2>1, <2>3, <2>5
<1>4. OnceRegistered'
  BY <1>2, <1>3, SameRegistered DEF ChatInv
<1>5. Left(Polled) \in Messages
  BY PolledIsMember DEF PollRemoved, ChatInv, Left, Messages
<1>6. PICK m \in Messages : m = Left(Polled)
  BY <1>5
<1>7. m.no # 0 /\ SendEveryone(m, i + 1)
  BY <1>6 DEF Left, PollRemoved
<1>8. PICK j \in Nat \ {0} : SendEveryone(m, j)
  <2>1. i + 1 \in Nat \ {0}
    BY DEF ChatInv, ChatTypeOK
  <2> QED
    BY <1>7, <2>1
<1>9. \A c \in Clients : \A k \in DOMAIN toServer'[c] : toServer'[c][k].no # 0
  BY <1>2 DEF ChatInv, Announced
<1>10. server \in {"register", "poll"}
  BY DEF PollRemoved
<1>11. Announced' /\ HeardTheLog' /\ (server' = "send" =>
         to' > 0 /\ log' # <<>> /\ message' = log'[Len(log')])
  BY <1>1, <1>2, <1>3, <1>7, <1>8, <1>9, <1>10, SendEveryoneKeeps
<1>12. server' = "send" /\ i' = j
  BY <1>8 DEF SendEveryone
<1> QED
  BY <1>1, <1>4, <1>11, <1>12 DEF ChatInv, InLoop

LEMMA InterruptKeeps ==
  ASSUME ChatInv, Interrupt
  PROVE  ChatInv'
<1>1. ChatTypeOK'
  BY LoopTypes
<1>2. UNCHANGED <<registrations, toServer, toClient, queue, writer, log, heard>>
      /\ Ended /\ UNCHANGED clients
  BY DEF Interrupt, queues, Ended, array
<1>3. OnceRegistered'
  BY <1>2, SameRegistered DEF ChatInv
<1> QED
  BY <1>1, <1>2, <1>3, EndedKeeps

\* The entry at `to' gets the message: its selection grows by the log's last place.
LEMMA SendKeeps ==
  ASSUME ChatInv, Send
  PROVE  ChatInv'
<1>1. ChatTypeOK'
  BY SendTypes
<1>2. UNCHANGED <<registrations, toServer, queue, writer, log, heard>> /\ UNCHANGED clients
  BY DEF Send, users, Ended, array
<1>3. OnceRegistered'
  BY <1>2, SameRegistered DEF ChatInv
<1>4. PICK c : c = clients[to].id
  OBVIOUS
<1>5. to \in DOMAIN clients /\ c \in Clients
  <2>1. to \in DOMAIN clients
    BY DEF ChatInv, ChatTypeOK, InLoop, Send
  <2> QED
    BY <1>4, <2>1, EntryType DEF ChatInv
<1>6. CASE Ended /\ UNCHANGED toClient
  BY <1>1, <1>2, <1>3, <1>6, EndedKeeps
<1>7. CASE /\ ~Recipient(to) \/ (c \in queue /\ Room(c))
           /\ toClient' = IF Recipient(to)
                          THEN [toClient EXCEPT ![c] = Append(@, message)] ELSE toClient
           /\ to' = to + 1 /\ UNCHANGED <<server, i, message, clients>>
  <2>1. Announced'
    <3>1. Enrolled(c) /\ \A x : Enrolled(x)' <=> Enrolled(x)
      BY <1>2, <1>4, <1>5 DEF Enrolled
    <3>2. \A x \in Clients : x # c => toClient'[x] = toClient[x]
      BY <1>5, <1>7 DEF ChatInv, ChatTypeOK
    <3>3. \A x \in Clients : ~Enrolled(x)' => toClient'[x] = <<>> /\ heard'[x] = <<>>
      BY <1>2, <3>1, <3>2 DEF ChatInv, Announced
    <3>4. \A n \in DOMAIN clients' : \E k \in DOMAIN log' : log'[k] = Joined(clients'[n].id)
      BY <1>2 DEF ChatInv, Announced
    <3>5. /\ \A k \in DOMAIN log' : log'[k].no = 0 => Enrolled(log[k].from)'
          /\ \A j, k \in DOMAIN log' : log'[j].no = 0 /\ log'[j] = log'[k] => j = k
          /\ \A x \in Clients : \A k \in DOMAIN toServer'[x] : toServer'[x][k].no # 0
      BY <1>2, <3>1 DEF ChatInv, Announced
    <3> QED
      BY <1>2, <3>3, <3>4, <3>5 DEF Announced
  <2>2. InLoop'
    BY <1>2, <1>7 DEF ChatInv, InLoop, ChatTypeOK
  <2>3. server = "send" /\ server' = "send" /\ to \in Nat \ {0} /\ log \in Seq(Messages)
        /\ log # <<>> /\ message = log[Len(log)]
    BY <1>7 DEF ChatInv, InLoop, ChatTypeOK, Send
  <2>4. PICK u \in Nat : u + 1 = Len(log)
    <3>1. Len(log) \in Nat /\ Len(log) # 0
      BY <2>3
    <3>2. Len(log) - 1 \in Nat /\ (Len(log) - 1) + 1 = Len(log)
      BY <3>1
    <3> QED
      BY <3>2
  <2>5. HeardTheLog'
    <3> SUFFICES ASSUME NEW n \in DOMAIN clients, clients[n].state = "present",
                        clients[n].id \in queue
                 PROVE  Selection(log, heard[clients[n].id] \o toClient'[clients[n].id],
                                  DueIn(log, clients[n].id, SentTo(n)'))
      BY <1>2 DEF HeardTheLog
    <3>0. n \in Nat
      BY DEF ChatInv, ChatTypeOK
    <3>1. Selection(log, heard[clients[n].id] \o toClient[clients[n].id],
                    DueIn(log, clients[n].id, SentTo(n)))
      BY <2>3 DEF ChatInv, HeardTheLog
    <3>2. CASE n # to
      <4>1. SentTo(n)' = SentTo(n)
        BY <1>2, <1>7, <2>3, <3>0, <3>2 DEF SentTo
      <4>2. clients[n].id # c /\ clients[n].id \in Clients
        BY <1>4, <1>5, <3>2, EntryType DEF ChatInv, OnceRegistered
      <4>3. toClient'[clients[n].id] = toClient[clients[n].id]
        BY <1>5, <1>7, <4>2 DEF ChatInv, ChatTypeOK
      <4> QED
        BY <3>1, <4>1, <4>3
    <3>3. CASE n = to
      <4>1. SentTo(n) = u /\ SentTo(n)' = u + 1
        BY <1>2, <1>7, <2>3, <2>4, <3>0, <3>3 DEF SentTo
      <4>2. JoinedAt(log, c) \in DOMAIN log
        <5>1. PICK k \in DOMAIN log : log[k] = Joined(c)
          BY <1>4, <1>5 DEF ChatInv, Announced
        <5> QED
          BY <5>1 DEF JoinedAt
      <4> DEFINE m == log[u + 1]
                 P == DueIn(log, c, u)
                 s == heard[c] \o toClient[c]
      <4>3. /\ P \subseteq 1 .. u
            /\ DueIn(log, c, u + 1) =
                 IF IsText(m) => m.from # c THEN P \cup {u + 1} ELSE P
        <5>1. log \in Seq(Messages) /\ JoinedAt(log, c) \in DOMAIN log /\ u \in Nat /\ u + 1 = Len(log)
          BY <2>3, <2>4, <4>2
        <5>2. DueIn(log, c, u) \subseteq 1 .. u
          BY ONLY <5>1, DueNext
        <5>3. DueIn(log, c, u + 1) =
                IF IsText(log[u + 1]) => log[u + 1].from # c
                THEN DueIn(log, c, u) \cup {u + 1} ELSE DueIn(log, c, u)
          BY ONLY <5>1, DueNext
        <5> QED
          BY <5>2, <5>3
      <4>4. Selection(log, s, P) /\ m = message
        BY <1>4, <2>3, <2>4, <3>1, <3>3, <4>1
      <4>5. heard[c] \in Seq(Messages) /\ toClient[c] \in Seq(Messages) /\ m \in Messages
        BY <1>5, <2>3, <2>4 DEF ChatInv, ChatTypeOK
      <4>6. CASE Recipient(to)
        <5>1. IsText(m) => m.from # c
          BY <1>4, <4>4, <4>6 DEF Recipient
        <5>2. toClient'[c] = Append(toClient[c], m)
          BY <1>5, <1>7, <4>4, <4>6 DEF ChatInv, ChatTypeOK
        <5> HIDE DEF m, P
        <5>3. heard[c] \o toClient'[c] = Append(s, m)
          <6>1. m \in Messages /\ toClient'[c] = Append(toClient[c], m)
            BY <4>5, <5>2
          <6>2. heard[c] \o Append(toClient[c], m) = Append(heard[c] \o toClient[c], m)
            <7>1. PICK h \in Seq(Messages) : h = heard[c]
              BY <4>5
            <7>2. PICK t \in Seq(Messages) : t = toClient[c]
              BY <4>5
            <7>3. PICK x \in Messages : x = m
              BY <4>5
            <7>4. h \o Append(t, x) = Append(h \o t, x)
              BY AppendToSecond
            <7> QED
              BY <7>1, <7>2, <7>3, <7>4
          <6> QED
            BY <6>1, <6>2
        <5>4. s \in Seq(Messages)
          BY <4>5
        <5> HIDE DEF s
        <5>5. u + 1 \in DOMAIN log
          BY <2>3, <2>4
        <5>6. Selection(log, Append(s, log[u + 1]), P \cup {u + 1})
          BY <2>3, <2>4, <4>3, <4>4, <5>4, <5>5, SelectionAppended
        <5> QED
          BY <1>4, <3>3, <4>1, <4>3, <5>1, <5>3, <5>6 DEF m
      <4>7. CASE ~Recipient(to)
        <5>1. ~(IsText(m) => m.from # c)
          BY <1>4, <3>3, <4>4, <4>7 DEF Recipient, Present
        <5>2. toClient'[c] = toClient[c]
          BY <1>7, <4>7
        <5> QED
          BY <1>4, <3>3, <4>1, <4>3, <4>4, <5>1, <5>2
      <4> QED
        BY <4>6, <4>7
    <3> QED
      BY <3>2, <3>3
  <2> QED
    BY <1>1, <1>3, <2>1, <2>2, <2>5 DEF ChatInv
<1> QED
  BY <1>4, <1>6, <1>7 DEF Send

-----------------------------------------------------------------------------
\* The clients' steps.

LEMMA JoinKeeps ==
  ASSUME ChatInv, NEW c \in Clients, Join(c)
  PROVE  ChatInv'
<1>1. ChatTypeOK'
  BY ClientTypes DEF client_main
<1>2. UNCHANGED <<server, i, message, to, clients, toServer, toClient, log, heard>>
  BY DEF Join, array
<1>3. ~Enrolled(c) /\ \A j \in DOMAIN registrations : registrations[j] # c
  BY DEF Join, ChatInv, OnceRegistered
<1>4. OnceRegistered'
  <2>1. writer \in [Clients -> {"off", "chat", "left", "failed", "killed"}]
    BY DEF ChatInv, ChatTypeOK
  <2>2. \A x \in Clients : writer'[x] = "off" => x # c /\ writer[x] = "off"
    BY <2>1 DEF Join
  <2>3. CASE UNCHANGED registrations
    BY <1>2, <2>2, <2>3 DEF ChatInv, OnceRegistered, Enrolled
  <2>4. CASE registrations' = Append(registrations, c)
    <3>1. registrations \in Seq(Clients)
      BY DEF ChatInv, ChatTypeOK
    <3>2. \A j \in DOMAIN registrations' :
            \/ j \in DOMAIN registrations /\ registrations'[j] = registrations[j]
            \/ j = Len(registrations) + 1 /\ registrations'[j] = c
      BY <2>4, <3>1
    <3>3. \A j, k \in DOMAIN registrations' : registrations'[j] = registrations'[k] => j = k
      BY <1>3, <3>2 DEF ChatInv, OnceRegistered
    <3>4. \A j \in DOMAIN registrations', n \in DOMAIN clients' : clients'[n].id # registrations'[j]
      BY <1>2, <1>3, <3>2 DEF ChatInv, OnceRegistered, Enrolled
    <3>5. \A x \in Clients : writer'[x] = "off" =>
            ~Enrolled(x)' /\ \A j \in DOMAIN registrations' : registrations'[j] # x
      BY <1>2, <2>2, <3>2 DEF ChatInv, OnceRegistered, Enrolled
    <3>6. \A j, k \in DOMAIN clients' : clients'[j].id = clients'[k].id => j = k
      BY <1>2 DEF ChatInv, OnceRegistered
    <3> QED
      BY <3>3, <3>4, <3>5, <3>6 DEF OnceRegistered, Enrolled
  <2> QED
    BY <2>3, <2>4 DEF Join
<1>5. \A n \in DOMAIN clients : clients[n].id \in queue' => clients[n].id \in queue
  BY <1>3 DEF Join, Enrolled
<1>6. \A n \in DOMAIN clients : SentTo(n)' = SentTo(n)
  BY <1>2 DEF SentTo
<1>7. InLoop'
  BY <1>2 DEF ChatInv, InLoop
<1>8. \A x \in Clients : \A k \in DOMAIN toServer'[x] : toServer'[x][k].no # 0
  BY <1>2 DEF ChatInv, Announced
<1> QED
  BY <1>1, <1>2, <1>4, <1>5, <1>6, <1>7, <1>8, UnheardKeeps

LEMMA WriteKeeps ==
  ASSUME ChatInv, NEW c \in Clients, Write(c) \/ Kill(c)
  PROVE  ChatInv'
<1>1. ChatTypeOK'
  BY ClientTypes DEF client_main
<1>2. UNCHANGED <<server, i, message, to, clients, registrations, toClient,
                  queue, log, heard>>
  BY DEF Write, Kill, array, queues
<1>3. OnceRegistered'
  <2>1. writer \in [Clients -> {"off", "chat", "left", "failed", "killed"}]
    BY DEF ChatInv, ChatTypeOK
  <2>2. \A x \in Clients : writer'[x] = "off" => writer[x] = "off"
    BY <2>1 DEF Write, Kill
  <2> QED
    BY <1>2, <2>2 DEF ChatInv, OnceRegistered, Enrolled
<1>4. \A x \in Clients : \A k \in DOMAIN toServer'[x] : toServer'[x][k].no # 0
  <2>1. \A x \in Clients : \A k \in DOMAIN toServer[x] : toServer[x][k].no # 0
    BY DEF ChatInv, Announced
  <2>2. CASE UNCHANGED toServer
    BY <2>1, <2>2
  <2>3. ASSUME NEW m, m.no # 0, toServer' = [toServer EXCEPT ![c] = Append(@, m)]
        PROVE  \A x \in Clients : \A k \in DOMAIN toServer'[x] : toServer'[x][k].no # 0
    <3> SUFFICES ASSUME NEW x \in Clients, NEW k \in DOMAIN toServer'[x]
                 PROVE  toServer'[x][k].no # 0
      OBVIOUS
    <3>1. toServer \in [Clients -> Seq(Messages)]
      BY DEF ChatInv, ChatTypeOK
    <3>2. CASE x = c
      <4>1. PICK q \in Seq(Messages) : q = toServer[c]
        BY <3>1
      <4>2. toServer'[x] = Append(q, m)
        BY <2>3, <3>1, <3>2, <4>1
      <4>3. \A j \in DOMAIN Append(q, m) : \/ j \in DOMAIN q /\ Append(q, m)[j] = q[j]
                                           \/ Append(q, m)[j] = m
        OBVIOUS
      <4> QED
        BY <2>1, <2>3, <4>1, <4>2, <4>3
    <3>3. CASE x # c
      BY <2>1, <2>3, <3>1, <3>3
    <3> QED
      BY <3>2, <3>3
  <2>4. CASE Write(c)
    <3>1. number[c] \in Nat
      BY DEF ChatInv, ChatTypeOK
    <3>2. Text(c, number[c] + 1).no # 0 /\ Quit(c).no # 0
      BY <3>1 DEF Text, Quit
    <3>3. \/ toServer' = [toServer EXCEPT ![c] = Append(@, Text(c, number[c] + 1))]
          \/ toServer' = [toServer EXCEPT ![c] = Append(@, Quit(c))]
      BY <2>4 DEF Write
    <3> QED
      BY <2>3, <3>2, <3>3
  <2> QED
    BY <2>2, <2>4 DEF Kill, queues
<1>5. \A n \in DOMAIN clients : SentTo(n)' = SentTo(n)
  BY <1>2 DEF SentTo
<1>6. InLoop'
  BY <1>2 DEF ChatInv, InLoop
<1> QED
  BY <1>1, <1>2, <1>3, <1>4, <1>5, <1>6, UnheardKeeps

\* What is printed is what was in the queue.
LEMMA ReadKeeps ==
  ASSUME ChatInv, NEW c \in Clients, Read(c)
  PROVE  ChatInv'
<1>1. ChatTypeOK'
  BY ClientTypes DEF client_main
<1>2. UNCHANGED <<server, i, message, to, clients, registrations, toServer,
                  queue, writer, log>>
  BY DEF Read, array, users
<1>3. OnceRegistered' /\ \A x : Enrolled(x)' <=> Enrolled(x)
  BY <1>2, SameRegistered DEF ChatInv
<1>4. toClient[c] \in Seq(Messages) /\ toClient[c] # <<>> /\ heard[c] \in Seq(Messages)
  BY DEF Read, ChatInv, ChatTypeOK
<1>5. \A x \in Clients : heard'[x] \o toClient'[x] = heard[x] \o toClient[x]
  <2> SUFFICES ASSUME NEW x \in Clients
               PROVE  heard'[x] \o toClient'[x] = heard[x] \o toClient[x]
    OBVIOUS
  <2>1. /\ toClient \in [Clients -> Seq(Messages)] /\ heard \in [Clients -> Seq(Messages)]
        /\ heard' = [heard EXCEPT ![c] = Append(@, Head(toClient[c]))]
        /\ toClient' = [toClient EXCEPT ![c] = Tail(@)]
    BY DEF Read, ChatInv, ChatTypeOK
  <2>2. CASE x # c
    BY <2>1, <2>2
  <2>3. CASE x = c
    <3>1. heard'[x] = Append(heard[c], Head(toClient[c])) /\ toClient'[x] = Tail(toClient[c])
      BY <2>1, <2>3
    <3>2. PICK h, q \in Seq(Messages) : h = heard[c] /\ q = toClient[c] /\ q # <<>>
      BY <1>4
    <3>3. Append(h, Head(q)) \o Tail(q) = h \o q
      BY <3>2, HeadToFirst
    <3> QED
      BY <2>3, <3>1, <3>2, <3>3
  <2> QED
    BY <2>2, <2>3
<1>6. Announced'
  <2>1. Enrolled(c)
    BY <1>4 DEF ChatInv, Announced
  <2>2. \A x \in Clients : ~Enrolled(x)' => toClient'[x] = <<>> /\ heard'[x] = <<>>
    <3>1. \A x \in Clients : x # c => toClient'[x] = toClient[x] /\ heard'[x] = heard[x]
      BY DEF Read, ChatInv, ChatTypeOK
    <3> QED
      BY <1>3, <2>1, <3>1 DEF ChatInv, Announced
  <2>3. \A n \in DOMAIN clients' : \E k \in DOMAIN log' : log'[k] = Joined(clients'[n].id)
    BY <1>2 DEF ChatInv, Announced
  <2>4. /\ \A k \in DOMAIN log' : log'[k].no = 0 => Enrolled(log[k].from)'
        /\ \A j, k \in DOMAIN log' : log'[j].no = 0 /\ log'[j] = log'[k] => j = k
        /\ \A x \in Clients : \A k \in DOMAIN toServer'[x] : toServer'[x][k].no # 0
    BY <1>2, <1>3 DEF ChatInv, Announced
  <2> QED
    BY <1>2, <2>2, <2>3, <2>4 DEF Announced
<1>7. HeardTheLog'
  <2> SUFFICES ASSUME server # "ended", NEW n \in DOMAIN clients,
                      clients[n].state = "present", clients[n].id \in queue
               PROVE  Selection(log, heard'[clients[n].id] \o toClient'[clients[n].id],
                                DueIn(log, clients[n].id, SentTo(n)'))
    BY <1>2 DEF HeardTheLog
  <2>1. SentTo(n)' = SentTo(n)
    BY <1>2 DEF SentTo
  <2>2. clients[n].id \in Clients
    BY EntryType DEF ChatInv
  <2>3. heard'[clients[n].id] \o toClient'[clients[n].id] =
          heard[clients[n].id] \o toClient[clients[n].id]
    BY <1>5, <2>2
  <2> QED
    BY <2>1, <2>3 DEF ChatInv, HeardTheLog
<1> QED
  BY <1>1, <1>2, <1>3, <1>6, <1>7 DEF ChatInv, InLoop

\* A queue that is removed is nobody's any more.
LEMMA RemoveQueueKeeps ==
  ASSUME ChatInv, NEW c \in Clients, RemoveQueue(c)
  PROVE  ChatInv'
<1>1. ChatTypeOK'
  BY ClientTypes DEF client_main
<1>2. UNCHANGED <<server, i, message, to, clients, registrations, writer, log, heard>>
      /\ queue' = queue \ {c}
  BY DEF RemoveQueue, array, users
<1>3. OnceRegistered' /\ \A x : Enrolled(x)' <=> Enrolled(x)
  BY <1>2, SameRegistered DEF ChatInv
<1>4. \A x \in Clients : /\ toServer'[x] = IF x = c THEN <<>> ELSE toServer[x]
                         /\ toClient'[x] = IF x = c THEN <<>> ELSE toClient[x]
  BY DEF RemoveQueue, ChatInv, ChatTypeOK
<1>5. Announced'
  <2>1. \A x \in Clients : ~Enrolled(x)' => toClient'[x] = <<>> /\ heard'[x] = <<>>
    BY <1>2, <1>3, <1>4 DEF ChatInv, Announced
  <2>2. \A x \in Clients : \A k \in DOMAIN toServer'[x] : toServer'[x][k].no # 0
    BY <1>4 DEF ChatInv, Announced
  <2>3. \A n \in DOMAIN clients' : \E k \in DOMAIN log' : log'[k] = Joined(clients'[n].id)
    BY <1>2 DEF ChatInv, Announced
  <2>4. /\ \A k \in DOMAIN log' : log'[k].no = 0 => Enrolled(log[k].from)'
        /\ \A j, k \in DOMAIN log' : log'[j].no = 0 /\ log'[j] = log'[k] => j = k
    BY <1>2, <1>3 DEF ChatInv, Announced
  <2> QED
    BY <1>2, <2>1, <2>2, <2>3, <2>4 DEF Announced
<1>6. HeardTheLog'
  <2> SUFFICES ASSUME server # "ended", NEW n \in DOMAIN clients,
                      clients[n].state = "present", clients[n].id \in queue'
               PROVE  Selection(log, heard[clients[n].id] \o toClient'[clients[n].id],
                                DueIn(log, clients[n].id, SentTo(n)'))
    BY <1>2 DEF HeardTheLog
  <2>1. SentTo(n)' = SentTo(n)
    BY <1>2 DEF SentTo
  <2>2. clients[n].id \in Clients /\ clients[n].id # c /\ clients[n].id \in queue
    BY <1>2, EntryType DEF ChatInv
  <2>3. toClient'[clients[n].id] = toClient[clients[n].id]
    BY <1>4, <2>2
  <2> QED
    BY <2>1, <2>2, <2>3 DEF ChatInv, HeardTheLog
<1> QED
  BY <1>1, <1>2, <1>3, <1>5, <1>6 DEF ChatInv, InLoop

LEMMA ChatStep ==
  ASSUME ChatInv, [Next]_vars
  PROVE  ChatInv'
<1>1. CASE server_main
  BY <1>1, RegisterKeeps, LoopKeeps, PollMessageKeeps, PollRemovedKeeps, SendKeeps
  DEF server_main
<1>2. CASE Interrupt
  BY <1>2, InterruptKeeps
<1>3. ASSUME NEW c \in Clients, client_main(c) \/ Kill(c)
      PROVE  ChatInv'
  BY <1>3, JoinKeeps, WriteKeeps, ReadKeeps, RemoveQueueKeeps DEF client_main
<1>4. CASE UNCHANGED vars
  <2>1. UNCHANGED <<server, i, message, to, clients, registrations, toServer,
                    toClient, queue, writer, number, log, heard>>
    BY <1>4 DEF vars, array, queues, users
  <2>2. ChatTypeOK'
    BY <2>1 DEF ChatInv, ChatTypeOK
  <2>3. OnceRegistered' /\ Announced' /\ InLoop'
    BY <2>1 DEF ChatInv, OnceRegistered, Announced, InLoop, Enrolled
  <2>4. \A n : SentTo(n)' = SentTo(n)
    BY <2>1 DEF SentTo
  <2>5. HeardTheLog'
    BY <2>1, <2>4 DEF ChatInv, HeardTheLog
  <2> QED
    BY <2>2, <2>3, <2>5 DEF ChatInv
<1> QED
  BY <1>1, <1>2, <1>3, <1>4 DEF Next

\* The types of the chat's state, in every state the programs reach.
THEOREM ChatTypeCorrect == Spec => []ChatTypeOK
<1>1. ChatInv => ChatTypeOK
  BY DEF ChatInv
<1> QED
  BY <1>1, ChatInit, ChatStep, PTL DEF Spec

\* zad1a: every client of the chat has been sent what everybody has, in one order.
THEOREM ChatHeard == Spec => []EveryoneHearsTheLog
BY ChatInit, ChatStep, HeardAsStated, PTL DEF Spec

-----------------------------------------------------------------------------
\* The saving server (zad2a, zad2b, zad2c)

Answers == {"none", "saved", "full"}

ClientLabels == {"start", "send", "reset", "test", "pausing", "pause", "done", "failed", "killed"}

SaveTypeOK ==
  /\ variant \in {"zad2a", "zad2b", "zad2c"} /\ length \in [Save!Senders -> LENGTHS]
  /\ save_server \in {"open", "loop", "write", "notify", "ended"}
  /\ save_message \in Save!Senders \cup {Save!Nobody}
  /\ size \in Nat /\ saved \subseteq Save!Senders
  /\ registered \in BOOLEAN /\ notified \in BOOLEAN
  /\ save_queue \in Seq(Save!Senders)
  /\ client \in [Save!Senders -> ClientLabels]
  /\ answer_from_serwer \in [Save!Senders -> Answers] /\ pending \in [Save!Senders -> Answers]
  /\ interrupted \subseteq Save!Senders

\* The server has a message in hand only while it writes it, and the file has
\* room for it; it was interrupted at most once.
WriteInv ==
  /\ save_server = "write" <=> save_message # Save!Nobody
  /\ save_server = "write" => size + length[save_message] <= MAX_FILE_LENGTH
  /\ interrupted # {} => save_server = "ended"
  /\ notified => save_queue # <<>>

SaveInv == SaveTypeOK /\ WriteInv /\ SavedIsWritten

-----------------------------------------------------------------------------
\* The queue

\* There is a message of the highest priority: its numbers up to CLIENTS are the
\* fewest.
LEMMA HighestPriority ==
  ASSUME save_queue \in Seq(Save!Senders), save_queue # <<>>
  PROVE  \E n \in DOMAIN save_queue : \A m \in DOMAIN save_queue : save_queue[n] >= save_queue[m]
<1> DEFINE Above(n) == save_queue[n] .. CLIENTS
           Aboves == {Above(n) : n \in DOMAIN save_queue}
<1>0. CLIENTS \in Nat /\ \A n \in DOMAIN save_queue : save_queue[n] \in 1 .. CLIENTS
  BY SaveAssumption DEF Save!Senders
<1>1. Aboves \subseteq FiniteSubsetsOf(Nat) /\ Aboves # {}
  <2>1. \A n \in DOMAIN save_queue : IsFiniteSet(Above(n)) /\ Above(n) \subseteq Nat
    BY <1>0, FS_Interval
  <2>2. 1 \in DOMAIN save_queue
    OBVIOUS
  <2> QED
    BY <2>1, <2>2 DEF FiniteSubsetsOf
<1>2. PICK x \in Aboves : \A y \in Aboves : ~(<<y, x>> \in StrictSubsetOrdering(Nat))
  <2> HIDE DEF Aboves
  <2> QED
    BY <1>1, FS_StrictSubsetOrderingWellFounded, WFMin
<1>3. PICK n \in DOMAIN save_queue : x = Above(n)
  BY <1>2
<1>4. ASSUME NEW m \in DOMAIN save_queue, save_queue[m] > save_queue[n]
      PROVE  FALSE
  <2>1. /\ Above(m) \in Aboves /\ Above(n) \subseteq Nat /\ Above(m) \subseteq Above(n)
        /\ save_queue[n] \in Above(n) /\ save_queue[n] \notin Above(m)
    BY <1>0, <1>4
  <2>2. <<Above(m), Above(n)>> \in StrictSubsetOrdering(Nat)
    BY <2>1 DEF StrictSubsetOrdering
  <2> QED
    BY <1>2, <1>3, <2>1, <2>2
<1> QED
  BY <1>0, <1>4

\* What is received was in the queue, and the others stay there.
LEMMA Receives ==
  ASSUME save_queue \in Seq(Save!Senders), save_queue # <<>>
  PROVE  Save!Received \in Save!Senders /\ Save!Others \in Seq(Save!Senders)
<1>1. Save!First \in DOMAIN save_queue
  <2>1. CASE variant = "zad2a"
    BY <2>1 DEF Save!First
  <2>2. CASE variant # "zad2a"
    BY <2>2, HighestPriority DEF Save!First
  <2> QED
    BY <2>1, <2>2
<1> DEFINE f == Save!First
<1>2. /\ f \in 1 .. Len(save_queue) /\ Len(save_queue) \in Nat
      /\ \A n \in 1 .. Len(save_queue) : save_queue[n] \in Save!Senders
  BY <1>1
<1> HIDE DEF f
<1>3. SubSeq(save_queue, 1, f - 1) \in Seq(Save!Senders)
  BY <1>2, SubSeqProperties
<1>4. SubSeq(save_queue, f + 1, Len(save_queue)) \in Seq(Save!Senders)
  BY <1>2, SubSeqProperties
<1>5. Save!RemoveAt(save_queue, f) \in Seq(Save!Senders)
  BY <1>3, <1>4, ConcatProperties DEF Save!RemoveAt
<1> QED
  BY <1>2, <1>5 DEF f, Save!Received, Save!Others

-----------------------------------------------------------------------------

LEMMA SaveInit == Save!Init => SaveInv
<1> SUFFICES ASSUME Save!Init PROVE SaveInv
  OBVIOUS
<1>1. /\ variant \in {"zad2a", "zad2b", "zad2c"} /\ save_server \in {"open", "loop"}
      /\ registered \in BOOLEAN /\ notified = FALSE /\ save_message = Save!Nobody /\ size = 0
  BY DEF Save!Init
<1>2. save_queue \in Seq(Save!Senders) /\ saved = {} /\ interrupted = {}
  BY DEF Save!Init
<1>3. SaveTypeOK
  <2>1. /\ client \in [Save!Senders -> ClientLabels]
        /\ answer_from_serwer \in [Save!Senders -> Answers] /\ pending \in [Save!Senders -> Answers]
        /\ length \in [Save!Senders -> LENGTHS]
    BY DEF ClientLabels, Save!Init, Answers
  <2> QED
    BY <1>1, <1>2, <2>1 DEF SaveTypeOK
<1>4. WriteInv /\ SavedIsWritten
  BY <1>1, <1>2, SaveAssumption DEF Save!Init, WriteInv, SavedIsWritten, Save!SavedIsWritten
<1> QED
  BY <1>3, <1>4 DEF SaveInv

\* Nothing changes in the server and its file while a client does something of
\* its own; of the answers only those that were pending come through.
LEMMA ClientSteps ==
  ASSUME SaveInv, NEW c \in Save!Senders, Save!client_main(c) \/ Save!Interrupt(c)
  PROVE  SaveInv'
<1> USE DEF SaveInv
<1>1. CASE Save!Open(c) \/ Save!TestAnswer(c) \/ Save!Pause(c) \/ Save!Interrupt(c)
  <2>1. UNCHANGED <<Save!fixed, save_server, Save!file, Save!notice, save_queue,
                    answer_from_serwer, pending, interrupted>>
    BY <1>1 DEF Save!Open, Save!TestAnswer, Save!Pause, Save!Interrupt
  <2>2. client' \in [Save!Senders -> ClientLabels]
    BY <1>1 DEF ClientLabels, Save!Open, Save!TestAnswer, Save!Pause, Save!Interrupt, Save!Goto, SaveTypeOK
  <2> QED
    BY <2>1, <2>2
    DEF Save!fixed, Save!file, Save!notice, SaveTypeOK, WriteInv, SavedIsWritten,
        Save!SavedIsWritten
<1>2. CASE Save!Send(c)
  <2>1. UNCHANGED <<Save!fixed, save_server, Save!file, answer_from_serwer, pending, interrupted>>
    BY <1>2 DEF Save!Send
  <2>2. client' \in [Save!Senders -> ClientLabels]
    BY <1>2 DEF ClientLabels, Save!Send, Save!Goto, SaveTypeOK
  <2>3. /\ (save_queue' = save_queue /\ notified' = notified) \/ save_queue' = Append(save_queue, c)
        /\ registered' \in BOOLEAN /\ notified' \in BOOLEAN
    BY <1>2 DEF Save!Send, Save!notice, SaveTypeOK
  <2>4. /\ save_queue' \in Seq(Save!Senders)
        /\ notified' => save_queue' # <<>>
    <3>1. /\ save_queue \in Seq(Save!Senders) /\ Append(save_queue, c) \in Seq(Save!Senders)
          /\ Append(save_queue, c) # <<>>
          /\ notified => save_queue # <<>>
      BY DEF SaveTypeOK, WriteInv
    <3> HIDE DEF SaveInv
    <3> QED
      BY <2>3, <3>1
  <2>5. SaveTypeOK'
    BY <2>1, <2>2, <2>3, <2>4 DEF Save!fixed, Save!file, SaveTypeOK
  <2>6. WriteInv'
    BY <2>1, <2>4 DEF Save!fixed, Save!file, WriteInv
  <2>7. SavedIsWritten'
    BY <2>1 DEF Save!fixed, Save!file, SavedIsWritten, Save!SavedIsWritten
  <2> QED
    BY <2>5, <2>6, <2>7
<1>3. CASE Save!Reset(c)
  <2>1. UNCHANGED <<Save!fixed, save_server, Save!file, Save!notice, save_queue, interrupted>>
    BY <1>3 DEF Save!Reset
  <2>2. client' \in [Save!Senders -> ClientLabels]
    BY <1>3 DEF ClientLabels, Save!Reset, Save!Goto, SaveTypeOK
  <2>3. /\ answer_from_serwer' \in [Save!Senders -> Answers]
        /\ pending' \in [Save!Senders -> Answers]
        /\ \A d \in Save!Senders : "saved" \in {answer_from_serwer'[d], pending'[d]} =>
                              "saved" \in {answer_from_serwer[d], pending[d]}
    BY <1>3 DEF Save!Reset, SaveTypeOK, Answers
  <2> QED
    BY <2>1, <2>2, <2>3
    DEF Save!fixed, Save!file, Save!notice, SaveTypeOK, WriteInv, SavedIsWritten,
        Save!SavedIsWritten
<1> QED
  BY <1>1, <1>2, <1>3 DEF Save!client_main, Save!client_a, Save!client_b

\* The one who is answered is told so at once or later, the others nothing.
LEMMA Kills ==
  ASSUME SaveTypeOK, NEW c \in Save!Senders, NEW answer \in {"saved", "full"}, Save!Kill(c, answer)
  PROVE  /\ client' \in [Save!Senders -> ClientLabels]
         /\ answer_from_serwer' \in [Save!Senders -> Answers]
         /\ pending' \in [Save!Senders -> Answers]
         /\ \A d \in Save!Senders : "saved" \in {answer_from_serwer'[d], pending'[d]} =>
                               \/ "saved" \in {answer_from_serwer[d], pending[d]}
                               \/ d = c /\ answer = "saved"
<1>1. CASE client[c] = "reset"
  BY <1>1 DEF Save!Kill, SaveTypeOK, Answers
<1>2. CASE client[c] # "reset"
  BY <1>2 DEF ClientLabels, Save!Kill, SaveTypeOK, Answers
<1> QED
  BY <1>1, <1>2

LEMMA ServerSteps ==
  ASSUME SaveInv, Save!server_main \/ Save!InterruptServer
  PROVE  SaveInv'
<1> USE SaveAssumption DEF SaveInv
<1>0. \A c \in Save!Senders : length[c] \in Nat
  BY DEF SaveTypeOK
<1>1. CASE Save!Answer
  <2>0. Save!Received \in Save!Senders /\ Save!Others \in Seq(Save!Senders)
    BY <1>1, Receives DEF Save!Answer, SaveTypeOK
  <2>1. /\ UNCHANGED <<Save!fixed, size, saved, registered, interrupted>>
        /\ save_server = "loop" /\ save_message = Save!Nobody /\ interrupted = {}
        /\ notified' = FALSE /\ save_queue' = Save!Others
    BY <1>1 DEF Save!Answer, WriteInv
  <2>2. CASE Save!Gone(Save!Received)
    <3>1. save_server' = "ended" /\ UNCHANGED <<save_message, Save!client_>>
      BY <1>1, <2>2 DEF Save!Answer
    <3> QED
      BY <2>0, <2>1, <3>1
      DEF Save!fixed, Save!client_, SaveTypeOK, WriteInv, SavedIsWritten, Save!SavedIsWritten
  <2>3. CASE ~Save!Gone(Save!Received) /\ Save!Full(Save!Received)
    <3>1. /\ Save!Kill(Save!Received, "full")
          /\ save_server' \in {"notify", "loop"} /\ UNCHANGED save_message
      BY <1>1, <2>3 DEF Save!Answer, Save!AfterMessage
    <3> QED
      BY <2>0, <2>1, <3>1, Kills
      DEF Save!fixed, SaveTypeOK, WriteInv, SavedIsWritten, Save!SavedIsWritten
  <2>4. CASE ~Save!Gone(Save!Received) /\ ~Save!Full(Save!Received)
    <3>1. /\ Save!Kill(Save!Received, "saved")
          /\ save_server' = "write" /\ save_message' = Save!Received
      BY <1>1, <2>4 DEF Save!Answer
    <3>2. size + length[Save!Received] <= MAX_FILE_LENGTH
      BY <1>0, <2>0, <2>4 DEF Save!Full, SaveTypeOK
    <3>3. save_message' # Save!Nobody
      BY <2>0, <3>1 DEF Save!Senders, Save!Nobody
    <3>4. SaveTypeOK' /\ WriteInv'
      BY <2>0, <2>1, <3>1, <3>2, <3>3, Kills DEF Save!fixed, SaveTypeOK, WriteInv
    <3>5. \A d \in Save!Senders : "saved" \in {answer_from_serwer'[d], pending'[d]} =>
                            "saved" \in {answer_from_serwer[d], pending[d]} \/ d = save_message'
      BY <2>0, <3>1, Kills
    <3>6. SavedIsWritten'
      BY <2>1, <3>5 DEF SavedIsWritten, Save!SavedIsWritten, Save!Nobody, Save!Senders
    <3> QED
      BY <3>4, <3>6
  <2> QED
    BY <2>2, <2>3, <2>4
<1>2. CASE Save!Write
  <2>1. /\ UNCHANGED <<Save!fixed, Save!notice, save_queue, Save!client_, interrupted>>
        /\ save_server = "write" /\ save_server' \in {"notify", "loop"}
        /\ size' = size + length[save_message] /\ saved' = saved \cup {save_message}
        /\ save_message' = Save!Nobody
    BY <1>2 DEF Save!Write, Save!AfterMessage
  <2>2. save_message \in Save!Senders /\ size' \in Nat /\ size' <= MAX_FILE_LENGTH
    BY <1>0, <2>1 DEF SaveTypeOK, WriteInv
  <2> QED
    BY <2>1, <2>2
    DEF Save!fixed, Save!notice, Save!client_, SaveTypeOK, WriteInv, SavedIsWritten,
        Save!SavedIsWritten
<1>3. CASE Save!AnswerTooEarly
  <2>0. Save!Received \in Save!Senders /\ Save!Others \in Seq(Save!Senders)
    BY <1>3, Receives DEF Save!AnswerTooEarly, SaveTypeOK, WriteInv
  <2>1. /\ UNCHANGED <<Save!fixed, Save!file>>
        /\ save_server = "open" /\ interrupted = {} /\ save_message = Save!Nobody
        /\ notified' = FALSE /\ save_queue' = Save!Others
    BY <1>3 DEF Save!AnswerTooEarly, WriteInv, Save!file
  <2>2. CASE save_server' = "ended" /\ UNCHANGED <<registered, Save!client_, interrupted>>
    BY <2>0, <2>1, <2>2
    DEF Save!fixed, Save!file, Save!client_, SaveTypeOK, WriteInv, SavedIsWritten,
        Save!SavedIsWritten
  <2>3. CASE /\ Save!Kill(Save!Received, "full")
             /\ registered' = TRUE /\ UNCHANGED <<save_server, interrupted>>
    BY <2>0, <2>1, <2>3, Kills
    DEF Save!fixed, Save!file, SaveTypeOK, WriteInv, SavedIsWritten, Save!SavedIsWritten
  <2>4. CASE /\ Save!Kill(Save!Received, "saved")
             /\ save_server' = "ended" /\ interrupted' = {Save!Received}
             /\ UNCHANGED registered
    BY <2>0, <2>1, <2>4, Kills
    DEF Save!fixed, Save!file, SaveTypeOK, WriteInv, SavedIsWritten, Save!SavedIsWritten
  <2> QED
    BY <1>3, <2>2, <2>3, <2>4 DEF Save!AnswerTooEarly
<1>4. CASE Save!OpenFile \/ Save!Reregister
  <2>1. /\ UNCHANGED <<Save!fixed, Save!file, notified, save_queue, Save!client_, interrupted>>
        /\ save_server \in {"open", "notify"} /\ save_server' = "loop" /\ registered' \in BOOLEAN
    BY <1>4 DEF Save!OpenFile, Save!Reregister, Save!notice, SaveTypeOK
  <2> QED
    BY <2>1
    DEF Save!fixed, Save!file, Save!client_, SaveTypeOK, WriteInv, SavedIsWritten,
        Save!SavedIsWritten
<1>5. CASE Save!InterruptServer
  <2>1. /\ UNCHANGED <<Save!fixed, size, saved, Save!notice, save_queue, Save!client_>>
        /\ save_server # "ended" /\ save_server' = "ended" /\ save_message' = Save!Nobody
        /\ interrupted' = IF save_server = "write" THEN {save_message} ELSE {}
    BY <1>5 DEF Save!InterruptServer
  <2>2. save_message = Save!Nobody => save_server # "write"
    BY DEF WriteInv
  <2>3. interrupted' \subseteq Save!Senders /\ interrupted = {}
        /\ \A c \in Save!Senders : c = save_message => c \in interrupted'
    <3>1. save_server = "write" => save_message \in Save!Senders
      BY DEF SaveTypeOK, WriteInv
    <3>2. Save!Nobody \notin Save!Senders
      BY DEF Save!Nobody, Save!Senders
    <3> QED
      BY <2>1, <3>1, <3>2 DEF WriteInv
  <2> QED
    BY <2>1, <2>3
    DEF Save!fixed, Save!notice, Save!client_, SaveTypeOK, WriteInv, SavedIsWritten,
        Save!SavedIsWritten
<1> QED
  BY <1>1, <1>2, <1>3, <1>4, <1>5 DEF Save!server_main, Save!server_a, Save!server_b, Save!server_c

LEMMA SaveStep == SaveInv /\ [Save!Next]_(Save!vars) => SaveInv'
<1> SUFFICES ASSUME SaveInv, [Save!Next]_(Save!vars) PROVE SaveInv'
  OBVIOUS
<1>1. CASE Save!Next
  BY <1>1, ClientSteps, ServerSteps DEF Save!Next
<1>2. CASE UNCHANGED Save!vars
  BY <1>2
  DEF SaveInv, Save!vars, Save!fixed, Save!file, Save!notice, Save!client_, SaveTypeOK,
      WriteInv, SavedIsWritten, Save!SavedIsWritten
<1> QED
  BY <1>1, <1>2

LEMMA SaveInvariant == Save!Spec => []SaveInv
BY SaveInit, SaveStep, PTL DEF Save!Spec

\* Every variable keeps its type: only clients are answered and written.
THEOREM SaveTypeCorrect == Save!Spec => []SaveTypeOK
<1>1. SaveInv => SaveTypeOK
  BY DEF SaveInv
<1> QED
  BY <1>1, SaveInvariant, PTL

\* Who is told that the message is saved finds it in the file, but for the one the
\* server had in hand, and the file keeps its limit (zad2a/server.c:81 to 107).
THEOREM AnswersAreTrue == Save!Spec => []SavedIsWritten
<1>1. SaveInv => SavedIsWritten
  BY DEF SaveInv
<1> QED
  BY <1>1, SaveInvariant, PTL

\* The runs with the chat's variables at rest are runs of the saving server: what is
\* proved of Save!Spec holds where TLC looks.
THEOREM SaveAlone == SaveFairSpec => Save!Spec
<1>1. [InSave(Save!Next)]_allVars => [Save!Next]_(Save!vars)
  BY DEF InSave, allVars
<1> QED
  BY <1>1, PTL DEF SaveFairSpec, Save!Spec

=============================================================================
