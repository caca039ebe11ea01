-------------------------- MODULE RegistriesProofs --------------------------
(***************************************************************************)
(* Proofs about lab10 for any number of clients, any length of the lists   *)
(* and any number of requests: first the registry over streams (zad2, S!), *)
(* then the one over datagrams (zad1, D!).                                 *)
(***************************************************************************)
EXTENDS Registries, SequencesExt, SequenceTheorems, FiniteSetTheorems, WellFoundedInduction, TLAPS

-----------------------------------------------------------------------------
\* Sequences of messages: whether one of a kind T is among them, and only once.

Has(s, T)  == \E k \in DOMAIN s : s[k] \in T
Once(s, T) == \A j, k \in DOMAIN s : s[j] \in T /\ s[k] \in T => j = k

LEMMA NothingInEmpty == \A T : ~Has(<<>>, T) /\ Once(<<>>, T)
BY DEF Has, Once

\* The first message leaves the others.
LEMMA InTail ==
  ASSUME NEW X, NEW T, NEW s \in Seq(X), s # <<>>
  PROVE  /\ Tail(s) \in Seq(X) /\ Head(s) \in X
         /\ Has(Tail(s), T) => Has(s, T)
         /\ Head(s) \in T => Has(s, T)
         /\ Once(s, T) => Once(Tail(s), T)
         /\ Once(s, T) /\ Head(s) \in T => ~Has(Tail(s), T)
         /\ Head(s) \notin T /\ Has(s, T) => Has(Tail(s), T)
<1>1. /\ Tail(s) \in Seq(X) /\ Head(s) \in X /\ Len(s) \in Nat \ {0}
      /\ DOMAIN s = 1 .. Len(s) /\ DOMAIN Tail(s) = 1 .. Len(s) - 1
      /\ Head(s) = s[1] /\ \A k \in 1 .. Len(s) - 1 : Tail(s)[k] = s[k + 1]
  OBVIOUS
<1> DEFINE t == Tail(s)
<1>2. /\ t \in Seq(X) /\ DOMAIN t = 1 .. Len(s) - 1
      /\ \A k \in 1 .. Len(s) - 1 : t[k] = s[k + 1]
  BY <1>1
<1> HIDE DEF t
<1>3. Has(t, T) => Has(s, T)
  BY <1>1, <1>2 DEF Has
<1>4. s[1] \in T => Has(s, T)
  BY <1>1 DEF Has
<1>5. ASSUME Once(s, T) PROVE Once(t, T)
  <2> SUFFICES ASSUME NEW j \in DOMAIN t, NEW k \in DOMAIN t, t[j] \in T, t[k] \in T
               PROVE  j = k
    BY DEF Once
  <2>1. /\ j \in Int /\ j + 1 \in DOMAIN s /\ s[j + 1] \in T
        /\ k \in Int /\ k + 1 \in DOMAIN s /\ s[k + 1] \in T
    BY <1>1, <1>2
  <2>2. j + 1 = k + 1
    BY <1>5, <2>1 DEF Once
  <2> QED
    BY <2>1, <2>2
<1>6. Once(s, T) /\ s[1] \in T => ~Has(t, T)
  <2> SUFFICES ASSUME Once(s, T), s[1] \in T, NEW k \in DOMAIN t, t[k] \in T PROVE FALSE
    BY DEF Has
  <2>1. k + 1 \in DOMAIN s /\ 1 \in DOMAIN s /\ s[k + 1] \in T /\ k + 1 # 1
    BY <1>1, <1>2
  <2> QED
    BY <2>1 DEF Once
<1>7. s[1] \notin T /\ Has(s, T) => Has(t, T)
  <2> SUFFICES ASSUME s[1] \notin T, NEW k \in DOMAIN s, s[k] \in T PROVE Has(t, T)
    BY DEF Has
  <2>1. k # 1 /\ k - 1 \in DOMAIN t /\ t[k - 1] = s[k]
    BY <1>1, <1>2
  <2> QED
    BY <2>1 DEF Has
<1> QED
  BY <1>1, <1>3, <1>4, <1>5, <1>6, <1>7 DEF t

\* A message is added at the end.
LEMMA InAppend ==
  ASSUME NEW X, NEW T, NEW s \in Seq(X), NEW m \in X
  PROVE  /\ Append(s, m) \in Seq(X)
         /\ Has(Append(s, m), T) <=> Has(s, T) \/ m \in T
         /\ Once(s, T) /\ (Has(s, T) => m \notin T) => Once(Append(s, m), T)
<1> DEFINE t == Append(s, m)
<1>1. /\ t \in Seq(X) /\ Len(s) \in Nat /\ DOMAIN s = 1 .. Len(s)
      /\ DOMAIN t = 1 .. Len(s) + 1 /\ t[Len(s) + 1] = m
      /\ \A k \in 1 .. Len(s) : t[k] = s[k]
  OBVIOUS
<1> HIDE DEF t
<1>2. Has(t, T) <=> Has(s, T) \/ m \in T
  <2>1. ASSUME NEW k \in DOMAIN t, t[k] \in T PROVE Has(s, T) \/ m \in T
    BY <1>1, <2>1 DEF Has
  <2>2. Has(s, T) => Has(t, T)
    BY <1>1 DEF Has
  <2>3. m \in T => Has(t, T)
    <3>1. Len(s) + 1 \in DOMAIN t
      BY <1>1
    <3> QED
      BY <1>1, <3>1 DEF Has
  <2> QED
    BY <2>1, <2>2, <2>3 DEF Has
<1>3. ASSUME Once(s, T), Has(s, T) => m \notin T PROVE Once(t, T)
  <2> SUFFICES ASSUME NEW j \in DOMAIN t, NEW k \in DOMAIN t, t[j] \in T, t[k] \in T, j < k
               PROVE  FALSE
    BY <1>1 DEF Once
  <2>1. j \in DOMAIN s /\ s[j] \in T
    BY <1>1
  <2>2. m \notin T
    BY <1>3, <2>1 DEF Has
  <2>3. k \in DOMAIN s /\ s[k] \in T
    BY <1>1, <2>2
  <2> QED
    BY <1>3, <2>1, <2>3 DEF Once
<1> QED
  BY <1>1, <1>2, <1>3 DEF t

\* A message is taken out.
LEMMA InRemoveAt ==
  ASSUME NEW X, NEW s \in Seq(X), NEW k \in DOMAIN s
  PROVE  /\ RemoveAt(s, k) \in Seq(X) /\ Len(RemoveAt(s, k)) = Len(s) - 1
         /\ \A j \in 1 .. Len(s) - 1 :
              RemoveAt(s, k)[j] = IF j < k THEN s[j] ELSE s[j + 1]
<1> DEFINE a == SubSeq(s, 1, k - 1)
           b == SubSeq(s, k + 1, Len(s))
<1>1. Len(s) \in Nat /\ k \in 1 .. Len(s) /\ \A j \in 1 .. Len(s) : s[j] \in X
  OBVIOUS
<1>2. a \in Seq(X) /\ Len(a) = k - 1 /\ \A j \in 1 .. k - 1 : a[j] = s[j]
  BY <1>1, SubSeqProperties
<1>3. b \in Seq(X) /\ Len(b) = Len(s) - k /\ \A j \in 1 .. Len(s) - k : b[j] = s[j + k]
  <2>1. \A j \in 1 .. Len(s) - k : (k + 1) + j - 1 = j + k
    BY <1>1
  <2> QED
    BY <1>1, <2>1, SubSeqProperties
<1> HIDE DEF a, b
<1>4. a \o b \in Seq(X) /\ Len(a \o b) = Len(a) + Len(b)
  BY <1>2, <1>3, ConcatProperties
<1>5. /\ \A j \in 1 .. Len(a) : (a \o b)[j] = a[j]
      /\ \A j \in 1 .. Len(a) + Len(b) : j > Len(a) => (a \o b)[j] = b[j - Len(a)]
  <2>1. a \in Seq(X) /\ b \in Seq(X)
    BY <1>2, <1>3
  <2> QED
    BY <2>1
<1>6. ASSUME NEW j \in 1 .. Len(s) - 1
      PROVE  (a \o b)[j] = IF j < k THEN s[j] ELSE s[j + 1]
  <2>0. j \in Int /\ k \in Int /\ Len(s) \in Int
    BY <1>1
  <2>1. CASE j < k
    BY <1>1, <1>2, <1>5, <2>0, <2>1
  <2>2. CASE ~(j < k)
    <3>1. j - (k - 1) \in 1 .. Len(s) - k /\ (j - (k - 1)) + k = j + 1
      BY <1>1, <2>0, <2>2
    <3>2. j \in 1 .. Len(a) + Len(b) /\ j > Len(a) /\ Len(a) = k - 1
      BY <1>1, <1>2, <1>3, <2>0, <2>2
    <3>3. (a \o b)[j] = b[j - (k - 1)]
      BY <1>5, <3>2
    <3>4. b[j - (k - 1)] = s[(j - (k - 1)) + k]
      BY <1>3, <3>1
    <3> QED
      BY <2>2, <3>1, <3>3, <3>4
  <2> QED
    BY <2>1, <2>2
<1>7. Len(a) + Len(b) = Len(s) - 1
  BY <1>1, <1>2, <1>3
<1> QED
  BY <1>4, <1>6, <1>7 DEF a, b, RemoveAt

-----------------------------------------------------------------------------
\* zad2: the list

\* A new client's variable is linked before the others.
LEMMA LinkedFirst ==
  ASSUME NEW X, NEW s \in Seq(X), NEW c \in X
  PROVE  /\ <<c>> \o s \in Seq(X) /\ ToSet(<<c>> \o s) = ToSet(s) \cup {c}
         /\ IsInjective(s) /\ c \notin ToSet(s) => IsInjective(<<c>> \o s)
<1> DEFINE t == <<c>> \o s
<1>1. /\ t \in Seq(X) /\ Len(s) \in Nat /\ DOMAIN s = 1 .. Len(s) /\ DOMAIN t = 1 .. Len(s) + 1
      /\ t[1] = c /\ \A k \in 1 .. Len(s) : t[k + 1] = s[k]
  OBVIOUS
<1> HIDE DEF t
<1>2. \A k \in DOMAIN t : k = 1 \/ (k - 1 \in DOMAIN s /\ t[k] = s[k - 1])
  <2> TAKE k \in DOMAIN t
  <2>1. k # 1 => k - 1 \in 1 .. Len(s) /\ (k - 1) + 1 = k
    BY <1>1
  <2> QED
    BY <1>1, <2>1
<1>3. ToSet(t) = ToSet(s) \cup {c}
  <2>1. ToSet(t) \subseteq ToSet(s) \cup {c}
    BY <1>1, <1>2 DEF ToSet
  <2>2. c \in ToSet(t)
    <3>1. 1 \in DOMAIN t
      BY <1>1
    <3> QED
      BY <1>1, <3>1 DEF ToSet
  <2>3. ToSet(s) \subseteq ToSet(t)
    <3> SUFFICES ASSUME NEW k \in DOMAIN s PROVE s[k] \in ToSet(t)
      BY DEF ToSet
    <3>1. k + 1 \in DOMAIN t /\ t[k + 1] = s[k]
      BY <1>1
    <3> QED
      BY <3>1 DEF ToSet
  <2> QED
    BY <2>1, <2>2, <2>3
<1>4. ASSUME IsInjective(s), c \notin ToSet(s) PROVE IsInjective(t)
  <2>1. \A k \in DOMAIN s : s[k] # c
    BY <1>4 DEF ToSet
  <2>2. \A j, k \in DOMAIN s : s[j] = s[k] => j = k
    BY <1>4 DEF IsInjective
  <2> SUFFICES ASSUME NEW j \in DOMAIN t, NEW k \in DOMAIN t, t[j] = t[k] PROVE j = k
    BY DEF IsInjective
  <2>3. j = 1 <=> k = 1
    BY <1>1, <1>2, <2>1
  <2>4. j # 1 => j - 1 = k - 1
    BY <1>2, <2>2, <2>3
  <2> QED
    BY <1>1, <2>3, <2>4
<1> QED
  BY <1>1, <1>3, <1>4 DEF t

\* Who is linked once and unlinked is not linked any more.
LEMMA Unlinked ==
  ASSUME NEW X, NEW s \in Seq(X), NEW c \in ToSet(s), IsInjective(s)
  PROVE  /\ RemoveFirst(s, c) \in Seq(X)
         /\ ToSet(RemoveFirst(s, c)) = ToSet(s) \ {c}
         /\ IsInjective(RemoveFirst(s, c))
<1>0. Len(s) \in Nat /\ DOMAIN s = 1 .. Len(s)
  OBVIOUS
<1>1. PICK k \in 1 .. Len(s) : s[k] = c
  BY DEF ToSet
<1>2. \A i, j \in 1 .. Len(s) : s[i] = s[j] => i = j
  BY <1>0 DEF IsInjective
<1> DEFINE t == RemoveAt(s, k)
<1>3. RemoveFirst(s, c) = t
  <2>1. {j \in 1 .. Len(s) : s[j] = c} = {k}
    BY <1>1, <1>2
  <2>2. Min({k}) = k
    BY DEF Min
  <2> QED
    BY <1>1, <2>1, <2>2 DEF RemoveFirst, SelectInSeq
<1>4. /\ t \in Seq(X) /\ DOMAIN t = 1 .. Len(s) - 1
      /\ \A j \in 1 .. Len(s) - 1 : t[j] = IF j < k THEN s[j] ELSE s[j + 1]
  BY <1>0, <1>1, InRemoveAt
<1> HIDE DEF t
<1> DEFINE at(j) == IF j < k THEN j ELSE j + 1
<1>5. \A j \in DOMAIN t : at(j) \in 1 .. Len(s) /\ at(j) # k /\ t[j] = s[at(j)]
  BY <1>0, <1>1, <1>4
<1>6. \A i \in 1 .. Len(s) : i # k => \E j \in DOMAIN t : at(j) = i
  <2> SUFFICES ASSUME NEW i \in 1 .. Len(s), i # k PROVE \E j \in DOMAIN t : at(j) = i
    OBVIOUS
  <2>1. CASE i < k
    <3>1. i \in DOMAIN t /\ at(i) = i
      BY <1>0, <1>1, <1>4, <2>1
    <3> QED
      BY <3>1
  <2>2. CASE i > k
    <3>1. i - 1 \in DOMAIN t /\ at(i - 1) = i
      BY <1>0, <1>1, <1>4, <2>2
    <3> QED
      BY <3>1
  <2> QED
    BY <1>0, <2>1, <2>2
<1>7. \A i, j \in DOMAIN t : at(i) = at(j) => i = j
  BY <1>0, <1>1, <1>4
<1> HIDE DEF at
<1>8. IsInjective(t)
  BY <1>2, <1>5, <1>7 DEF IsInjective
<1>9. ToSet(t) = ToSet(s) \ {c}
  <2>1. \A j \in DOMAIN t : t[j] \in ToSet(s) \ {c}
    BY <1>0, <1>1, <1>2, <1>5 DEF ToSet
  <2>2. \A i \in DOMAIN s : s[i] # c => s[i] \in ToSet(t)
    BY <1>0, <1>1, <1>5, <1>6 DEF ToSet
  <2> QED
    BY <2>1, <2>2 DEF ToSet
<1> QED
  BY <1>3, <1>4, <1>8, <1>9

-----------------------------------------------------------------------------
\* zad2: the invariant

\* The operators of the registry's own SequencesExt are these.
LEMMA SameOperators ==
  /\ \A s, c : S!RemoveFirst(s, c) = RemoveFirst(s, c)
  /\ \A s : S!ToSet(s) = ToSet(s)
  /\ \A s : S!IsInjective(s) <=> IsInjective(s)
BY DEF S!RemoveFirst, S!SelectInSeq, S!RemoveAt, S!Min, RemoveFirst, SelectInSeq, RemoveAt, Min,
       S!ToSet, ToSet, S!IsInjective, IsInjective

Kinds == {"none", "MY_NAME_IS", "UNREGISTER", "LIST_CLIENTS", "CLIENT_INFO", "INFO_RESPONSE",
          "unknown"}
Messages == [kind : Kinds, no : Nat]
Answers  == {"list", "question", "info", "failure"}

StreamTypeOK ==
  /\ process \in {"running", "crashed", "killed", "exited"}
  /\ backlog \subseteq S!Users
  /\ thread \in [S!Users -> {"none", "start", "refused", "recv", "ended", "try", "reply", "write"}]
  /\ request \in [S!Users -> Messages] /\ asked \in [S!Users -> S!Users \cup {S!NoUser}]
  /\ linked \in Seq(S!Users)
  /\ client_list_mutex \in BOOLEAN /\ info_producer_mutex \in BOOLEAN
  /\ info_consumer_mutex \in BOOLEAN
  /\ shared_info \in S!Users \cup {S!NoUser}
  /\ toServer \in [S!Users -> Seq(Messages)] /\ toClient \in [S!Users -> Seq(Answers)]
  /\ stream_main \in [S!Users -> {"off", "connected", "waitList", "menu", "waitInfo", "gone",
                                  "silent", "garbled", "hung"}]
  /\ stream_budget \in Nat /\ crossed \in BOOLEAN

\* A thread is started for a client once, after it has connected.
Connected ==
  \A c \in S!Users :
    /\ c \in backlog => thread[c] = "none" /\ stream_main[c] # "off"
    /\ stream_main[c] = "off" => thread[c] = "none"

\* Where the answer is: a question on its way to the client, or the response back,
\* or in the hands of the client's thread, or in shared_info.
Questions == {"question"}
Responses == {m \in Messages : m.kind = "INFO_RESPONSE"}
Asking(d)    == Has(toClient[d], Questions)
Responding(d) == Has(toServer[d], Responses)
Writing(d)   == thread[d] = "write"
Ready(d)     == ~info_consumer_mutex /\ shared_info = d

\* Of the client asked there is one of these at most, and of the others none;
\* nobody else asks until the one who asked has read the answer.
Awaited(d) == \E c \in S!Users : thread[c] = "try" /\ asked[c] = d
MailboxInv ==
  /\ \A c, d \in S!Users : thread[c] \in {"try", "reply"} /\ thread[d] \in {"try", "reply"} => c = d
  /\ \A c \in S!Users : thread[c] = "reply" => shared_info = asked[c]
  /\ ~info_consumer_mutex => shared_info \in S!Users
  /\ \A d \in S!Users :
       /\ Asking(d) \/ Responding(d) \/ Writing(d) \/ Ready(d) => Awaited(d)
       /\ Once(toClient[d], Questions) /\ Once(toServer[d], Responses)
       /\ Asking(d) => ~Responding(d) /\ ~Writing(d) /\ ~Ready(d)
       /\ Responding(d) => ~Writing(d) /\ ~Ready(d)
       /\ Writing(d) => ~Ready(d)

StreamInv ==
  StreamTypeOK /\ Connected /\ S!ListedThreadsRun /\ (crossed \/ MailboxInv)

LEMMA StreamStarts == S!Init => StreamInv
<1> SUFFICES ASSUME S!Init PROVE StreamInv
  OBVIOUS
<1>1. StreamTypeOK
  <2>1. S!None \in Messages /\ STREAM_BUDGET \in Nat
    BY RegistriesAssumption DEF S!None, Messages, Kinds
  <2>2. <<>> \in Seq(Messages) /\ <<>> \in Seq(Answers) /\ <<>> \in Seq(S!Users)
    OBVIOUS
  <2> QED
    BY <2>1, <2>2 DEF S!Init, StreamTypeOK
<1>2. Connected
  BY DEF S!Init, Connected
<1>3. S!ListedThreadsRun
  BY DEF S!Init, S!ListedThreadsRun, S!IsInjective, S!ToSet
<1>4. MailboxInv
  BY NothingInEmpty DEF S!Init, MailboxInv, Asking, Responding, Writing, Ready
<1> QED
  BY <1>1, <1>2, <1>3, <1>4 DEF StreamInv

\* What is sent is received or refused.
LEMMA SendTypes ==
  ASSUME StreamTypeOK, NEW d \in S!Users, NEW m \in Answers, S!Send(d, m)
  PROVE  /\ toClient' \in [S!Users -> Seq(Answers)]
         /\ process' \in {process, "killed"}
<1> USE DEF StreamTypeOK, S!Send
<1>1. CASE S!Gone(d)
  BY <1>1
<1>2. CASE ~S!Gone(d)
  <2>1. Append(toClient[d], m) \in Seq(Answers)
    OBVIOUS
  <2> QED
    BY <1>2, <2>1
<1> QED
  BY <1>1, <1>2

LEMMA ReceiveTypes ==
  ASSUME StreamTypeOK, NEW c \in S!Users, NEW kind \in Kinds,
         NEW to \in {"recv", "ended", "try", "write"}, S!Receive(c, kind, to)
  PROVE  /\ thread[c] = "recv" /\ thread' = [thread EXCEPT ![c] = to]
         /\ request' \in [S!Users -> Messages] /\ request'[c].kind = kind
         /\ toServer' \in [S!Users -> Seq(Messages)]
         /\ \A d \in S!Users : d # c => toServer'[d] = toServer[d]
         /\ S!Closed(c) => toServer' = toServer
         /\ ~S!Closed(c) => /\ toServer[c] # <<>> /\ Head(toServer[c]).kind = kind
                            /\ toServer'[c] = Tail(toServer[c])
<1> USE DEF StreamTypeOK, S!Receive, S!Goto
<1>1. CASE S!Closed(c)
  BY <1>1
<1>2. CASE ~S!Closed(c)
  <2>0. toServer[c] \in Seq(Messages) /\ toServer[c] # <<>>
    BY <1>2
  <2>1. Tail(toServer[c]) \in Seq(Messages) /\ Head(toServer[c]) \in Messages
    BY <2>0, InTail
  <2>2. toServer' = [toServer EXCEPT ![c] = Tail(@)] /\ request' = [request EXCEPT ![c] = Head(toServer[c])]
    BY <1>2
  <2>3. /\ toServer' \in [S!Users -> Seq(Messages)] /\ request' \in [S!Users -> Messages]
        /\ request'[c] = Head(toServer[c]) /\ toServer'[c] = Tail(toServer[c])
        /\ \A d \in S!Users : d # c => toServer'[d] = toServer[d]
    BY <2>1, <2>2
  <2> QED
    BY <1>2, <2>0, <2>3
<1> QED
  BY <1>1, <1>2

\* Nothing but a question asks, and nothing but a response responds.
LEMMA SendQuiet ==
  ASSUME StreamTypeOK, NEW d \in S!Users, NEW m \in Answers \ Questions, S!Send(d, m)
  PROVE  \A x \in S!Users :
           /\ Asking(x)' => Asking(x)
           /\ Once(toClient[x], Questions) => Once(toClient[x], Questions)'
<1> SUFFICES ASSUME NEW x \in S!Users
             PROVE  /\ Asking(x)' => Asking(x)
                    /\ Once(toClient[x], Questions) => Once(toClient[x], Questions)'
  OBVIOUS
<1>1. toClient[x] \in Seq(Answers)
  BY DEF StreamTypeOK
<1>2. CASE toClient'[x] = toClient[x]
  BY <1>2 DEF Asking
<1>3. CASE toClient'[x] = Append(toClient[x], m)
  <2>1. /\ Has(Append(toClient[x], m), Questions) <=> Has(toClient[x], Questions) \/ m \in Questions
        /\ Once(toClient[x], Questions) => Once(Append(toClient[x], m), Questions)
    BY <1>1, InAppend
  <2> QED
    BY <1>3, <2>1 DEF Asking
<1>4. toClient'[x] = toClient[x] \/ toClient'[x] = Append(toClient[x], m)
  BY DEF S!Send, StreamTypeOK
<1> QED
  BY <1>2, <1>3, <1>4

LEMMA TakeQuiet ==
  ASSUME StreamTypeOK, NEW x \in S!Users,
         \/ toServer'[x] = toServer[x]
         \/ toServer[x] # <<>> /\ toServer'[x] = Tail(toServer[x])
         \/ \E m \in Messages \ Responses : toServer'[x] = Append(toServer[x], m)
  PROVE  /\ Responding(x)' => Responding(x)
         /\ Once(toServer[x], Responses) => Once(toServer[x], Responses)'
<1>1. toServer[x] \in Seq(Messages)
  BY DEF StreamTypeOK
<1>2. CASE toServer'[x] = toServer[x]
  BY <1>2 DEF Responding
<1>3. CASE toServer[x] # <<>> /\ toServer'[x] = Tail(toServer[x])
  <2>1. /\ Has(Tail(toServer[x]), Responses) => Has(toServer[x], Responses)
        /\ Once(toServer[x], Responses) => Once(Tail(toServer[x]), Responses)
    BY <1>1, <1>3, InTail
  <2> QED
    BY <1>3, <2>1 DEF Responding
<1>4. ASSUME NEW m \in Messages \ Responses, toServer'[x] = Append(toServer[x], m)
      PROVE  /\ Responding(x)' => Responding(x)
             /\ Once(toServer[x], Responses) => Once(toServer[x], Responses)'
  <2>1. /\ Has(Append(toServer[x], m), Responses) <=> Has(toServer[x], Responses) \/ m \in Responses
        /\ Once(toServer[x], Responses) => Once(Append(toServer[x], m), Responses)
    BY <1>1, InAppend
  <2> QED
    BY <1>4, <2>1 DEF Responding
<1> QED
  BY <1>2, <1>3, <1>4

\* Steps that have nothing to do with the mailbox.
BusyThread == {"try", "reply", "write"}
LEMMA MailboxKept ==
  ASSUME MailboxInv, asked' = asked, info_consumer_mutex' = info_consumer_mutex,
         shared_info' = shared_info,
         \A x \in S!Users :
           /\ thread'[x] = thread[x] \/ (thread[x] \notin BusyThread /\ thread'[x] \notin BusyThread)
           /\ Asking(x)' => Asking(x)
           /\ Once(toClient[x], Questions) => Once(toClient[x], Questions)'
           /\ Responding(x)' => Responding(x)
           /\ Once(toServer[x], Responses) => Once(toServer[x], Responses)'
  PROVE  MailboxInv'
<1>1. \A x \in S!Users : \A l \in BusyThread : thread'[x] = l <=> thread[x] = l
  OBVIOUS
<1>2. \A x \in S!Users : /\ thread'[x] = "try" <=> thread[x] = "try"
                         /\ thread'[x] = "reply" <=> thread[x] = "reply"
                         /\ thread'[x] = "write" <=> thread[x] = "write"
  BY <1>1 DEF BusyThread
<1>3. \A x \in S!Users : (Awaited(x)' <=> Awaited(x)) /\ (Writing(x)' <=> Writing(x)) /\ (Ready(x)' <=> Ready(x))
  BY <1>2 DEF Awaited, Writing, Ready
<1>4. \A x \in S!Users :
        /\ Asking(x)' \/ Responding(x)' \/ Writing(x)' \/ Ready(x)' => Awaited(x)'
        /\ Once(toClient[x], Questions)' /\ Once(toServer[x], Responses)'
        /\ Asking(x)' => ~Responding(x)' /\ ~Writing(x)' /\ ~Ready(x)'
        /\ Responding(x)' => ~Writing(x)' /\ ~Ready(x)'
        /\ Writing(x)' => ~Ready(x)'
  BY <1>3 DEF MailboxInv
<1>5. /\ \A c, d \in S!Users : thread'[c] \in {"try", "reply"} /\ thread'[d] \in {"try", "reply"} => c = d
      /\ \A c \in S!Users : thread'[c] = "reply" => shared_info' = asked'[c]
      /\ ~info_consumer_mutex' => shared_info' \in S!Users
  BY <1>2 DEF MailboxInv
<1> QED
  BY <1>4, <1>5 DEF MailboxInv

\* Steps that leave the list.
LEMMA ListKept ==
  ASSUME S!ListedThreadsRun, linked' = linked,
         \A x \in S!Users :
           thread'[x] \in {"none", "start", "ended"} <=> thread[x] \in {"none", "start", "ended"}
  PROVE  S!ListedThreadsRun'
BY DEF S!ListedThreadsRun, S!ToSet, S!IsInjective

-----------------------------------------------------------------------------
\* zad2: the steps of the server

LEMMA AcceptKeeps ==
  ASSUME StreamInv, NEW c \in S!Users, S!Accept(c)
  PROVE  StreamInv'
<1> USE DEF StreamInv, S!Accept, S!streams
<1>0. c \in backlog /\ thread[c] = "none" /\ stream_main[c] # "off"
  BY DEF Connected
<1>1. StreamTypeOK'
  BY DEF StreamTypeOK
<1>2. Connected'
  BY <1>0 DEF Connected, StreamTypeOK
<1>3. S!ListedThreadsRun'
  BY <1>0, ListKept DEF StreamTypeOK
<1>4. MailboxInv => MailboxInv'
  BY <1>0, MailboxKept DEF StreamTypeOK, BusyThread, Asking, Responding
<1> QED
  BY <1>1, <1>2, <1>3, <1>4

LEMMA StartKeeps ==
  ASSUME StreamInv, NEW c \in S!Users, S!Start(c)
  PROVE  StreamInv'
<1> USE DEF StreamInv, S!Start, S!Goto, S!streams
<1>0. /\ thread[c] = "start" /\ linked' = <<c>> \o linked /\ linked \in Seq(S!Users)
      /\ \/ thread' = [thread EXCEPT ![c] = "refused"]
         \/ thread' = [thread EXCEPT ![c] = "recv"]
      /\ client_list_mutex' \in BOOLEAN
  BY DEF StreamTypeOK
<1>1. StreamTypeOK'
  <2>1. linked' \in Seq(S!Users)
    BY <1>0, LinkedFirst
  <2>2. thread' \in [S!Users -> {"none", "start", "refused", "recv", "ended", "try", "reply", "write"}]
    BY <1>0 DEF StreamTypeOK
  <2> QED
    BY <1>0, <2>1, <2>2 DEF StreamTypeOK
<1>2. Connected'
  BY <1>0 DEF Connected, StreamTypeOK
<1>3. S!ListedThreadsRun'
  <2>1. /\ IsInjective(linked)
        /\ ToSet(linked) = {x \in S!Users : thread[x] \notin {"none", "start", "ended"}}
    BY SameOperators DEF S!ListedThreadsRun
  <2>2. c \notin ToSet(linked)
    BY <1>0, <2>1
  <2>3. IsInjective(linked') /\ ToSet(linked') = ToSet(linked) \cup {c}
    BY <1>0, <2>1, <2>2, LinkedFirst
  <2>4. ToSet(linked') = {x \in S!Users : thread'[x] \notin {"none", "start", "ended"}}
    <3>1. \A x \in S!Users : thread'[x] = thread[x] \/ x = c
      BY <1>0 DEF StreamTypeOK
    <3>2. thread'[c] \in {"refused", "recv"}
      BY <1>0 DEF StreamTypeOK
    <3> QED
      BY <2>1, <2>3, <3>1, <3>2
  <2> QED
    BY <2>3, <2>4, SameOperators DEF S!ListedThreadsRun
<1>4. MailboxInv => MailboxInv'
  BY <1>0, MailboxKept DEF StreamTypeOK, BusyThread, Asking, Responding
<1> QED
  BY <1>1, <1>2, <1>3, <1>4

LEMMA UninitializedKeeps ==
  ASSUME StreamInv, NEW c \in S!Users, S!Uninitialized(c)
  PROVE  StreamInv'
<1> USE DEF StreamInv, S!Uninitialized, S!streams, S!locks
<1>1. StreamTypeOK'
  <2>1. PICK kind \in Kinds : request' = [request EXCEPT ![c] = [kind |-> kind, no |-> 0]]
    BY DEF Kinds
  <2>2. [kind |-> kind, no |-> 0] \in Messages
    BY DEF Messages
  <2> QED
    BY <2>1, <2>2 DEF StreamTypeOK
<1>2. Connected'
  BY DEF Connected
<1>3. S!ListedThreadsRun'
  BY ListKept
<1>4. MailboxInv => MailboxInv'
  BY MailboxKept DEF Asking, Responding
<1> QED
  BY <1>1, <1>2, <1>3, <1>4

\* A request that is carried out at once.
LEMMA ReceiveQuiet ==
  ASSUME StreamTypeOK, NEW c \in S!Users, NEW kind \in Kinds,
         NEW to \in {"recv", "ended", "try", "write"}, S!Receive(c, kind, to)
  PROVE  \A x \in S!Users :
           /\ Responding(x)' => Responding(x)
           /\ Once(toServer[x], Responses) => Once(toServer[x], Responses)'
<1>1. \A x \in S!Users : \/ toServer'[x] = toServer[x]
                         \/ toServer[x] # <<>> /\ toServer'[x] = Tail(toServer[x])
  BY ReceiveTypes
<1> QED
  BY <1>1, TakeQuiet

LEMMA ListRequestsKeep ==
  ASSUME StreamInv, NEW c \in S!Users, S!MyNameIs(c) \/ S!ListClients(c)
  PROVE  StreamInv'
<1> USE DEF StreamInv
<1>0. PICK kind \in Kinds : S!Receive(c, kind, "recv")
  BY DEF S!MyNameIs, S!ListClients, Kinds
<1>1. /\ S!Send(c, "list") /\ client_list_mutex' \in BOOLEAN
      /\ UNCHANGED <<backlog, asked, linked, info_producer_mutex, info_consumer_mutex,
                     shared_info, stream_main, stream_budget, crossed>>
  BY DEF S!MyNameIs, S!ListClients, S!locks, StreamTypeOK
<1>2. thread' = thread
  BY <1>0, ReceiveTypes DEF StreamTypeOK
<1>3. StreamTypeOK'
  BY <1>0, <1>1, <1>2, ReceiveTypes, SendTypes DEF StreamTypeOK, Answers
<1>4. Connected'
  BY <1>1, <1>2 DEF Connected
<1>5. S!ListedThreadsRun'
  BY <1>1, <1>2, ListKept
<1>6. MailboxInv => MailboxInv'
  BY <1>0, <1>1, <1>2, ReceiveQuiet, SendQuiet, MailboxKept DEF Answers, Questions
<1> QED
  BY <1>1, <1>3, <1>4, <1>5, <1>6

LEMMA UnregisterKeeps ==
  ASSUME StreamInv, NEW c \in S!Users, S!Unregister(c)
  PROVE  StreamInv'
<1> USE DEF StreamInv
<1>0. S!Receive(c, "UNREGISTER", "ended") /\ "UNREGISTER" \in Kinds
  BY DEF S!Unregister, Kinds
<1>1. /\ linked' = RemoveFirst(linked, c)
      /\ UNCHANGED <<process, backlog, asked, S!locks, shared_info, toClient, stream_main,
                     stream_budget, crossed>>
  BY SameOperators DEF S!Unregister
<1>2. thread[c] = "recv" /\ thread' = [thread EXCEPT ![c] = "ended"]
  BY <1>0, ReceiveTypes
<1>3. /\ IsInjective(linked) /\ linked \in Seq(S!Users)
      /\ ToSet(linked) = {x \in S!Users : thread[x] \notin {"none", "start", "ended"}}
  BY SameOperators DEF S!ListedThreadsRun, StreamTypeOK
<1>4. c \in ToSet(linked)
  BY <1>2, <1>3
<1>5. linked' \in Seq(S!Users) /\ ToSet(linked') = ToSet(linked) \ {c} /\ IsInjective(linked')
  BY <1>1, <1>3, <1>4, Unlinked
<1>6. StreamTypeOK'
  BY <1>0, <1>1, <1>2, <1>5, ReceiveTypes DEF StreamTypeOK, S!locks
<1>7. Connected'
  BY <1>1, <1>2 DEF Connected, StreamTypeOK
<1>8. S!ListedThreadsRun'
  <2>1. ToSet(linked') = {x \in S!Users : thread'[x] \notin {"none", "start", "ended"}}
    BY <1>2, <1>3, <1>5 DEF StreamTypeOK
  <2> QED
    BY <1>5, <2>1, SameOperators DEF S!ListedThreadsRun
<1>9. MailboxInv => MailboxInv'
  BY <1>0, <1>1, <1>2, ReceiveQuiet, MailboxKept DEF S!locks, StreamTypeOK, BusyThread, Asking
<1> QED
  BY <1>1, <1>6, <1>7, <1>8, <1>9

\* While nobody waits for an answer there is none.
LEMMA NobodyWaits ==
  ASSUME MailboxInv, \A x \in S!Users : thread[x] \notin {"try", "reply"}
  PROVE  \A x \in S!Users : ~Asking(x) /\ ~Responding(x) /\ ~Writing(x) /\ ~Ready(x)
BY DEF MailboxInv, Awaited

LEMMA AskClientKeeps ==
  ASSUME StreamInv, NEW c \in S!Users, S!AskClient(c)
  PROVE  StreamInv'
<1> USE DEF StreamInv
<1>0. S!Receive(c, "CLIENT_INFO", "try") /\ "CLIENT_INFO" \in Kinds
  BY DEF S!AskClient, Kinds
<1>1. /\ UNCHANGED <<backlog, linked, S!locks, shared_info, stream_main, stream_budget>>
      /\ crossed' = (crossed \/ \E d \in S!Users : thread[d] \in {"try", "reply"})
  BY DEF S!AskClient
<1>2. thread[c] = "recv" /\ thread' = [thread EXCEPT ![c] = "try"]
  BY <1>0, ReceiveTypes
<1>3. \/ \E d \in S!Users : asked' = [asked EXCEPT ![c] = d] /\ S!Send(d, "question")
      \/ process' = "crashed" /\ asked' = asked /\ toClient' = toClient
  <2>1. CASE request'[c].no < Len(linked)
    <3>1. request'[c].no \in Nat
      BY <1>0, ReceiveTypes DEF Messages
    <3>2. request'[c].no + 1 \in 1 .. Len(linked)
      <4>1. Len(linked) \in Nat
        BY DEF StreamTypeOK
      <4> QED
        BY <2>1, <3>1, <4>1
    <3>3. linked[request'[c].no + 1] \in S!Users
      BY <3>2 DEF StreamTypeOK
    <3> QED
      BY <2>1, <3>3 DEF S!AskClient
  <2>2. CASE ~(request'[c].no < Len(linked))
    BY <2>2 DEF S!AskClient
  <2> QED
    BY <2>1, <2>2
<1>4. asked' \in [S!Users -> S!Users \cup {S!NoUser}]
  BY <1>3 DEF StreamTypeOK
<1>5. toClient' \in [S!Users -> Seq(Answers)] /\ process' \in {process, "killed", "crashed"}
  BY <1>3, SendTypes DEF StreamTypeOK, Answers
<1>6. StreamTypeOK'
  BY <1>0, <1>1, <1>2, <1>4, <1>5, ReceiveTypes DEF StreamTypeOK, S!locks
<1>7. Connected'
  BY <1>1, <1>2 DEF Connected, StreamTypeOK
<1>8. S!ListedThreadsRun'
  BY <1>1, <1>2, ListKept DEF StreamTypeOK
<1>9. ASSUME MailboxInv, ~crossed' PROVE MailboxInv'
  <2>1. \A x \in S!Users : thread[x] \notin {"try", "reply"}
    BY <1>1, <1>9
  <2>2. \A x \in S!Users :
          /\ ~Asking(x) /\ ~Responding(x) /\ ~Writing(x) /\ ~Ready(x)
          /\ Once(toClient[x], Questions) /\ Once(toServer[x], Responses)
    BY <1>9, <2>1, NobodyWaits DEF MailboxInv
  <2>3. \A x \in S!Users : /\ ~Responding(x)' /\ ~Writing(x)' /\ ~Ready(x)'
                           /\ Once(toServer[x], Responses)'
    BY <1>0, <1>1, <1>2, <2>2, ReceiveQuiet DEF Writing, Ready, StreamTypeOK, S!locks
  <2>4. \A x \in S!Users : Once(toClient[x], Questions)' /\ (Asking(x)' => Awaited(x)')
    <3>1. CASE toClient' = toClient
      BY <2>2, <3>1 DEF Asking
    <3>2. ASSUME NEW d \in S!Users, asked' = [asked EXCEPT ![c] = d],
                 S!Send(d, "question"), NEW x \in S!Users
          PROVE  Once(toClient[x], Questions)' /\ (Asking(x)' => Awaited(x)')
      <4>1. toClient'[x] = toClient[x] \/ (x = d /\ toClient'[x] = Append(toClient[x], "question"))
        BY <3>2 DEF S!Send, StreamTypeOK
      <4>2. CASE toClient'[x] = toClient[x]
        BY <2>2, <4>2 DEF Asking
      <4>3. CASE x = d /\ toClient'[x] = Append(toClient[x], "question")
        <5>1. Once(Append(toClient[x], "question"), Questions)
          BY <2>2, InAppend DEF StreamTypeOK, Answers, Asking
        <5>2. thread'[c] = "try" /\ asked'[c] = d
          BY <1>2, <3>2 DEF StreamTypeOK
        <5> QED
          BY <4>3, <5>1, <5>2 DEF Awaited
      <4> QED
        BY <4>1, <4>2, <4>3
    <3> QED
      BY <1>3, <3>1, <3>2
  <2>5. /\ \A x, y \in S!Users :
             thread'[x] \in {"try", "reply"} /\ thread'[y] \in {"try", "reply"} => x = y
        /\ \A x \in S!Users : thread'[x] # "reply"
    BY <1>2, <2>1 DEF StreamTypeOK
  <2>6. ~info_consumer_mutex' => shared_info' \in S!Users
    BY <1>1, <1>9 DEF MailboxInv, S!locks
  <2> QED
    BY <2>3, <2>4, <2>5, <2>6 DEF MailboxInv
<1> QED
  BY <1>1, <1>6, <1>7, <1>8, <1>9 DEF StreamTypeOK

LEMMA GotResponseKeeps ==
  ASSUME StreamInv, NEW c \in S!Users, S!GotResponse(c)
  PROVE  StreamInv'
<1> USE DEF StreamInv, S!GotResponse, S!Goto, S!streams
<1>1. StreamTypeOK'
  BY DEF StreamTypeOK
<1>2. Connected'
  BY DEF Connected, StreamTypeOK
<1>3. S!ListedThreadsRun'
  BY ListKept DEF StreamTypeOK
<1>4. ASSUME MailboxInv PROVE MailboxInv'
  <2>1. shared_info \in S!Users /\ Awaited(shared_info)
    BY <1>4 DEF MailboxInv, Ready
  <2>2. \A x \in S!Users : thread[x] \in {"try", "reply"} => x = c
    BY <1>4 DEF MailboxInv
  <2>3. asked[c] = shared_info
    BY <2>1, <2>2 DEF Awaited
  <2>4. \A x \in S!Users : Awaited(x) => x = shared_info
    BY <2>2, <2>3 DEF Awaited
  <2>5. \A x \in S!Users : ~Asking(x) /\ ~Responding(x) /\ ~Writing(x)
    BY <1>4, <2>1, <2>4 DEF MailboxInv, Ready
  <2>6. \A x \in S!Users : /\ ~Asking(x)' /\ ~Responding(x)' /\ ~Writing(x)' /\ ~Ready(x)'
                           /\ Once(toClient[x], Questions)' /\ Once(toServer[x], Responses)'
    BY <1>4, <2>5 DEF MailboxInv, Asking, Responding, Writing, Ready, StreamTypeOK
  <2>7. \A x \in S!Users : thread'[x] \in {"try", "reply"} => x = c
    BY <2>2 DEF StreamTypeOK
  <2> QED
    BY <2>3, <2>6, <2>7 DEF MailboxInv
<1> QED
  BY <1>1, <1>2, <1>3, <1>4

LEMMA ReplyKeeps ==
  ASSUME StreamInv, NEW c \in S!Users, S!Reply(c)
  PROVE  StreamInv'
<1> USE DEF StreamInv, S!Reply, S!Goto
<1>1. toClient' \in [S!Users -> Seq(Answers)] /\ process' \in {process, "killed"}
  BY SendTypes DEF Answers
<1>2. StreamTypeOK'
  BY <1>1 DEF StreamTypeOK
<1>3. Connected'
  BY DEF Connected, StreamTypeOK
<1>4. S!ListedThreadsRun'
  BY ListKept DEF StreamTypeOK
<1>5. ASSUME MailboxInv PROVE MailboxInv'
  <2>1. \A x \in S!Users : thread[x] \in {"try", "reply"} => x = c
    BY <1>5 DEF MailboxInv
  <2>2. \A x \in S!Users : ~Awaited(x)
    BY <2>1 DEF Awaited
  <2>3. \A x \in S!Users : /\ ~Asking(x)' /\ ~Responding(x)' /\ ~Writing(x)' /\ ~Ready(x)'
                           /\ Once(toClient[x], Questions)' /\ Once(toServer[x], Responses)'
    BY <1>5, <2>2, SendQuiet
    DEF MailboxInv, Responding, Writing, Ready, StreamTypeOK, Answers, Questions
  <2>4. \A x \in S!Users : thread'[x] \notin {"try", "reply"}
    BY <2>1 DEF StreamTypeOK
  <2>5. ~info_consumer_mutex' => shared_info' \in S!Users
    BY <1>5 DEF MailboxInv
  <2> QED
    BY <2>3, <2>4, <2>5 DEF MailboxInv
<1> QED
  BY <1>2, <1>3, <1>4, <1>5

LEMMA NotRespondingKeeps ==
  ASSUME StreamInv, NEW c \in S!Users, S!NotResponding(c)
  PROVE  StreamInv'
<1> USE DEF StreamInv, S!NotResponding, S!Goto
<1>1. toClient' \in [S!Users -> Seq(Answers)] /\ process' \in {process, "killed"}
  BY SendTypes DEF Answers
<1>2. StreamTypeOK'
  BY <1>1 DEF StreamTypeOK
<1>3. Connected'
  BY DEF Connected, StreamTypeOK
<1>4. S!ListedThreadsRun'
  BY ListKept DEF StreamTypeOK
<1> QED
  BY <1>2, <1>3, <1>4

LEMMA LockProducerKeeps ==
  ASSUME StreamInv, NEW c \in S!Users, S!LockProducer(c)
  PROVE  StreamInv'
<1> USE DEF StreamInv
<1>0. S!Receive(c, "INFO_RESPONSE", "write") /\ "INFO_RESPONSE" \in Kinds
  BY DEF S!LockProducer, Kinds
<1>1. /\ UNCHANGED <<process, backlog, asked, linked, client_list_mutex, info_consumer_mutex,
                     shared_info, toClient, stream_main, stream_budget>>
      /\ info_producer_mutex' = TRUE /\ crossed' = (crossed \/ S!Closed(c))
  BY DEF S!LockProducer
<1>2. thread[c] = "recv" /\ thread' = [thread EXCEPT ![c] = "write"]
  BY <1>0, ReceiveTypes
<1>3. StreamTypeOK'
  BY <1>0, <1>1, <1>2, ReceiveTypes DEF StreamTypeOK, S!Closed
<1>4. Connected'
  BY <1>1, <1>2 DEF Connected, StreamTypeOK
<1>5. S!ListedThreadsRun'
  BY <1>1, <1>2, ListKept DEF StreamTypeOK
<1>6. ASSUME MailboxInv, ~S!Closed(c) PROVE MailboxInv'
  <2>1. /\ toServer[c] # <<>> /\ Head(toServer[c]).kind = "INFO_RESPONSE"
        /\ toServer'[c] = Tail(toServer[c])
    BY <1>0, <1>6, ReceiveTypes
  <2>2. toServer[c] \in Seq(Messages) /\ Head(toServer[c]) \in Responses
    BY <2>1 DEF StreamTypeOK, Responses
  <2>3. Responding(c) /\ ~Responding(c)'
    <3>1. Has(toServer[c], Responses) /\ ~Has(Tail(toServer[c]), Responses)
      BY <1>6, <2>1, <2>2, InTail DEF MailboxInv
    <3> QED
      BY <2>1, <3>1 DEF Responding
  <2>4. Awaited(c) /\ ~Asking(c) /\ ~Writing(c) /\ ~Ready(c)
    BY <1>6, <2>3 DEF MailboxInv
  <2>5. \A x \in S!Users : /\ thread'[x] = "try" <=> thread[x] = "try"
                           /\ thread'[x] = "reply" <=> thread[x] = "reply"
                           /\ Writing(x)' <=> (Writing(x) \/ x = c)
    BY <1>2 DEF StreamTypeOK, Writing
  <2>6. \A x \in S!Users : /\ Awaited(x)' <=> Awaited(x)
                           /\ Asking(x)' <=> Asking(x)
                           /\ Ready(x)' <=> Ready(x)
                           /\ Responding(x)' => Responding(x)
                           /\ Once(toServer[x], Responses)'
    BY <1>0, <1>1, <1>6, <2>5, ReceiveQuiet DEF Awaited, Asking, Ready, MailboxInv
  <2>7. \A x \in S!Users :
          /\ Asking(x)' \/ Responding(x)' \/ Writing(x)' \/ Ready(x)' => Awaited(x)'
          /\ Once(toClient[x], Questions)' /\ Once(toServer[x], Responses)'
          /\ Asking(x)' => ~Responding(x)' /\ ~Writing(x)' /\ ~Ready(x)'
          /\ Responding(x)' => ~Writing(x)' /\ ~Ready(x)'
          /\ Writing(x)' => ~Ready(x)'
    BY <1>1, <1>6, <2>3, <2>4, <2>5, <2>6 DEF MailboxInv
  <2>8. /\ \A x, y \in S!Users :
             thread'[x] \in {"try", "reply"} /\ thread'[y] \in {"try", "reply"} => x = y
        /\ \A x \in S!Users : thread'[x] = "reply" => shared_info' = asked'[x]
        /\ ~info_consumer_mutex' => shared_info' \in S!Users
    BY <1>1, <1>6, <2>5 DEF MailboxInv
  <2> QED
    BY <2>7, <2>8 DEF MailboxInv
<1> QED
  BY <1>1, <1>3, <1>4, <1>5, <1>6

LEMMA InfoResponseKeeps ==
  ASSUME StreamInv, NEW c \in S!Users, S!InfoResponse(c)
  PROVE  StreamInv'
<1> USE DEF StreamInv, S!InfoResponse, S!Goto, S!streams
<1>1. StreamTypeOK'
  BY DEF StreamTypeOK
<1>2. Connected'
  BY DEF Connected, StreamTypeOK
<1>3. S!ListedThreadsRun'
  BY ListKept DEF StreamTypeOK
<1>4. ASSUME MailboxInv PROVE MailboxInv'
  <2>1. Writing(c) /\ Awaited(c) /\ ~Asking(c) /\ ~Responding(c)
    BY <1>4 DEF MailboxInv, Writing
  <2>2. \A x \in S!Users : thread[x] # "reply"
    BY <1>4, <2>1 DEF MailboxInv, Awaited
  <2>3. \A x \in S!Users : Awaited(x) => x = c
    BY <1>4, <2>1 DEF MailboxInv, Awaited
  <2>4. \A x \in S!Users : x # c => ~Asking(x) /\ ~Responding(x) /\ ~Writing(x)
    BY <1>4, <2>3 DEF MailboxInv
  <2>5. \A x \in S!Users : (thread'[x] = "try" <=> thread[x] = "try") /\ thread'[x] # "reply"
    BY <2>2 DEF StreamTypeOK
  <2>6. \A x \in S!Users : /\ Awaited(x)' <=> Awaited(x)
                           /\ ~Asking(x)' /\ ~Responding(x)' /\ ~Writing(x)'
                           /\ Ready(x)' => x = c
                           /\ Once(toClient[x], Questions)' /\ Once(toServer[x], Responses)'
    BY <1>4, <2>1, <2>4, <2>5
    DEF Awaited, Asking, Responding, Writing, Ready, MailboxInv, StreamTypeOK
  <2>7. \A x, y \in S!Users :
          thread'[x] \in {"try", "reply"} /\ thread'[y] \in {"try", "reply"} => x = y
    BY <1>4, <2>5 DEF MailboxInv
  <2> QED
    BY <2>1, <2>5, <2>6, <2>7 DEF MailboxInv
<1> QED
  BY <1>1, <1>2, <1>3, <1>4

LEMMA EndsKeep ==
  ASSUME StreamInv, S!sigint_handler \/ \E c \in S!Users : S!WalkDangling(c)
  PROVE  StreamInv'
<1> USE DEF StreamInv
<1>1. /\ process' \in {"crashed", "exited"} /\ stream_budget' \in Nat
      /\ UNCHANGED <<S!server_, S!locks, shared_info, S!streams, stream_main, crossed>>
  BY DEF S!sigint_handler, S!WalkDangling, StreamTypeOK
<1> USE DEF S!server_, S!locks, S!streams
<1>2. StreamTypeOK'
  BY <1>1 DEF StreamTypeOK
<1>3. Connected'
  BY <1>1 DEF Connected
<1>4. S!ListedThreadsRun'
  BY <1>1, ListKept
<1>5. MailboxInv => MailboxInv'
  BY <1>1, MailboxKept DEF Asking, Responding
<1> QED
  BY <1>1, <1>2, <1>3, <1>4, <1>5

-----------------------------------------------------------------------------
\* zad2: the steps of the clients

\* What a client sends is no response, unless it answers a question.
ServerKept ==
  UNCHANGED <<process, thread, request, asked, linked, S!locks, shared_info, crossed>>

LEMMA ClientKeeps ==
  ASSUME StreamInv, ServerKept, StreamTypeOK', Connected', MailboxInv => MailboxInv'
  PROVE  StreamInv'
<1>1. S!ListedThreadsRun'
  BY ListKept DEF StreamInv, ServerKept
<1> QED
  BY <1>1 DEF StreamInv, ServerKept

LEMMA ConnectKeeps ==
  ASSUME StreamInv, NEW c \in S!Users, S!Connect(c)
  PROVE  StreamInv'
<1> USE DEF S!Connect, S!ClientGoto, S!streams
<1>1. StreamTypeOK'
  BY DEF StreamInv, StreamTypeOK, S!locks
<1>2. Connected'
  BY DEF StreamInv, Connected, StreamTypeOK
<1>3. MailboxInv => MailboxInv'
  BY MailboxKept DEF Asking, Responding, S!locks
<1> QED
  BY <1>1, <1>2, <1>3, ClientKeeps DEF ServerKept

LEMMA SaysTypes ==
  ASSUME StreamTypeOK, NEW c \in S!Users, NEW kind \in Kinds, NEW no \in Nat,
         S!ClientSays(c, kind, no)
  PROVE  /\ toServer' \in [S!Users -> Seq(Messages)]
         /\ kind # "INFO_RESPONSE" => \A x \in S!Users :
              /\ Responding(x)' => Responding(x)
              /\ Once(toServer[x], Responses) => Once(toServer[x], Responses)'
<1> DEFINE m == [kind |-> kind, no |-> no]
<1>1. m \in Messages /\ (kind # "INFO_RESPONSE" => m \in Messages \ Responses)
  BY DEF Messages, Responses
<1>2. toServer' = [toServer EXCEPT ![c] = Append(@, m)]
  BY DEF S!ClientSays
<1> HIDE DEF m
<1>3. toServer' \in [S!Users -> Seq(Messages)]
  <2>1. Append(toServer[c], m) \in Seq(Messages)
    BY <1>1 DEF StreamTypeOK
  <2> QED
    BY <1>2, <2>1 DEF StreamTypeOK
<1>4. ASSUME kind # "INFO_RESPONSE", NEW x \in S!Users
      PROVE  /\ Responding(x)' => Responding(x)
             /\ Once(toServer[x], Responses) => Once(toServer[x], Responses)'
  <2>1. toServer'[x] = toServer[x] \/ toServer'[x] = Append(toServer[x], m)
    BY <1>2 DEF StreamTypeOK
  <2> QED
    BY <1>1, <1>4, <2>1, TakeQuiet
<1> QED
  BY <1>3, <1>4

LEMMA RequestsKeep ==
  ASSUME StreamInv, NEW c \in S!Users, S!SayName(c) \/ S!Choose(c)
  PROVE  StreamInv'
<1> USE DEF S!SayName, S!Choose, S!ClientGoto
<1>0. StreamTypeOK
  BY DEF StreamInv
<1>1. /\ ServerKept /\ backlog' = backlog /\ toClient' = toClient /\ stream_budget' \in Nat
      /\ stream_main[c] \in {"connected", "menu"}
      /\ \E to \in {"waitList", "waitInfo", "menu", "gone"} :
           stream_main' = [stream_main EXCEPT ![c] = to]
  BY <1>0 DEF ServerKept, S!server_, StreamTypeOK
<1>2. PICK kind \in Kinds \ {"INFO_RESPONSE"}, no \in Nat : S!ClientSays(c, kind, no)
  <2>1. 0 .. MAX_CLIENTS - 1 \subseteq Nat
    BY RegistriesAssumption
  <2> QED
    BY <2>1 DEF Kinds
<1>3. StreamTypeOK'
  BY <1>0, <1>1, <1>2, SaysTypes DEF StreamTypeOK, ServerKept, S!locks
<1>4. Connected'
  BY <1>0, <1>1 DEF StreamInv, Connected, ServerKept, StreamTypeOK
<1>5. MailboxInv => MailboxInv'
  BY <1>0, <1>1, <1>2, SaysTypes, MailboxKept DEF Asking, ServerKept, S!locks
<1> QED
  BY <1>1, <1>3, <1>4, <1>5, ClientKeeps

\* A client takes what is first on its stream.
LEMMA TakesTypes ==
  ASSUME StreamTypeOK, NEW c \in S!Users, toClient[c] # <<>>,
         toClient' = [toClient EXCEPT ![c] = Tail(@)]
  PROVE  /\ toClient' \in [S!Users -> Seq(Answers)]
         /\ \A x \in S!Users :
              /\ Asking(x)' => Asking(x)
              /\ Once(toClient[x], Questions) => Once(toClient[x], Questions)'
<1>1. toClient[c] \in Seq(Answers)
  BY DEF StreamTypeOK
<1>2. /\ Tail(toClient[c]) \in Seq(Answers)
      /\ Has(Tail(toClient[c]), Questions) => Has(toClient[c], Questions)
      /\ Once(toClient[c], Questions) => Once(Tail(toClient[c]), Questions)
  BY <1>1, InTail
<1>3. \A x \in S!Users : toClient'[x] = IF x = c THEN Tail(toClient[c]) ELSE toClient[x]
  BY DEF StreamTypeOK
<1>4. toClient' \in [S!Users -> Seq(Answers)]
  BY <1>2 DEF StreamTypeOK
<1>5. ASSUME NEW x \in S!Users
      PROVE  /\ Asking(x)' => Asking(x)
             /\ Once(toClient[x], Questions) => Once(toClient[x], Questions)'
  BY <1>2, <1>3 DEF Asking
<1> QED
  BY <1>4, <1>5

LEMMA ReceiveAnswerKeeps ==
  ASSUME StreamInv, NEW c \in S!Users, S!ReceiveAnswer(c)
  PROVE  StreamInv'
<1>0. StreamTypeOK
  BY DEF StreamInv
<1>1. /\ toClient[c] # <<>> /\ toClient' = [toClient EXCEPT ![c] = Tail(@)]
      /\ ServerKept /\ UNCHANGED <<backlog, toServer, stream_budget>>
      /\ stream_main[c] \in {"waitList", "waitInfo"}
      /\ \E to \in {"menu", "garbled", "waitInfo"} : stream_main' = [stream_main EXCEPT ![c] = to]
  BY DEF S!ReceiveAnswer, S!ClientGoto, ServerKept, S!server_
<1>2. StreamTypeOK'
  BY <1>0, <1>1, TakesTypes DEF StreamTypeOK, ServerKept, S!locks
<1>3. Connected'
  BY <1>0, <1>1 DEF StreamInv, Connected, ServerKept, StreamTypeOK
<1>4. MailboxInv => MailboxInv'
  BY <1>0, <1>1, TakesTypes, MailboxKept DEF Responding, ServerKept, S!locks
<1> QED
  BY <1>1, <1>2, <1>3, <1>4, ClientKeeps

LEMMA InterruptKeeps ==
  ASSUME StreamInv, NEW c \in S!Users, S!Interrupt(c)
  PROVE  StreamInv'
<1>0. StreamTypeOK
  BY DEF StreamInv
<1>1. /\ ServerKept /\ UNCHANGED <<backlog, toServer, toClient>> /\ stream_budget' \in Nat
      /\ stream_main[c] # "off"
      /\ \E to \in {"silent", "gone", "hung"} : stream_main' = [stream_main EXCEPT ![c] = to]
  BY <1>0 DEF S!Interrupt, S!ClientGoto, ServerKept, S!server_, S!streams, StreamTypeOK
<1>2. StreamTypeOK'
  BY <1>0, <1>1 DEF StreamTypeOK, ServerKept, S!locks
<1>3. Connected'
  BY <1>0, <1>1 DEF StreamInv, Connected, ServerKept, StreamTypeOK
<1>4. MailboxInv => MailboxInv'
  BY <1>1, MailboxKept DEF Asking, Responding, ServerKept, S!locks
<1> QED
  BY <1>1, <1>2, <1>3, <1>4, ClientKeeps

\* The question turns into the response.
LEMMA AnswerQuestionKeeps ==
  ASSUME StreamInv, NEW c \in S!Users, S!AnswerQuestion(c)
  PROVE  StreamInv'
<1>0. StreamTypeOK /\ toClient[c] \in Seq(Answers) /\ toServer[c] \in Seq(Messages)
  BY DEF StreamInv, StreamTypeOK
<1>1. /\ toClient[c] # <<>> /\ toClient' = [toClient EXCEPT ![c] = Tail(@)]
      /\ ServerKept /\ UNCHANGED <<backlog, stream_budget>>
      /\ stream_main[c] = "menu"
      /\ \E to \in {"menu", "garbled"} : stream_main' = [stream_main EXCEPT ![c] = to]
      /\ \/ Head(toClient[c]) \in Questions /\ S!ClientSays(c, "INFO_RESPONSE", 0)
         \/ Head(toClient[c]) \notin Questions /\ toServer' = toServer
  BY DEF S!AnswerQuestion, S!ClientGoto, ServerKept, S!server_, Questions
<1>2. toServer' \in [S!Users -> Seq(Messages)]
  BY <1>0, <1>1, SaysTypes DEF Kinds, StreamTypeOK
<1>3. StreamTypeOK'
  <2>1. toClient' \in [S!Users -> Seq(Answers)]
    BY <1>0, <1>1, TakesTypes
  <2> QED
    BY <1>0, <1>1, <1>2, <2>1 DEF StreamTypeOK, ServerKept, S!locks
<1>4. Connected'
  BY <1>0, <1>1 DEF StreamInv, Connected, ServerKept, StreamTypeOK
<1>5. CASE toServer' = toServer
  <2>1. MailboxInv => MailboxInv'
    BY <1>0, <1>1, <1>5, TakesTypes, MailboxKept DEF Responding, ServerKept, S!locks
  <2> QED
    BY <1>1, <1>3, <1>4, <2>1, ClientKeeps
<1>6. CASE Head(toClient[c]) \in Questions /\ S!ClientSays(c, "INFO_RESPONSE", 0)
  <2> DEFINE m == [kind |-> "INFO_RESPONSE", no |-> 0]
  <2>1. m \in Messages /\ m \in Responses
    BY DEF Messages, Kinds, Responses
  <2>2. \A x \in S!Users : /\ x # c => toServer'[x] = toServer[x] /\ toClient'[x] = toClient[x]
                           /\ toServer'[c] = Append(toServer[c], m)
                           /\ toClient'[c] = Tail(toClient[c])
    BY <1>0, <1>1, <1>6 DEF S!ClientSays, StreamTypeOK
  <2> HIDE DEF m
  <2>3. ASSUME MailboxInv PROVE MailboxInv'
    <3>1. Asking(c) /\ Once(toClient[c], Questions) /\ Once(toServer[c], Responses)
      BY <1>0, <1>1, <1>6, <2>3, InTail DEF MailboxInv, Asking
    <3>2. Awaited(c) /\ ~Responding(c) /\ ~Writing(c) /\ ~Ready(c)
      BY <2>3, <3>1 DEF MailboxInv
    <3>3. ~Has(Tail(toClient[c]), Questions) /\ Once(Tail(toClient[c]), Questions)
      BY <1>0, <1>1, <1>6, <3>1, InTail
    <3>4. Once(Append(toServer[c], m), Responses)
      BY <1>0, <2>1, <3>1, <3>2, InAppend DEF Responding
    <3>5. ~Asking(c)' /\ Once(toClient[c], Questions)' /\ Once(toServer[c], Responses)'
      BY <2>2, <3>3, <3>4 DEF Asking
    <3>6. \A x \in S!Users : /\ Awaited(x)' <=> Awaited(x)
                             /\ Writing(x)' <=> Writing(x)
                             /\ Ready(x)' <=> Ready(x)
      BY <1>1 DEF ServerKept, S!locks, Awaited, Writing, Ready
    <3>7. \A x \in S!Users : x # c =>
            /\ Asking(x)' <=> Asking(x)
            /\ Responding(x)' <=> Responding(x)
            /\ Once(toClient[x], Questions)' <=> Once(toClient[x], Questions)
            /\ Once(toServer[x], Responses)' <=> Once(toServer[x], Responses)
      BY <2>2 DEF Asking, Responding
    <3>8. \A x \in S!Users :
            /\ Asking(x)' \/ Responding(x)' \/ Writing(x)' \/ Ready(x)' => Awaited(x)'
            /\ Once(toClient[x], Questions)' /\ Once(toServer[x], Responses)'
            /\ Asking(x)' => ~Responding(x)' /\ ~Writing(x)' /\ ~Ready(x)'
            /\ Responding(x)' => ~Writing(x)' /\ ~Ready(x)'
            /\ Writing(x)' => ~Ready(x)'
      <4> TAKE x \in S!Users
      <4>1. CASE x = c
        BY <3>2, <3>5, <3>6, <4>1
      <4>2. CASE x # c
        BY <2>3, <3>6, <3>7, <4>2 DEF MailboxInv
      <4> QED
        BY <4>1, <4>2
    <3> QED
      BY <1>1, <2>3, <3>8 DEF MailboxInv, ServerKept, S!locks
  <2> QED
    BY <1>1, <1>3, <1>4, <2>3, ClientKeeps
<1> QED
  BY <1>1, <1>5, <1>6

LEMMA StreamStep == StreamInv /\ S!Next => StreamInv'
<1> SUFFICES ASSUME StreamInv, S!Next PROVE StreamInv'
  OBVIOUS
<1>1. CASE S!sigint_handler
  BY <1>1, EndsKeep
<1>2. ASSUME NEW c \in S!Users, S!Accept(c) \/ S!thread_run(c)
      PROVE  StreamInv'
  BY <1>2, AcceptKeeps, StartKeeps, UninitializedKeeps, ListRequestsKeep, UnregisterKeeps,
     AskClientKeeps, GotResponseKeeps, ReplyKeeps, NotRespondingKeeps, LockProducerKeeps,
     InfoResponseKeeps, EndsKeep DEF S!thread_run
<1>3. ASSUME NEW c \in S!Users, S!client(c) \/ S!AnswerQuestion(c)
      PROVE  StreamInv'
  BY <1>3, ConnectKeeps, RequestsKeep, ReceiveAnswerKeeps, InterruptKeeps, AnswerQuestionKeeps
  DEF S!client
<1> QED
  BY <1>1, <1>2, <1>3 DEF S!Next

-----------------------------------------------------------------------------
\* zad2: the theorems

LEMMA StreamAlways == FairSpec => []StreamInv
<1>1. Init => StreamInv
  BY StreamStarts DEF Init
<1>2. StreamInv /\ [Next]_allVars => StreamInv'
  <2> SUFFICES ASSUME StreamInv, [Next]_allVars PROVE StreamInv'
    OBVIOUS
  <2>1. CASE InStream(S!Next)
    BY <2>1, StreamStep DEF InStream
  <2>2. CASE UNCHANGED stream
    <3> USE <2>2 DEF stream
    <3>1. StreamTypeOK'
      BY DEF StreamInv, StreamTypeOK
    <3>2. Connected'
      BY DEF StreamInv, Connected
    <3>3. MailboxInv => MailboxInv'
      BY MailboxKept DEF Asking, Responding
    <3>4. ServerKept
      BY DEF ServerKept, S!locks
    <3> QED
      BY <3>1, <3>2, <3>3, <3>4, ClientKeeps
  <2> QED
    BY <2>1, <2>2 DEF Next, InDatagram, allVars
<1> QED
  BY <1>1, <1>2, PTL DEF FairSpec

\* Every variable of the stream registry keeps its type: no number a user may type
\* and no client that goes leads the server out of its list.
THEOREM StreamTypeCorrect == FairSpec => []StreamTypeOK
<1>1. StreamInv => StreamTypeOK
  BY DEF StreamInv
<1> QED
  BY <1>1, StreamAlways, PTL

\* The list is that of the threads that run, and of the clients refused, whoever
\* comes, leaves or is one too many: a thread links and unlinks its own variable
\* only (server.c:162-178, 202-231).
THEOREM ListIsOfThreads == FairSpec => []ListedThreadsRun
<1>1. StreamInv => ListedThreadsRun
  BY DEF StreamInv, ListedThreadsRun
<1> QED
  BY <1>1, StreamAlways, PTL

\* As long as one question at a time is asked, and answered, what the asker's
\* thread sends on is the answer of the client asked (server.c:277-327).
THEOREM MailboxDelivers == FairSpec => AnswerFromAsked
<1>1. StreamInv => \A c \in S!Users : S!Reply(c) /\ ~crossed =>
                     shared_info = asked[c] /\ \A d \in S!Users : thread[d] # "write"
  <2> SUFFICES ASSUME StreamInv, NEW c \in S!Users, S!Reply(c), ~crossed
               PROVE  shared_info = asked[c] /\ \A d \in S!Users : thread[d] # "write"
    OBVIOUS
  <2>1. MailboxInv /\ thread[c] = "reply"
    BY DEF StreamInv, S!Reply, S!Goto
  <2>2. \A d \in S!Users : ~Awaited(d)
    BY <2>1 DEF MailboxInv, Awaited
  <2> QED
    BY <2>1, <2>2 DEF MailboxInv, Writing
<1>2. StreamInv /\ [Next]_allVars =>
        [\A c \in S!Users : S!Reply(c) /\ ~crossed =>
           shared_info = asked[c] /\ \A d \in S!Users : thread[d] # "write"]_(S!vars)
  BY <1>1
<1> QED
  BY <1>2, StreamAlways, PTL DEF FairSpec, AnswerFromAsked, S!AnswerFromAsked

-----------------------------------------------------------------------------
\* zad1: the invariant

Requests ==
  [kind : {"ADD_CLIENT", "UNREGISTER", "LIST_CLIENTS", "CLIENT_INFO", "info"},
   from : Clients, no : D!Entries]
Replies   == {"ADD_CLIENT", "LIST_CLIENTS", "CLIENT_INFO"}
Datagrams == Replies \cup {"question"}
Someone   == Clients \cup {Nobody}

DatagramTypeOK ==
  /\ local \in [Clients -> BOOLEAN] /\ place \in [Clients -> Directories]
  /\ clients \in [D!Entries -> [name : {"", "here", "there"}, who : Someone]]
  /\ server \in [pc : {"receive", "ask", "ended"}, asker : Someone, asked : Someone]
  /\ server.pc = "ask" => server.asker \in Clients /\ server.asked \in Clients
  /\ server.pc # "ask" => server.asker = Nobody
  /\ requests \in [BOOLEAN -> Seq(Requests)]
  /\ \A unix \in BOOLEAN : \A k \in DOMAIN requests[unix] : local[requests[unix][k].from] = unix
  /\ main \in [Clients -> {"off", "register", "menu", "wait", "leave", "hung"}]
  /\ want \in [Clients -> Replies \cup {""}]
  /\ \A c \in Clients : main[c] \notin {"wait", "hung"} => want[c] = ""
  /\ inbox \in [Clients -> Seq(Datagrams)]
  /\ files \subseteq Clients /\ disturbed \subseteq Clients /\ budget \in Nat

\* An entry that is shown has the name of the client it was filled for.
EntriesInv ==
  \A e \in D!Entries : clients[e].name # "" =>
    clients[e].who \in Clients /\ clients[e].name = D!name(clients[e].who)

\* The requests of c that it waits for an answer to, those it does not, and the
\* socket they come to.
Own(c)    == {m \in Requests : m.from = c /\ m.kind # "info"}
Mine(c)   == {m \in Own(c) : m.kind # "UNREGISTER"}
Joins(c)  == {m \in Own(c) : m.kind = "ADD_CLIENT"}
Leaves(c) == {m \in Own(c) : m.kind = "UNREGISTER"}
Line(c)   == requests[local[c]]

Pending(c)  == Has(Line(c), Mine(c))
Asks(c)     == server.asker = c
Answered(c) == Has(inbox[c], Replies)

\* A client that waits has one request under way, or asked about, or answered, and
\* it is the one it waits for; a client that does not wait has none.
Matches(c) ==
  /\ main[c] # "wait" => ~Pending(c) /\ ~Asks(c) /\ ~Answered(c)
  /\ Once(Line(c), Mine(c)) /\ Once(inbox[c], Replies)
  /\ Pending(c) => ~Asks(c) /\ ~Answered(c)
  /\ Asks(c) => ~Answered(c) /\ want[c] = "CLIENT_INFO"
  /\ ~Has(Line(c), {m \in Mine(c) : m.kind # want[c]})
  /\ ~Has(inbox[c], Replies \ {want[c]})

\* All of U are before all of T.
Before(s, T, U) == \A j, k \in DOMAIN s : s[j] \in T /\ s[k] \in U => k < j

\* A client that knows that it was added is listed, and has not asked to be removed
\* since: its requests are carried out in their order.
Member(c) == \/ main[c] \in {"menu", "wait"} /\ want[c] # "ADD_CLIENT"
             \/ main[c] = "wait" /\ want[c] = "ADD_CLIENT" /\ Answered(c)
Listed(c) == \E e \in D!Entries : clients[e].who = c /\ \A j \in 0 .. e : clients[j].name # ""
Sole(c)   == \A d \in Clients \ {c} : D!name(d) # D!name(c)

Belongs(c) ==
  /\ Member(c) => Listed(c) /\ ~Has(Line(c), Leaves(c))
  /\ Before(Line(c), Joins(c), Leaves(c))

DatagramInv ==
  /\ DatagramTypeOK /\ EntriesInv
  /\ \A c \in Clients \ disturbed : Matches(c)
  /\ server.pc # "ended" => \A c \in Clients \ disturbed : Sole(c) => Belongs(c)

LEMMA EmptySequence == \A T, U : <<>> \in Seq(T) /\ Before(<<>>, T, U)
BY DEF Before

LEMMA DatagramStarts == D!Init => DatagramInv
<1> SUFFICES ASSUME D!Init PROVE DatagramInv
  OBVIOUS
<1>1. DatagramTypeOK
  <2>1. D!Empty \in [name : {"", "here", "there"}, who : Someone]
    BY DEF D!Empty, Someone
  <2>2. /\ server \in [pc : {"receive", "ask", "ended"}, asker : Someone, asked : Someone]
        /\ server.pc = "receive" /\ server.asker = Nobody
    BY DEF D!Init, D!Waiting, Someone
  <2>3. <<>> \in Seq(Requests) /\ <<>> \in Seq(Datagrams) /\ BUDGET \in Nat
    BY EmptySequence, RegistriesAssumption
  <2>4. \A unix \in BOOLEAN : requests[unix] = <<>>
    BY DEF D!Init
  <2>5. requests \in [BOOLEAN -> Seq(Requests)]
    BY <2>3 DEF D!Init
  <2>6. \A unix \in BOOLEAN : \A k \in DOMAIN requests[unix] : local[requests[unix][k].from] = unix
    <3> SUFFICES ASSUME NEW unix \in BOOLEAN, NEW k \in DOMAIN requests[unix] PROVE FALSE
      OBVIOUS
    <3> QED
      BY <2>4
  <2> QED
    BY <2>1, <2>2, <2>3, <2>5, <2>6 DEF D!Init, DatagramTypeOK
<1>2. EntriesInv
  BY DEF D!Init, EntriesInv, D!Empty
<1>3. \A c \in Clients : Line(c) = <<>> /\ inbox[c] = <<>> /\ main[c] = "off"
  BY DEF D!Init, Line
<1>4. ASSUME NEW c \in Clients PROVE Matches(c) /\ Belongs(c)
  <2>1. server.asker = Nobody /\ c # Nobody
    BY RegistriesAssumption DEF D!Init, D!Waiting
  <2>2. Matches(c)
    BY <1>3, <2>1, NothingInEmpty DEF Matches, Pending, Asks, Answered
  <2> QED
    BY <1>3, <2>2, EmptySequence DEF Belongs, Member
<1> QED
  BY <1>1, <1>2, <1>4 DEF DatagramInv

-----------------------------------------------------------------------------
\* zad1: messages that are taken or come from others

\* Of the messages in M, t has no more than s, and in the same order.
Less(t, s, M) ==
  \A T, U \in SUBSET M : /\ Has(t, T) => Has(s, T)
                         /\ Once(s, T) => Once(t, T)
                         /\ Before(s, T, U) => Before(t, T, U)

LEMMA LessUse ==
  ASSUME NEW M, NEW t, NEW s, Less(t, s, M), NEW T, NEW U, T \subseteq M, U \subseteq M
  PROVE  /\ Has(t, T) => Has(s, T)
         /\ Once(s, T) => Once(t, T)
         /\ Before(s, T, U) => Before(t, T, U)
<1>1. T \in SUBSET M /\ U \in SUBSET M
  OBVIOUS
<1> QED
  BY <1>1 DEF Less

LEMMA LessSame == \A s, M : Less(s, s, M)
BY DEF Less

LEMMA LessEmpty == \A s, M : Less(<<>>, s, M)
<1>1. \A T, U : ~Has(<<>>, T) /\ Once(<<>>, T) /\ Before(<<>>, T, U)
  BY DEF Has, Once, Before
<1> QED
  BY <1>1 DEF Less

\* Positions of t are positions of s, in their order, up to messages outside M.
LEMMA LessByPlaces ==
  ASSUME NEW M, NEW s, NEW t, NEW at,
         DOMAIN s \subseteq Int, DOMAIN t \subseteq Int,
         \A k \in DOMAIN t : t[k] \in M => at[k] \in DOMAIN s /\ s[at[k]] = t[k],
         \A j, k \in DOMAIN t : t[j] \in M /\ t[k] \in M => (j < k <=> at[j] < at[k])
  PROVE  Less(t, s, M)
<1> SUFFICES ASSUME NEW T \in SUBSET M, NEW U \in SUBSET M
             PROVE  /\ Has(t, T) => Has(s, T)
                    /\ Once(s, T) => Once(t, T)
                    /\ Before(s, T, U) => Before(t, T, U)
  BY DEF Less
<1>1. Has(t, T) => Has(s, T)
  BY DEF Has
<1>2. ASSUME Once(s, T), NEW j \in DOMAIN t, NEW k \in DOMAIN t, t[j] \in T, t[k] \in T
      PROVE  j = k
  <2>1. t[j] \in M /\ t[k] \in M
    BY <1>2
  <2>2. at[j] \in DOMAIN s /\ at[k] \in DOMAIN s /\ s[at[j]] = t[j] /\ s[at[k]] = t[k]
    BY <2>1
  <2>3. at[j] = at[k]
    BY <1>2, <2>2 DEF Once
  <2>4. (j < k <=> at[j] < at[k]) /\ (k < j <=> at[k] < at[j])
    BY <2>1
  <2>5. j \in Int /\ k \in Int /\ at[j] \in Int
    BY <2>2
  <2> QED
    BY <2>3, <2>4, <2>5
<1>3. ASSUME Before(s, T, U), NEW j \in DOMAIN t, NEW k \in DOMAIN t, t[j] \in T, t[k] \in U
      PROVE  k < j
  <2>1. t[j] \in M /\ t[k] \in M
    BY <1>3
  <2>2. at[j] \in DOMAIN s /\ at[k] \in DOMAIN s /\ s[at[j]] \in T /\ s[at[k]] \in U
    BY <1>3, <2>1
  <2>3. at[k] < at[j]
    BY <1>3, <2>2 DEF Before
  <2> QED
    BY <2>1, <2>3
<1> QED
  BY <1>1, <1>2, <1>3 DEF Once, Before

LEMMA LessTail ==
  ASSUME NEW X, NEW s \in Seq(X), s # <<>>, NEW M
  PROVE  Less(Tail(s), s, M)
<1> DEFINE t == Tail(s)
           at == [k \in DOMAIN t |-> k + 1]
<1>1. /\ DOMAIN s = 1 .. Len(s) /\ Len(s) \in Nat /\ DOMAIN t = 1 .. Len(s) - 1
      /\ \A k \in 1 .. Len(s) - 1 : t[k] = s[k + 1]
  OBVIOUS
<1> HIDE DEF t
<1>2. \A k \in DOMAIN t : k \in Int /\ at[k] = k + 1 /\ at[k] \in DOMAIN s /\ s[at[k]] = t[k]
  BY <1>1
<1>3. DOMAIN s \subseteq Int /\ DOMAIN t \subseteq Int
  BY <1>1
<1>4. \A j, k \in DOMAIN t : j < k <=> at[j] < at[k]
  BY <1>2
<1> HIDE DEF at
<1>5. Less(t, s, M)
  BY <1>2, <1>3, <1>4, LessByPlaces
<1> QED
  BY <1>5 DEF t

LEMMA LessRemoveAt ==
  ASSUME NEW X, NEW s \in Seq(X), NEW i \in DOMAIN s, NEW M
  PROVE  Less(RemoveAt(s, i), s, M)
<1> DEFINE t == RemoveAt(s, i)
           at == [k \in DOMAIN t |-> IF k < i THEN k ELSE k + 1]
<1>0. DOMAIN s = 1 .. Len(s) /\ Len(s) \in Nat /\ i \in 1 .. Len(s)
  OBVIOUS
<1>1. /\ DOMAIN t = 1 .. Len(s) - 1
      /\ \A k \in 1 .. Len(s) - 1 : t[k] = IF k < i THEN s[k] ELSE s[k + 1]
  <2>1. t \in Seq(X) /\ Len(t) = Len(s) - 1
    BY InRemoveAt
  <2>2. DOMAIN t = 1 .. Len(t)
    BY <2>1
  <2> QED
    BY <2>1, <2>2, InRemoveAt
<1> HIDE DEF t
<1>2. \A k \in DOMAIN t : /\ k \in Int /\ at[k] = IF k < i THEN k ELSE k + 1
                          /\ at[k] \in DOMAIN s /\ s[at[k]] = t[k]
  BY <1>0, <1>1
<1>3. DOMAIN s \subseteq Int /\ DOMAIN t \subseteq Int /\ i \in Int
  BY <1>0, <1>1
<1>4. \A j, k \in DOMAIN t : j < k <=> at[j] < at[k]
  BY <1>2, <1>3
<1> HIDE DEF at
<1>5. Less(t, s, M)
  BY <1>2, <1>3, <1>4, LessByPlaces
<1> QED
  BY <1>5 DEF t

\* Another's message is added.
LEMMA LessAppend ==
  ASSUME NEW X, NEW s \in Seq(X), NEW m \in X, NEW M, m \notin M
  PROVE  Less(Append(s, m), s, M)
<1> DEFINE t == Append(s, m)
           at == [k \in DOMAIN t |-> k]
<1>1. /\ DOMAIN s = 1 .. Len(s) /\ Len(s) \in Nat /\ DOMAIN t = 1 .. Len(s) + 1
      /\ t[Len(s) + 1] = m /\ \A k \in 1 .. Len(s) : t[k] = s[k]
  OBVIOUS
<1> HIDE DEF t
<1>2. \A k \in DOMAIN t : at[k] = k /\ (t[k] \in M => at[k] \in DOMAIN s /\ s[at[k]] = t[k])
  BY <1>1
<1>3. DOMAIN s \subseteq Int /\ DOMAIN t \subseteq Int
  BY <1>1
<1> HIDE DEF at
<1>4. Less(t, s, M)
  BY <1>2, <1>3, LessByPlaces
<1> QED
  BY <1>4 DEF t

\* A message of ours comes after all others.
LEMMA BeforeAppend ==
  ASSUME NEW X, NEW s \in Seq(X), NEW m \in X, NEW T, NEW U, Before(s, T, U),
         m \in U => ~Has(s, T) /\ m \notin T
  PROVE  Before(Append(s, m), T, U)
<1> DEFINE t == Append(s, m)
<1>1. /\ DOMAIN s = 1 .. Len(s) /\ Len(s) \in Nat /\ DOMAIN t = 1 .. Len(s) + 1
      /\ t[Len(s) + 1] = m /\ \A k \in 1 .. Len(s) : t[k] = s[k]
  OBVIOUS
<1> HIDE DEF t
<1>2. ASSUME NEW j \in DOMAIN t, NEW k \in DOMAIN t, t[j] \in T, t[k] \in U
      PROVE  k < j
  <2>1. CASE k = Len(s) + 1
    <3>1. m \in U
      BY <1>1, <1>2, <2>1
    <3>2. j # Len(s) + 1 /\ j \in DOMAIN s /\ s[j] \in T
      BY <1>1, <1>2, <3>1
    <3> QED
      BY <3>1, <3>2 DEF Has
  <2>2. CASE k # Len(s) + 1 /\ j = Len(s) + 1
    BY <1>1, <2>2
  <2>3. CASE k # Len(s) + 1 /\ j # Len(s) + 1
    <3>1. j \in DOMAIN s /\ k \in DOMAIN s /\ s[j] \in T /\ s[k] \in U
      BY <1>1, <1>2, <2>3
    <3> QED
      BY <3>1 DEF Before
  <2> QED
    BY <2>1, <2>2, <2>3
<1> QED
  BY <1>2 DEF t, Before

-----------------------------------------------------------------------------
\* zad1: what keeps a client's part of the invariant

LEMMA OwnKinds ==
  \A c : /\ Mine(c) \subseteq Own(c) /\ Joins(c) \subseteq Own(c) /\ Leaves(c) \subseteq Own(c)
         /\ \A k : {m \in Mine(c) : m.kind # k} \subseteq Own(c)
         /\ Joins(c) \subseteq Mine(c)
BY DEF Mine, Joins, Leaves, Own

LEMMA LineTypes ==
  ASSUME DatagramTypeOK, NEW c \in Clients
  PROVE  local[c] \in BOOLEAN /\ Line(c) \in Seq(Requests) /\ inbox[c] \in Seq(Datagrams)
<1>1. local[c] \in BOOLEAN /\ inbox[c] \in Seq(Datagrams)
  BY DEF DatagramTypeOK
<1>2. requests \in [BOOLEAN -> Seq(Requests)]
  BY DEF DatagramTypeOK
<1> QED
  BY <1>1, <1>2 DEF Line

\* Messages are taken, of others or of no importance, and c goes on or goes.
LEMMA MatchesStay ==
  ASSUME NEW c \in Clients, Matches(c),
         Less(Line(c)', Line(c), Own(c)), Less(inbox'[c], inbox[c], Replies),
         Asks(c)' => Asks(c),
         \/ main[c] = "wait" /\ main'[c] = "wait" /\ want'[c] = want[c]
         \/ main[c] # "wait" /\ main'[c] # "wait"
  PROVE  Matches(c)'
<1> DEFINE wrong == {m \in Mine(c) : m.kind # want[c]}
           wrongReply == Replies \ {want[c]}
<1>1. /\ Has(Line(c)', Mine(c)) => Has(Line(c), Mine(c))
      /\ Once(Line(c), Mine(c)) => Once(Line(c)', Mine(c))
      /\ Has(Line(c)', wrong) => Has(Line(c), wrong)
  BY OwnKinds, LessUse
<1>2. /\ Has(inbox'[c], Replies) => Has(inbox[c], Replies)
      /\ Once(inbox[c], Replies) => Once(inbox'[c], Replies)
      /\ Has(inbox'[c], wrongReply) => Has(inbox[c], wrongReply)
  BY LessUse
<1>3. CASE main[c] = "wait" /\ main'[c] = "wait" /\ want'[c] = want[c]
  <2>1. ~Has(Line(c), wrong) /\ ~Has(inbox[c], wrongReply)
    BY DEF Matches
  <2>2. ~Has(Line(c)', {m \in Mine(c) : m.kind # want'[c]}) /\ ~Has(inbox'[c], Replies \ {want'[c]})
    BY <1>1, <1>2, <1>3, <2>1
  <2> QED
    BY <1>1, <1>2, <1>3, <2>2 DEF Matches, Pending, Answered
<1>4. CASE main[c] # "wait" /\ main'[c] # "wait"
  <2>1. ~Has(Line(c)', Mine(c)) /\ ~Asks(c)' /\ ~Has(inbox'[c], Replies)
    BY <1>1, <1>2, <1>4 DEF Matches, Pending, Answered
  <2>2. /\ ~Has(Line(c)', {m \in Mine(c) : m.kind # want'[c]})
        /\ ~Has(inbox'[c], Replies \ {want'[c]})
    BY <2>1 DEF Has
  <2> QED
    BY <1>1, <1>2, <1>4, <2>1, <2>2 DEF Matches, Pending, Answered
<1> QED
  BY <1>3, <1>4

\* c gets the answer it waits for.
LEMMA MatchesAnswered ==
  ASSUME DatagramTypeOK, NEW c \in Clients, Matches(c), NEW reply \in Replies,
         Less(Line(c)', Line(c), Own(c)), ~Pending(c)', ~Asks(c)', ~Answered(c),
         main[c] = "wait", want[c] = reply, main'[c] = main[c], want'[c] = want[c],
         inbox'[c] = Append(inbox[c], reply)
  PROVE  Matches(c)'
<1>1. inbox[c] \in Seq(Datagrams) /\ reply \in Datagrams
  BY LineTypes DEF Datagrams
<1>2. Once(Line(c)', Mine(c))
  <2>1. Once(Line(c), Mine(c)) /\ Mine(c) \subseteq Own(c)
    BY OwnKinds DEF Matches
  <2> QED
    BY <2>1, LessUse
<1>3. Once(inbox'[c], Replies)
  BY <1>1, InAppend DEF Matches, Answered
<1>4. ~Has(Line(c)', {m \in Mine(c) : m.kind # want'[c]})
  BY DEF Has, Pending
<1>5. ~Has(inbox'[c], Replies \ {want'[c]})
  <2> DEFINE T == Replies \ {want[c]}
  <2>1. ~Has(inbox[c], T) /\ reply \notin T
    BY DEF Matches
  <2>2. Has(Append(inbox[c], reply), T) <=> Has(inbox[c], T) \/ reply \in T
    <3> HIDE DEF T
    <3> QED
      BY <1>1, InAppend
  <2> QED
    BY <2>1, <2>2
<1> QED
  BY <1>2, <1>3, <1>4, <1>5 DEF Matches

LEMMA BelongsStays ==
  ASSUME NEW c \in Clients, Belongs(c), Less(Line(c)', Line(c), Own(c)),
         Listed(c) => Listed(c)', Member(c)' => Member(c)
  PROVE  Belongs(c)'
<1>1. /\ Has(Line(c)', Leaves(c)) => Has(Line(c), Leaves(c))
      /\ Before(Line(c), Joins(c), Leaves(c)) => Before(Line(c)', Joins(c), Leaves(c))
  BY OwnKinds, LessUse
<1> QED
  BY <1>1 DEF Belongs

LEMMA ListedStays == ASSUME NEW c, clients' = clients PROVE Listed(c)' <=> Listed(c)
BY DEF Listed

-----------------------------------------------------------------------------
\* zad1: messages the server takes and sends

\* Types of requests, apart from the rest.
LineTypeOK ==
  /\ requests \in [BOOLEAN -> Seq(Requests)]
  /\ \A unix \in BOOLEAN : \A k \in DOMAIN requests[unix] : local[requests[unix][k].from] = unix

LEMMA RequestTaken ==
  ASSUME DatagramTypeOK, local' = local, NEW unix \in BOOLEAN, requests[unix] # <<>>,
         requests' = [requests EXCEPT ![unix] = Tail(@)]
  PROVE  /\ LineTypeOK' /\ Head(requests[unix]) \in Requests
         /\ local[Head(requests[unix]).from] = unix
         /\ \A c \in Clients : Less(Line(c)', Line(c), Own(c))
         /\ \A c \in Clients : local[c] = unix =>
              Line(c) = requests[unix] /\ Line(c)' = Tail(requests[unix])
<1> DEFINE s == requests[unix]
<1>1. requests \in [BOOLEAN -> Seq(Requests)] /\ s \in Seq(Requests)
  BY DEF DatagramTypeOK
<1>2. \A k \in DOMAIN s : local[s[k].from] = unix
  BY DEF DatagramTypeOK
<1>3. /\ requests' \in [BOOLEAN -> Seq(Requests)] /\ requests'[unix] = Tail(s)
      /\ \A u \in BOOLEAN : u # unix => requests'[u] = requests[u]
  <2>1. Tail(s) \in Seq(Requests)
    BY <1>1
  <2> QED
    BY <1>1, <2>1
<1>4. /\ Head(s) = s[1] /\ 1 \in DOMAIN s /\ s[1] \in Requests
      /\ \A k \in DOMAIN Tail(s) : k + 1 \in DOMAIN s /\ Tail(s)[k] = s[k + 1]
  BY <1>1
<1>5. \A k \in DOMAIN Tail(s) : local[Tail(s)[k].from] = unix
  BY <1>2, <1>4
<1>6. ASSUME NEW u \in BOOLEAN, NEW k \in DOMAIN requests'[u]
      PROVE  local[requests'[u][k].from] = u
  <2>1. CASE u = unix
    BY <1>3, <1>5, <2>1
  <2>2. CASE u # unix
    <3>1. requests'[u] = requests[u]
      BY <1>3, <2>2
    <3>2. \A j \in DOMAIN requests[u] : local[requests[u][j].from] = u
      BY DEF DatagramTypeOK
    <3> QED
      BY <3>1, <3>2
  <2> QED
    BY <2>1, <2>2
<1>7. LineTypeOK'
  BY <1>3, <1>6 DEF LineTypeOK
<1>8. ASSUME NEW c \in Clients
      PROVE  /\ Less(Line(c)', Line(c), Own(c))
             /\ local[c] = unix => Line(c) = s /\ Line(c)' = Tail(s)
  <2>0. local[c] \in BOOLEAN /\ Line(c) = requests[local[c]] /\ Line(c)' = requests'[local[c]]
    BY LineTypes DEF Line
  <2>1. CASE local[c] = unix
    <3>1. Line(c) = s /\ Line(c)' = Tail(s)
      BY <1>3, <2>0, <2>1
    <3> QED
      BY <1>1, <3>1, LessTail
  <2>2. CASE local[c] # unix
    <3>1. Line(c)' = Line(c)
      BY <1>3, <2>0, <2>2
    <3> QED
      BY <2>2, <3>1, LessSame
  <2> QED
    BY <2>1, <2>2
<1> QED
  BY <1>2, <1>4, <1>7, <1>8

\* What becomes of a datagram the server sends to the address of d: it is d's, or
\* whoever has it is misled, and so is d.
LEMMA SendOutcome ==
  ASSUME DatagramTypeOK, NEW d \in Someone, NEW m \in Datagrams, NEW after, D!Send(d, m, after)
  PROVE  /\ inbox' \in [Clients -> Seq(Datagrams)]
         /\ \/ d \in Clients /\ server' = after
            \/ server' = [D!Waiting EXCEPT !.pc = "ended"]
         /\ \A c \in Clients : \/ inbox'[c] = inbox[c]
                               \/ inbox'[c] = Append(inbox[c], m)
         /\ \A c \in Clients \ D!Misled(d) :
              \/ inbox'[c] = inbox[c]
              \/ c = d /\ inbox'[c] = Append(inbox[c], m)
<1>1. inbox \in [Clients -> Seq(Datagrams)]
  BY DEF DatagramTypeOK
<1>2. \A c \in Clients : Append(inbox[c], m) \in Seq(Datagrams)
  BY <1>1
<1>3. ASSUME NEW e \in D!Holders(d), inbox' = [inbox EXCEPT ![e] = Append(@, m)], server' = after
      PROVE  /\ d \in Clients /\ inbox' \in [Clients -> Seq(Datagrams)]
             /\ \A c \in Clients : \/ inbox'[c] = inbox[c]
                                   \/ c = e /\ inbox'[c] = Append(inbox[c], m)
             /\ e # d => e \in D!Misled(d)
  <2>1. e \in Clients /\ d \in Clients
    BY <1>3 DEF D!Holders, Someone
  <2>2. e # d => e \in D!Misled(d)
    BY <1>3 DEF D!Misled
  <2> QED
    BY <1>1, <1>2, <1>3, <2>1, <2>2
<1>4. CASE D!Holders(d) # {}
  <2>1. PICK e \in D!Holders(d) : inbox' = [inbox EXCEPT ![e] = Append(@, m)] /\ server' = after
    BY <1>4 DEF D!Send
  <2>2. /\ d \in Clients /\ inbox' \in [Clients -> Seq(Datagrams)]
        /\ \A c \in Clients : \/ inbox'[c] = inbox[c]
                              \/ c = e /\ inbox'[c] = Append(inbox[c], m)
        /\ e # d => e \in D!Misled(d)
    BY <1>3, <2>1
  <2>3. ASSUME NEW c \in Clients \ D!Misled(d)
        PROVE  \/ inbox'[c] = inbox[c]
               \/ c = d /\ inbox'[c] = Append(inbox[c], m)
    BY <2>2
  <2>4. ASSUME NEW c \in Clients
        PROVE  inbox'[c] = inbox[c] \/ inbox'[c] = Append(inbox[c], m)
    BY <2>2
  <2> QED
    BY <2>1, <2>2, <2>3, <2>4
<1>5. CASE D!Holders(d) = {}
  <2>1. /\ inbox' = inbox
        /\ \/ d \in Clients /\ server' = after
           \/ server' = [D!Waiting EXCEPT !.pc = "ended"]
    BY <1>5 DEF D!Send, D!Ended, Someone
  <2>2. inbox' \in [Clients -> Seq(Datagrams)] /\ \A c \in Clients : inbox'[c] = inbox[c]
    BY <1>1, <2>1
  <2> QED
    BY <2>1, <2>2
<1> QED
  BY <1>4, <1>5

LEMMA MisledAreClients ==
  ASSUME NEW d \in Clients
  PROVE  D!Misled(d) \subseteq Clients
BY DEF D!Misled, D!Holders

ServerTypeOK ==
  /\ server \in [pc : {"receive", "ask", "ended"}, asker : Someone, asked : Someone]
  /\ server.pc = "ask" => server.asker \in Clients /\ server.asked \in Clients
  /\ server.pc # "ask" => server.asker = Nobody

LEMMA ServerStates ==
  ASSUME \/ server' = D!Waiting
         \/ server' = [D!Waiting EXCEPT !.pc = "ended"]
         \/ \E c, d \in Clients : server' = [pc |-> "ask", asker |-> c, asked |-> d]
  PROVE  /\ ServerTypeOK'
         /\ server' = D!Waiting => server'.pc = "receive" /\ server'.asker = Nobody
         /\ server' = [D!Waiting EXCEPT !.pc = "ended"] =>
              server'.pc = "ended" /\ server'.asker = Nobody
<1>1. /\ D!Waiting \in [pc : {"receive", "ask", "ended"}, asker : Someone, asked : Someone]
      /\ D!Waiting.pc = "receive" /\ D!Waiting.asker = Nobody
  BY DEF D!Waiting, Someone
<1>2. /\ [D!Waiting EXCEPT !.pc = "ended"] \in
           [pc : {"receive", "ask", "ended"}, asker : Someone, asked : Someone]
      /\ [D!Waiting EXCEPT !.pc = "ended"].pc = "ended"
      /\ [D!Waiting EXCEPT !.pc = "ended"].asker = Nobody
  BY DEF D!Waiting, Someone
<1>3. CASE server' = D!Waiting
  BY <1>1, <1>3 DEF ServerTypeOK, D!Waiting
<1>4. CASE server' = [D!Waiting EXCEPT !.pc = "ended"]
  BY <1>2, <1>4 DEF ServerTypeOK, D!Waiting
<1>5. ASSUME NEW c \in Clients, NEW d \in Clients,
             server' = [pc |-> "ask", asker |-> c, asked |-> d]
      PROVE  /\ ServerTypeOK' /\ server' # D!Waiting
             /\ server' # [D!Waiting EXCEPT !.pc = "ended"]
  BY <1>1, <1>2, <1>5 DEF ServerTypeOK, Someone
<1> QED
  BY <1>3, <1>4, <1>5

-----------------------------------------------------------------------------
\* zad1: the steps of the server

LEMMA ServerKeepsTypes ==
  ASSUME DatagramTypeOK, LineTypeOK', ServerTypeOK',
         inbox' \in [Clients -> Seq(Datagrams)],
         clients' \in [D!Entries -> [name : {"", "here", "there"}, who : Someone]],
         disturbed' \subseteq Clients, UNCHANGED <<local, place, main, want, files, budget>>
  PROVE  DatagramTypeOK'
BY DEF DatagramTypeOK, LineTypeOK, ServerTypeOK

\* The request at the head is the one its client waits for.
LEMMA HeadMatches ==
  ASSUME DatagramTypeOK, local' = local, NEW unix \in BOOLEAN, requests[unix] # <<>>,
         requests' = [requests EXCEPT ![unix] = Tail(@)],
         NEW c \in Clients, Matches(c), Head(requests[unix]) \in Mine(c)
  PROVE  /\ main[c] = "wait" /\ want[c] = Head(requests[unix]).kind
         /\ ~Answered(c) /\ ~Asks(c) /\ ~Pending(c)'
<1> DEFINE m == Head(requests[unix])
<1>1. /\ local[c] = unix /\ Line(c) = requests[unix] /\ Line(c)' = Tail(requests[unix])
      /\ Line(c) \in Seq(Requests) /\ Line(c) # <<>>
  <2>1. m.from = c
    BY DEF Mine, Own
  <2> QED
    BY <2>1, RequestTaken, LineTypes
<1>2. Has(Line(c), Mine(c)) /\ ~Has(Tail(Line(c)), Mine(c))
  <2>1. Once(Line(c), Mine(c))
    BY DEF Matches
  <2> QED
    BY <1>1, <2>1, InTail
<1>3. m.kind = want[c]
  <2> DEFINE wrong == {x \in Mine(c) : x.kind # want[c]}
  <2>1. ~Has(Line(c), wrong)
    BY DEF Matches
  <2>2. m \notin wrong
    <3> HIDE DEF wrong
    <3> QED
      BY <1>1, <2>1, InTail
  <2> QED
    BY <2>2
<1> QED
  BY <1>1, <1>2, <1>3 DEF Matches, Pending

\* A reply to r and nothing else.
LEMMA RepliesMatch ==
  ASSUME DatagramTypeOK, \A c \in Clients \ disturbed : Matches(c),
         NEW r \in Clients, NEW reply \in Replies, UNCHANGED <<local, main, want>>,
         disturbed \subseteq disturbed', server'.asker = Nobody,
         \A c \in Clients : Less(Line(c)', Line(c), Own(c)),
         \A c \in Clients \ disturbed' : \/ inbox'[c] = inbox[c]
                                         \/ c = r /\ inbox'[c] = Append(inbox[c], reply),
         r \notin disturbed' =>
           main[r] = "wait" /\ want[r] = reply /\ ~Answered(r) /\ ~Pending(r)'
  PROVE  \A c \in Clients \ disturbed' : Matches(c)'
<1> SUFFICES ASSUME NEW c \in Clients, c \notin disturbed' PROVE Matches(c)'
  OBVIOUS
<1>1. Matches(c) /\ ~Asks(c)' /\ Less(Line(c)', Line(c), Own(c))
  BY RegistriesAssumption DEF Asks
<1>2. CASE inbox'[c] = inbox[c]
  <2>1. Less(inbox'[c], inbox[c], Replies)
    BY <1>2, LessSame
  <2> QED
    BY <1>1, <2>1, MatchesStay
<1>3. CASE c = r /\ inbox'[c] = Append(inbox[c], reply)
  BY <1>1, <1>3, MatchesAnswered
<1> QED
  BY <1>2, <1>3

\* The list is as it was, and nobody is told that it was added.
LEMMA StillBelong ==
  ASSUME server.pc # "ended" => \A c \in Clients \ disturbed : Sole(c) => Belongs(c),
         server'.pc # "ended" => server.pc # "ended",
         UNCHANGED <<place, clients, main, want>>, disturbed \subseteq disturbed',
         \A c \in Clients : Less(Line(c)', Line(c), Own(c)),
         \A c \in Clients \ disturbed' : Answered(c)' => Answered(c) \/ want[c] # "ADD_CLIENT"
  PROVE  server'.pc # "ended" => \A c \in Clients \ disturbed' : Sole(c)' => Belongs(c)'
<1> SUFFICES ASSUME server'.pc # "ended", NEW c \in Clients, c \notin disturbed', Sole(c)'
             PROVE  Belongs(c)'
  OBVIOUS
<1>1. Sole(c)
  BY DEF Sole, D!name
<1>2. Belongs(c)
  BY <1>1
<1>3. Member(c)' => Member(c)
  BY DEF Member
<1>4. Listed(c)' <=> Listed(c)
  BY ListedStays
<1> QED
  BY <1>2, <1>3, <1>4, BelongsStays

LEMMA ListClientsStep ==
  ASSUME DatagramInv, NEW unix \in BOOLEAN, D!ListClients(unix)
  PROVE  DatagramInv'
<1> DEFINE m == Head(requests[unix])
<1>0. /\ DatagramTypeOK /\ EntriesInv /\ \A c \in Clients \ disturbed : Matches(c)
      /\ server.pc # "ended" => \A c \in Clients \ disturbed : Sole(c) => Belongs(c)
  BY DEF DatagramInv
<1>1. /\ requests[unix] # <<>> /\ requests' = [requests EXCEPT ![unix] = Tail(@)]
      /\ m.kind = "LIST_CLIENTS" /\ server.pc = "receive"
      /\ D!Send(m.from, "LIST_CLIENTS", D!Waiting)
      /\ disturbed' = disturbed \cup D!Misled(m.from)
      /\ UNCHANGED <<local, place, clients, main, want, files, budget>>
  BY DEF D!ListClients, D!Request, D!fixed, D!client_
<1>2. /\ LineTypeOK' /\ m \in Requests /\ m.from \in Clients
      /\ \A c \in Clients : Less(Line(c)', Line(c), Own(c))
  BY <1>0, <1>1, RequestTaken DEF Requests
<1>r. PICK r \in Clients : r = m.from
  BY <1>2
<1>3. /\ inbox' \in [Clients -> Seq(Datagrams)]
      /\ server' = D!Waiting \/ server' = [D!Waiting EXCEPT !.pc = "ended"]
      /\ \A c \in Clients \ disturbed' :
           \/ inbox'[c] = inbox[c]
           \/ c = r /\ inbox'[c] = Append(inbox[c], "LIST_CLIENTS")
  BY <1>0, <1>1, <1>r, SendOutcome DEF Someone, Datagrams, Replies
<1>4. ServerTypeOK' /\ server'.asker = Nobody
  BY <1>3, ServerStates
<1>d. disturbed \subseteq disturbed' /\ disturbed' \subseteq Clients
  BY <1>0, <1>1, <1>2, MisledAreClients DEF DatagramTypeOK
<1>5. DatagramTypeOK'
  BY <1>0, <1>1, <1>2, <1>3, <1>4, <1>d, ServerKeepsTypes DEF DatagramTypeOK
<1>6. r \notin disturbed =>
        main[r] = "wait" /\ want[r] = "LIST_CLIENTS" /\ ~Answered(r) /\ ~Pending(r)'
  <2>1. m \in Mine(r)
    BY <1>1, <1>2, <1>r DEF Mine, Own
  <2>2. ASSUME r \notin disturbed
        PROVE  main[r] = "wait" /\ want[r] = m.kind /\ ~Answered(r) /\ ~Pending(r)'
    <3>1. Matches(r) /\ local' = local
      BY <1>0, <1>1, <1>2, <2>2
    <3> QED
      BY <1>0, <1>1, <1>2, <2>1, <3>1, HeadMatches
  <2> QED
    BY <1>1, <2>2
<1> HIDE DEF m
<1>7. \A c \in Clients \ disturbed' : Matches(c)'
  <2>1. /\ UNCHANGED <<local, main, want>> /\ disturbed \subseteq disturbed'
        /\ r \notin disturbed' => r \notin disturbed
    BY <1>1, <1>d
  <2>2. "LIST_CLIENTS" \in Replies
    BY DEF Replies
  <2> QED
    BY <1>0, <1>2, <1>3, <1>4, <1>6, <2>1, <2>2, RepliesMatch
<1>8. server'.pc # "ended" => \A c \in Clients \ disturbed' : Sole(c)' => Belongs(c)'
  <2>1. /\ UNCHANGED <<place, clients, main, want>> /\ disturbed \subseteq disturbed'
        /\ server'.pc # "ended" => server.pc # "ended"
    BY <1>1, <1>d
  <2>2. \A c \in Clients \ disturbed' : Answered(c)' => Answered(c) \/ want[c] # "ADD_CLIENT"
    BY <1>d, <1>3, <1>6 DEF Answered
  <2> QED
    BY <1>0, <1>2, <2>1, <2>2, StillBelong
<1>9. EntriesInv'
  BY <1>0, <1>1 DEF EntriesInv, D!name
<1> QED
  BY <1>5, <1>7, <1>8, <1>9 DEF DatagramInv

\* Something else is taken and nobody gets an answer.
LEMMA NoReplyMatches ==
  ASSUME \A c \in Clients \ disturbed : Matches(c),
         UNCHANGED <<main, want>>, disturbed \subseteq disturbed',
         \A c \in Clients \ disturbed' : Asks(c)' => Asks(c),
         \A c \in Clients : /\ Less(Line(c)', Line(c), Own(c))
                            /\ Less(inbox'[c], inbox[c], Replies)
  PROVE  \A c \in Clients \ disturbed' : Matches(c)'
<1> SUFFICES ASSUME NEW c \in Clients, c \notin disturbed' PROVE Matches(c)'
  OBVIOUS
<1>1. Matches(c) /\ (Asks(c)' => Asks(c))
  OBVIOUS
<1> QED
  BY <1>1, MatchesStay

LEMMA NotRecognizedStep ==
  ASSUME DatagramInv, NEW unix \in BOOLEAN, D!NotRecognized(unix)
  PROVE  DatagramInv'
<1>0. /\ DatagramTypeOK /\ EntriesInv /\ \A c \in Clients \ disturbed : Matches(c)
      /\ server.pc # "ended" => \A c \in Clients \ disturbed : Sole(c) => Belongs(c)
  BY DEF DatagramInv
<1>1. /\ requests[unix] # <<>> /\ requests' = [requests EXCEPT ![unix] = Tail(@)]
      /\ UNCHANGED <<local, place, clients, server, inbox, main, want, files, budget, disturbed>>
  BY DEF D!NotRecognized, D!Request, D!fixed, D!client_
<1>2. LineTypeOK' /\ \A c \in Clients : Less(Line(c)', Line(c), Own(c))
  BY <1>0, <1>1, RequestTaken
<1>3. DatagramTypeOK'
  BY <1>0, <1>1, <1>2 DEF DatagramTypeOK, LineTypeOK
<1>4. \A c \in Clients \ disturbed' : Matches(c)'
  <2>1. \A c \in Clients : Less(inbox'[c], inbox[c], Replies) /\ (Asks(c)' => Asks(c))
    BY <1>1, LessSame DEF Asks
  <2> QED
    BY <1>0, <1>1, <1>2, <2>1, NoReplyMatches
<1>5. server'.pc # "ended" => \A c \in Clients \ disturbed' : Sole(c)' => Belongs(c)'
  <2>1. \A c \in Clients \ disturbed' : Answered(c)' => Answered(c)
    BY <1>1 DEF Answered
  <2> QED
    BY <1>0, <1>1, <1>2, <2>1, StillBelong
<1>6. EntriesInv'
  BY <1>0, <1>1 DEF EntriesInv, D!name
<1> QED
  BY <1>3, <1>4, <1>5, <1>6 DEF DatagramInv

LEMMA AskClientStep ==
  ASSUME DatagramInv, NEW unix \in BOOLEAN, D!AskClient(unix)
  PROVE  DatagramInv'
<1> DEFINE m == Head(requests[unix])
<1>0. /\ DatagramTypeOK /\ EntriesInv /\ \A c \in Clients \ disturbed : Matches(c)
      /\ server.pc # "ended" => \A c \in Clients \ disturbed : Sole(c) => Belongs(c)
  BY DEF DatagramInv
<1>1. /\ requests[unix] # <<>> /\ requests' = [requests EXCEPT ![unix] = Tail(@)]
      /\ m.kind = "CLIENT_INFO" /\ server.pc = "receive"
      /\ D!Send(clients[m.no].who, "question",
                [pc |-> "ask", asker |-> m.from, asked |-> clients[m.no].who])
      /\ UNCHANGED <<local, place, clients, main, want, files, budget, disturbed>>
  BY DEF D!AskClient, D!Request, D!fixed, D!client_
<1>2. /\ LineTypeOK' /\ m \in Requests /\ m.from \in Clients /\ m.no \in D!Entries
      /\ \A c \in Clients : Less(Line(c)', Line(c), Own(c))
  BY <1>0, <1>1, RequestTaken DEF Requests
<1>3. PICK r \in Clients, a \in Someone : r = m.from /\ a = clients[m.no].who
  BY <1>0, <1>2 DEF DatagramTypeOK
<1>4. D!Send(a, "question", [pc |-> "ask", asker |-> r, asked |-> a])
  BY <1>1, <1>3
<1>5. /\ inbox' \in [Clients -> Seq(Datagrams)]
      /\ \/ a \in Clients /\ server' = [pc |-> "ask", asker |-> r, asked |-> a]
         \/ server' = [D!Waiting EXCEPT !.pc = "ended"]
      /\ \A c \in Clients : \/ inbox'[c] = inbox[c]
                            \/ inbox'[c] = Append(inbox[c], "question")
  BY <1>0, <1>4, SendOutcome DEF Datagrams
<1>6. ServerTypeOK' /\ (server'.asker = r \/ server'.asker = Nobody)
  BY <1>5, ServerStates
<1>7. DatagramTypeOK'
  BY <1>0, <1>1, <1>2, <1>5, <1>6, ServerKeepsTypes DEF DatagramTypeOK
<1>8. ASSUME r \notin disturbed
      PROVE  main[r] = "wait" /\ want[r] = "CLIENT_INFO" /\ ~Answered(r) /\ ~Pending(r)'
  <2>1. m \in Mine(r) /\ Matches(r) /\ local' = local
    BY <1>0, <1>1, <1>2, <1>3, <1>8 DEF Mine, Own
  <2>2. main[r] = "wait" /\ want[r] = m.kind /\ ~Answered(r) /\ ~Pending(r)'
    BY <1>0, <1>1, <2>1, HeadMatches
  <2> QED
    BY <1>1, <2>2
<1> HIDE DEF m
<1>9. ASSUME NEW c \in Clients PROVE Less(inbox'[c], inbox[c], Replies)
  <2>1. inbox[c] \in Seq(Datagrams) /\ "question" \in Datagrams /\ "question" \notin Replies
    BY <1>0 DEF DatagramTypeOK, Datagrams, Replies
  <2>2. CASE inbox'[c] = inbox[c]
    BY <2>2, LessSame
  <2>3. CASE inbox'[c] = Append(inbox[c], "question")
    <3>1. Less(Append(inbox[c], "question"), inbox[c], Replies)
      BY <2>1, LessAppend
    <3> QED
      BY <2>3, <3>1
  <2> QED
    BY <1>5, <2>2, <2>3
<1>10. ASSUME NEW c \in Clients PROVE Answered(c)' => Answered(c)
  BY <1>9, LessUse DEF Answered
<1>11. ASSUME NEW c \in Clients, c \notin disturbed' PROVE Matches(c)'
  <2>1. Matches(c) /\ UNCHANGED <<main, want, disturbed>>
    BY <1>0, <1>1, <1>11
  <2>2. CASE Asks(c)'
    <3>1. c = r
      BY <1>6, <2>2, RegistriesAssumption DEF Asks
    <3>2. main[c] = "wait" /\ want[c] = "CLIENT_INFO" /\ ~Answered(c)' /\ ~Pending(c)'
      BY <1>8, <1>10, <1>11, <2>1, <3>1
    <3>3. Once(Line(c)', Mine(c)) /\ Once(inbox'[c], Replies)
      BY <1>2, <1>9, <2>1, LessUse, OwnKinds DEF Matches
    <3>4. /\ ~Has(Line(c)', {x \in Mine(c) : x.kind # want'[c]})
          /\ ~Has(inbox'[c], Replies \ {want'[c]})
      BY <3>2 DEF Has, Pending, Answered
    <3> QED
      BY <2>1, <2>2, <3>2, <3>3, <3>4 DEF Matches
  <2>3. CASE ~Asks(c)'
    BY <1>2, <1>9, <2>1, <2>3, MatchesStay
  <2> QED
    BY <2>2, <2>3
<1>12. server'.pc # "ended" => \A c \in Clients \ disturbed' : Sole(c)' => Belongs(c)'
  <2>1. /\ UNCHANGED <<place, clients, main, want>> /\ disturbed \subseteq disturbed'
        /\ server'.pc # "ended" => server.pc # "ended"
    BY <1>1
  <2> QED
    BY <1>0, <1>2, <1>10, <2>1, StillBelong
<1>13. EntriesInv'
  BY <1>0, <1>1 DEF EntriesInv, D!name
<1> QED
  BY <1>7, <1>11, <1>12, <1>13 DEF DatagramInv

\* The answer, or what is taken for it, goes to the one who asked; or there is none.
LEMMA AskerAnswered ==
  ASSUME DatagramInv, server.pc = "ask", LineTypeOK',
         disturbed \subseteq disturbed', disturbed' \subseteq Clients,
         D!Misled(server.asker) \subseteq disturbed',
         \A c \in Clients : Less(Line(c)', Line(c), Own(c)),
         D!Send(server.asker, "CLIENT_INFO", D!Waiting),
         UNCHANGED <<local, place, clients, main, want, files, budget>>
  PROVE  DatagramInv'
<1>0. /\ DatagramTypeOK /\ EntriesInv /\ \A c \in Clients \ disturbed : Matches(c)
      /\ server.pc # "ended" => \A c \in Clients \ disturbed : Sole(c) => Belongs(c)
  BY DEF DatagramInv
<1>r. PICK r \in Clients : r = server.asker
  BY <1>0 DEF DatagramTypeOK
<1>1. /\ inbox' \in [Clients -> Seq(Datagrams)]
      /\ server' = D!Waiting \/ server' = [D!Waiting EXCEPT !.pc = "ended"]
      /\ \A c \in Clients \ disturbed' :
           \/ inbox'[c] = inbox[c]
           \/ c = r /\ inbox'[c] = Append(inbox[c], "CLIENT_INFO")
  BY <1>0, <1>r, SendOutcome DEF Someone, Datagrams, Replies
<1>2. ServerTypeOK' /\ server'.asker = Nobody
  BY <1>1, ServerStates
<1>3. DatagramTypeOK'
  BY <1>0, <1>1, <1>2, ServerKeepsTypes DEF DatagramTypeOK
<1>4. r \notin disturbed' =>
        main[r] = "wait" /\ want[r] = "CLIENT_INFO" /\ ~Answered(r) /\ ~Pending(r)'
  <2> SUFFICES ASSUME r \notin disturbed'
               PROVE  main[r] = "wait" /\ want[r] = "CLIENT_INFO" /\ ~Answered(r) /\ ~Pending(r)'
    OBVIOUS
  <2>1. Matches(r) /\ Asks(r)
    BY <1>0, <1>r DEF Asks
  <2>2. main[r] = "wait" /\ want[r] = "CLIENT_INFO" /\ ~Answered(r) /\ ~Pending(r)
    BY <2>1 DEF Matches
  <2>3. Has(Line(r)', Mine(r)) => Has(Line(r), Mine(r))
    BY LessUse, OwnKinds
  <2> QED
    BY <2>2, <2>3 DEF Pending
<1>5. \A c \in Clients \ disturbed' : Matches(c)'
  <2>1. "CLIENT_INFO" \in Replies
    BY DEF Replies
  <2> QED
    BY <1>0, <1>1, <1>2, <1>4, <2>1, RepliesMatch
<1>6. server'.pc # "ended" => \A c \in Clients \ disturbed' : Sole(c)' => Belongs(c)'
  <2>1. \A c \in Clients \ disturbed' : Answered(c)' => Answered(c) \/ want[c] # "ADD_CLIENT"
    BY <1>1, <1>4 DEF Answered
  <2> QED
    BY <1>0, <2>1, StillBelong
<1>7. EntriesInv'
  BY <1>0 DEF EntriesInv, D!name
<1> QED
  BY <1>3, <1>5, <1>6, <1>7 DEF DatagramInv

LEMMA InfoReceivedStep == ASSUME DatagramInv, D!InfoReceived PROVE DatagramInv'
<1>0. DatagramTypeOK
  BY DEF DatagramInv
<1>1. PICK unix \in BOOLEAN : unix = local[server.asked]
  <2>1. server.pc = "ask"
    BY DEF D!InfoReceived
  <2>2. local \in [Clients -> BOOLEAN] /\ server.asked \in Clients
    BY <1>0, <2>1 DEF DatagramTypeOK
  <2> QED
    BY <2>2
<1>2. /\ server.pc = "ask" /\ requests[unix] # <<>>
      /\ requests' = [requests EXCEPT ![unix] = Tail(@)]
      /\ \/ disturbed' = disturbed \cup D!Misled(server.asker)
         \/ disturbed' = disturbed \cup D!Misled(server.asker) \cup {Head(requests[unix]).from}
      /\ D!Send(server.asker, "CLIENT_INFO", D!Waiting)
      /\ UNCHANGED <<local, place, clients, main, want, files, budget>>
  BY <1>1 DEF D!InfoReceived, D!fixed, D!client_
<1>3. /\ LineTypeOK' /\ Head(requests[unix]).from \in Clients
      /\ \A c \in Clients : Less(Line(c)', Line(c), Own(c))
  BY <1>0, <1>2, RequestTaken DEF Requests
<1>4. /\ disturbed \subseteq disturbed' /\ disturbed' \subseteq Clients
      /\ D!Misled(server.asker) \subseteq disturbed'
  <2>1. D!Misled(server.asker) \subseteq Clients
    BY <1>0, <1>2, MisledAreClients DEF DatagramTypeOK
  <2> QED
    BY <1>0, <1>2, <1>3, <2>1 DEF DatagramTypeOK
<1> QED
  BY <1>2, <1>3, <1>4, AskerAnswered

LEMMA NotRespondingStep == ASSUME DatagramInv, D!NotResponding PROVE DatagramInv'
<1>0. DatagramTypeOK
  BY DEF DatagramInv
<1>1. /\ server.pc = "ask" /\ D!Send(server.asker, "CLIENT_INFO", D!Waiting)
      /\ disturbed' = disturbed \cup D!Misled(server.asker)
      /\ UNCHANGED <<local, place, clients, main, want, files, budget, requests>>
  BY DEF D!NotResponding, D!fixed, D!client_
<1>2. LineTypeOK' /\ disturbed \subseteq disturbed' /\ disturbed' \subseteq Clients
  <2>1. D!Misled(server.asker) \subseteq Clients
    BY <1>0, <1>1, MisledAreClients DEF DatagramTypeOK
  <2> QED
    BY <1>0, <1>1, <2>1 DEF DatagramTypeOK, LineTypeOK
<1>3. \A c \in Clients : Less(Line(c)', Line(c), Own(c))
  BY <1>1, LessSame DEF Line
<1> QED
  BY <1>1, <1>2, <1>3, AskerAnswered

LEMMA SigintStep == ASSUME DatagramInv, D!sigint_handler PROVE DatagramInv'
<1>0. /\ DatagramTypeOK /\ EntriesInv /\ \A c \in Clients \ disturbed : Matches(c)
  BY DEF DatagramInv
<1>1. /\ server' = [D!Waiting EXCEPT !.pc = "ended"] /\ budget > 0 /\ budget' = budget - 1
      /\ UNCHANGED <<local, place, clients, requests, inbox, main, want, files, disturbed>>
  BY DEF D!sigint_handler, D!Ended, D!fixed, D!network
<1>2. ServerTypeOK' /\ server'.asker = Nobody /\ server'.pc = "ended"
  BY <1>1, ServerStates
<1>3. DatagramTypeOK'
  <2>1. budget' \in Nat
    <3>1. budget \in Nat
      BY <1>0 DEF DatagramTypeOK
    <3> QED
      BY <1>1, <3>1
  <2>2. /\ local \in [Clients -> BOOLEAN] /\ place \in [Clients -> Directories]
        /\ clients \in [D!Entries -> [name : {"", "here", "there"}, who : Someone]]
        /\ requests \in [BOOLEAN -> Seq(Requests)]
        /\ \A unix \in BOOLEAN : \A k \in DOMAIN requests[unix] : local[requests[unix][k].from] = unix
        /\ main \in [Clients -> {"off", "register", "menu", "wait", "leave", "hung"}]
        /\ want \in [Clients -> Replies \cup {""}]
        /\ \A c \in Clients : main[c] \notin {"wait", "hung"} => want[c] = ""
        /\ inbox \in [Clients -> Seq(Datagrams)]
        /\ files \subseteq Clients /\ disturbed \subseteq Clients
    BY <1>0 DEF DatagramTypeOK
  <2> QED
    BY <1>1, <1>2, <2>1, <2>2 DEF DatagramTypeOK, ServerTypeOK
<1>4. \A c \in Clients \ disturbed' : Matches(c)'
  <2>1. \A c \in Clients : ~Asks(c)'
    BY <1>2, RegistriesAssumption DEF Asks
  <2>2. \A c \in Clients : /\ Less(Line(c)', Line(c), Own(c))
                           /\ Less(inbox'[c], inbox[c], Replies)
    BY <1>1, LessSame DEF Line
  <2> QED
    BY <1>0, <1>1, <2>1, <2>2, NoReplyMatches
<1>5. EntriesInv'
  BY <1>0, <1>1 DEF EntriesInv, D!name
<1> QED
  BY <1>2, <1>3, <1>4, <1>5 DEF DatagramInv

-----------------------------------------------------------------------------
\* zad1: the list

\* A set of numbers has a least: the first entry that is empty, or that has a name.
LEMMA LeastNatural ==
  ASSUME NEW T, T \subseteq Nat, T # {}
  PROVE  \E m \in T : \A k \in T : m <= k
<1> DEFINE Upto == {0 .. n : n \in T}
<1>1. Upto \subseteq FiniteSubsetsOf(Nat) /\ Upto # {}
  <2>1. \A n \in T : n \in Int /\ IsFiniteSet(0 .. n) /\ 0 .. n \subseteq Nat
    BY FS_Interval
  <2> QED
    BY <2>1 DEF FiniteSubsetsOf
<1>2. PICK x \in Upto : \A y \in Upto : ~(<<y, x>> \in StrictSubsetOrdering(Nat))
  <2> HIDE DEF Upto
  <2> QED
    BY <1>1, FS_StrictSubsetOrderingWellFounded, WFMin
<1>3. PICK m \in T : x = 0 .. m
  BY <1>2
<1>4. ASSUME NEW k \in T, k < m PROVE FALSE
  <2>1. 0 .. k \in Upto /\ 0 .. k \subseteq Nat /\ 0 .. m \subseteq Nat
    BY <1>4
  <2>2. 0 .. k \subseteq 0 .. m /\ m \in 0 .. m /\ m \notin 0 .. k
    BY <1>4
  <2>3. <<0 .. k, 0 .. m>> \in StrictSubsetOrdering(Nat)
    BY <2>1, <2>2 DEF StrictSubsetOrdering
  <2> QED
    BY <1>2, <1>3, <2>1, <2>3
<1> QED
  BY <1>4

LEMMA EntryNumbers ==
  /\ MAX_CLIENTS \in Nat \ {0}
  /\ \A i \in D!Entries : i \in Nat /\ i < MAX_CLIENTS /\ i \in 0 .. MAX_CLIENTS
  /\ \A i \in Nat : i < MAX_CLIENTS => i \in D!Entries /\ 0 .. i \subseteq D!Entries
<1>1. MAX_CLIENTS \in Nat \ {0}
  BY RegistriesAssumption
<1> QED
  BY <1>1 DEF D!Entries

\* The code looks for the first empty entry and stops at MAX_CLIENTS.
LEMMA FirstEmptyFound ==
  /\ D!FirstEmpty \in 0 .. MAX_CLIENTS
  /\ D!FirstEmpty < MAX_CLIENTS => clients[D!FirstEmpty].name = ""
  /\ \A j \in D!Entries : j < D!FirstEmpty => clients[j].name # ""
<1> DEFINE T == {i \in 0 .. MAX_CLIENTS : i < MAX_CLIENTS => clients[i].name = ""}
<1>0. MAX_CLIENTS \in Nat
  BY RegistriesAssumption
<1>1. T \subseteq Nat /\ MAX_CLIENTS \in T
  <2>1. 0 .. MAX_CLIENTS \subseteq Nat /\ MAX_CLIENTS \in 0 .. MAX_CLIENTS
        /\ ~(MAX_CLIENTS < MAX_CLIENTS)
    BY <1>0
  <2> QED
    BY <2>1
<1>2. PICK i \in T : \A j \in T : i <= j
  <2> HIDE DEF T
  <2> QED
    BY <1>1, LeastNatural
<1> HIDE DEF T
<1>3. \A j \in D!Entries : j < i => clients[j].name # ""
  <2>1. ASSUME NEW j \in D!Entries, j < i, clients[j].name = "" PROVE FALSE
    <3>1. j \in 0 .. MAX_CLIENTS /\ j \in Int
      BY <1>0, EntryNumbers
    <3>2. i \in Int
      BY <1>1, <1>2
    <3>3. j \in T
      BY <2>1, <3>1 DEF T
    <3>4. i <= j
      BY <1>2, <3>3
    <3>5. ~(j < i)
      BY <3>1, <3>2, <3>4
    <3> QED
      BY <2>1, <3>5
  <2> QED
    BY <2>1
<1>4. \E k \in 0 .. MAX_CLIENTS :
        /\ k < MAX_CLIENTS => clients[k].name = ""
        /\ \A j \in D!Entries : j < k => clients[j].name # ""
  BY <1>2, <1>3 DEF T
<1> QED
  BY <1>4 DEF D!FirstEmpty

\* delete_client() finds the first entry of that name.
LEMMA FirstNamed ==
  ASSUME NEW n, D!Named(n) # {}
  PROVE  /\ D!Min(D!Named(n)) \in D!Entries /\ clients[D!Min(D!Named(n))].name = n
         /\ \A j \in D!Named(n) : D!Min(D!Named(n)) <= j
<1>1. D!Named(n) \subseteq Nat
  BY RegistriesAssumption DEF D!Named, D!Entries
<1>2. \E i \in D!Named(n) : \A j \in D!Named(n) : i <= j
  BY <1>1, LeastNatural
<1>3. D!Min(D!Named(n)) \in D!Named(n) /\ \A j \in D!Named(n) : D!Min(D!Named(n)) <= j
  BY <1>2 DEF D!Min
<1> QED
  BY <1>3 DEF D!Named

\* The new entry is the last of those that are shown; the others stay.
LEMMA AddedIsListed ==
  ASSUME DatagramTypeOK, EntriesInv, NEW r \in Clients, place' = place,
         D!FirstEmpty < MAX_CLIENTS,
         clients' = [clients EXCEPT ![D!FirstEmpty] = [name |-> D!name(r), who |-> r]]
  PROVE  /\ clients' \in [D!Entries -> [name : {"", "here", "there"}, who : Someone]]
         /\ EntriesInv' /\ Listed(r)' /\ \A c \in Clients : Listed(c) => Listed(c)'
<1> DEFINE f == D!FirstEmpty
           entry == [name |-> D!name(r), who |-> r]
<1>0. /\ f \in D!Entries /\ clients[f].name = ""
      /\ \A j \in D!Entries : j < f => clients[j].name # ""
      /\ \A i \in D!Entries : i \in Int /\ 0 .. i \subseteq D!Entries
  <2>1. f \in 0 .. MAX_CLIENTS /\ f < MAX_CLIENTS
    BY FirstEmptyFound
  <2>2. f \in D!Entries /\ \A i \in D!Entries : i \in Int /\ 0 .. i \subseteq D!Entries
    <3> HIDE DEF f
    <3> QED
      BY <2>1, EntryNumbers
  <2> QED
    BY <2>2, FirstEmptyFound
<1>1. clients \in [D!Entries -> [name : {"", "here", "there"}, who : Someone]]
  BY DEF DatagramTypeOK
<1>2. /\ entry \in [name : {"", "here", "there"}, who : Someone]
      /\ entry.name \in {"here", "there"} /\ entry.name = D!name(r) /\ entry.who = r
  BY DEF D!name, Someone
<1> HIDE DEF f, entry
<1>3. clients' = [clients EXCEPT ![f] = entry]
  BY DEF f, entry
<1>4. /\ clients' \in [D!Entries -> [name : {"", "here", "there"}, who : Someone]]
      /\ clients'[f] = entry /\ \A e \in D!Entries : e # f => clients'[e] = clients[e]
  <2>1. f \in D!Entries
    BY <1>0
  <2>2. entry \in [name : {"", "here", "there"}, who : Someone]
    BY <1>2
  <2> QED
    BY <1>1, <1>3, <2>1, <2>2
<1>5. EntriesInv'
  <2> SUFFICES ASSUME NEW e \in D!Entries, clients'[e].name # ""
               PROVE  clients'[e].who \in Clients /\ clients'[e].name = D!name(clients'[e].who)
    BY DEF EntriesInv, D!name
  <2> QED
    BY <1>2, <1>4 DEF EntriesInv
<1>6. Listed(r)'
  <2>1. \A j \in 0 .. f : clients'[j].name # ""
    <3> SUFFICES ASSUME NEW j \in 0 .. f PROVE clients'[j].name # ""
      OBVIOUS
    <3>0. f \in Nat /\ 0 .. f \subseteq D!Entries
      BY <1>0, EntryNumbers
    <3>1. j \in D!Entries /\ j \in Int /\ f \in Int /\ (j = f \/ j < f)
      BY <3>0
    <3>2. j # f => clients'[j] = clients[j]
      BY <1>4, <3>1
    <3>3. j = f => clients'[j].name # ""
      BY <1>2, <1>4
    <3> QED
      BY <1>0, <3>1, <3>2, <3>3
  <2> QED
    BY <1>0, <1>2, <1>4, <2>1 DEF Listed
<1>7. ASSUME NEW c \in Clients, Listed(c) PROVE Listed(c)'
  <2>1. PICK e \in D!Entries : clients[e].who = c /\ \A j \in 0 .. e : clients[j].name # ""
    BY <1>7 DEF Listed
  <2>2. f \notin 0 .. e
    BY <1>0, <2>1
  <2>3. \A j \in 0 .. e : clients'[j] = clients[j]
    BY <1>0, <1>4, <2>1, <2>2
  <2>4. e \in 0 .. e
    BY RegistriesAssumption DEF D!Entries
  <2> QED
    BY <2>1, <2>3, <2>4 DEF Listed
<1> QED
  BY <1>4, <1>5, <1>6, <1>7

\* Who has another name stays, perhaps one entry nearer to the front.
LEMMA DeletedLeavesOthers ==
  ASSUME DatagramTypeOK, EntriesInv, NEW r \in Clients, place' = place,
         D!delete_client(D!name(r))
  PROVE  /\ clients' \in [D!Entries -> [name : {"", "here", "there"}, who : Someone]]
         /\ EntriesInv'
         /\ \A c \in Clients : D!name(c) # D!name(r) /\ Listed(c) => Listed(c)'
<1> DEFINE k == D!Min(D!Named(D!name(r)))
<1>1. clients \in [D!Entries -> [name : {"", "here", "there"}, who : Someone]]
  BY DEF DatagramTypeOK
<1>2. CASE D!Named(D!name(r)) = {}
  <2>1. clients' = clients
    BY <1>2 DEF D!delete_client
  <2> QED
    BY <1>1, <2>1, ListedStays DEF EntriesInv, D!name
<1>3. CASE D!Named(D!name(r)) # {}
  <2>0. k \in D!Entries /\ clients[k].name = D!name(r)
    BY <1>3, FirstNamed
  <2>1. clients' = [i \in D!Entries |->
                     IF i < k THEN clients[i]
                     ELSE IF i + 1 < MAX_CLIENTS THEN clients[i + 1]
                     ELSE [clients[i] EXCEPT !.name = ""]]
    BY <1>3 DEF D!delete_client
  <2> HIDE DEF k
  <2>2. \A i \in D!Entries : /\ i \in Int /\ 0 <= i /\ i < MAX_CLIENTS /\ i \in 0 .. i
                             /\ 0 .. i \subseteq D!Entries
                             /\ i + 1 < MAX_CLIENTS => i + 1 \in D!Entries
    BY RegistriesAssumption DEF D!Entries
  <2>3. ASSUME NEW i \in D!Entries
        PROVE  /\ i < k => clients'[i] = clients[i]
               /\ ~(i < k) /\ i + 1 < MAX_CLIENTS => clients'[i] = clients[i + 1]
               /\ ~(i < k) /\ ~(i + 1 < MAX_CLIENTS) =>
                    clients'[i].name = "" /\ clients'[i].who = clients[i].who
    BY <1>1, <2>1
  <2>4. clients' \in [D!Entries -> [name : {"", "here", "there"}, who : Someone]]
    <3>1. \A i \in D!Entries : [clients[i] EXCEPT !.name = ""] \in
                                 [name : {"", "here", "there"}, who : Someone]
      BY <1>1
    <3> QED
      BY <1>1, <2>1, <2>2, <3>1
  <2>5. EntriesInv'
    <3> SUFFICES ASSUME NEW e \in D!Entries, clients'[e].name # ""
                 PROVE  clients'[e].who \in Clients /\ clients'[e].name = D!name(clients'[e].who)
      BY DEF EntriesInv, D!name
    <3>1. \/ clients'[e] = clients[e]
          \/ e + 1 \in D!Entries /\ clients'[e] = clients[e + 1]
      BY <2>2, <2>3
    <3> QED
      BY <3>1 DEF EntriesInv
  <2>6. ASSUME NEW c \in Clients, D!name(c) # D!name(r), Listed(c) PROVE Listed(c)'
    <3>1. PICK e \in D!Entries : clients[e].who = c /\ \A j \in 0 .. e : clients[j].name # ""
      BY <2>6 DEF Listed
    <3>2. clients[e].name = D!name(c) /\ e # k
      BY <2>0, <2>2, <2>6, <3>1 DEF EntriesInv
    <3>3. CASE e < k
      <4>1. \A j \in 0 .. e : clients'[j] = clients[j]
        <5> SUFFICES ASSUME NEW j \in 0 .. e PROVE clients'[j] = clients[j]
          OBVIOUS
        <5>1. j \in D!Entries
          BY <2>2
        <5>2. e \in Int /\ k \in Int /\ j \in Int
          BY <2>0, <2>2
        <5>3. j < k
          BY <3>3, <5>2
        <5> QED
          BY <2>3, <5>1, <5>3
      <4> QED
        BY <2>2, <3>1, <4>1 DEF Listed
    <3>4. CASE k < e
      <4>1. e - 1 \in D!Entries /\ k \in Int
        BY <2>0, <2>2, <3>4 DEF D!Entries
      <4>2. clients'[e - 1] = clients[e]
        <5>1. e \in Int /\ e < MAX_CLIENTS /\ MAX_CLIENTS \in Int
          BY <2>2, RegistriesAssumption
        <5>2. ~(e - 1 < k) /\ (e - 1) + 1 = e /\ (e - 1) + 1 < MAX_CLIENTS
          BY <3>4, <4>1, <5>1
        <5> QED
          BY <2>3, <4>1, <5>2
      <4>3. ASSUME NEW j \in 0 .. e - 1 PROVE clients'[j].name # ""
        <5>1. j \in Int /\ j \in D!Entries /\ j \in 0 .. e /\ j + 1 \in 0 .. e /\ j + 1 < MAX_CLIENTS
          BY <2>2, <4>1
        <5>2. clients'[j] = clients[j] \/ clients'[j] = clients[j + 1]
          BY <2>3, <5>1
        <5> QED
          BY <3>1, <5>1, <5>2
      <4> QED
        BY <3>1, <4>1, <4>2, <4>3 DEF Listed
    <3> QED
      BY <2>0, <2>2, <3>2, <3>3, <3>4
  <2> QED
    BY <2>4, <2>5, <2>6
<1> QED
  BY <1>2, <1>3

\* When the first is one of T and all of U are before those, there is none of U.
LEMMA HeadIsBefore ==
  ASSUME NEW X, NEW s \in Seq(X), s # <<>>, NEW T, NEW U, Head(s) \in T, Before(s, T, U)
  PROVE  ~Has(s, U)
<1>1. /\ 1 \in DOMAIN s /\ Head(s) = s[1] /\ \A k \in DOMAIN s : k \in Nat /\ k >= 1
  OBVIOUS
<1>2. ASSUME NEW k \in DOMAIN s, s[k] \in U PROVE FALSE
  <2>1. k < 1
    BY <1>1, <1>2 DEF Before
  <2>2. k \in Nat /\ k >= 1
    BY <1>1
  <2>3. ~(k < 1)
    BY <2>2
  <2> QED
    BY <2>1, <2>3
<1> QED
  BY <1>2 DEF Has

LEMMA AddClientStep ==
  ASSUME DatagramInv, NEW unix \in BOOLEAN, D!AddClient(unix)
  PROVE  DatagramInv'
<1> DEFINE m == Head(requests[unix])
<1>0. /\ DatagramTypeOK /\ EntriesInv /\ \A c \in Clients \ disturbed : Matches(c)
      /\ server.pc # "ended" => \A c \in Clients \ disturbed : Sole(c) => Belongs(c)
  BY DEF DatagramInv
<1>1. /\ requests[unix] # <<>> /\ requests' = [requests EXCEPT ![unix] = Tail(@)]
      /\ m.kind = "ADD_CLIENT" /\ server.pc = "receive"
      /\ D!add_client(m.from) /\ D!Send(m.from, "ADD_CLIENT", D!Waiting)
      /\ UNCHANGED <<local, place, main, want, files, budget>>
  BY DEF D!AddClient, D!Request, D!fixed, D!client_
<1>2. /\ LineTypeOK' /\ m \in Requests /\ m.from \in Clients
      /\ \A c \in Clients : Less(Line(c)', Line(c), Own(c))
  BY <1>0, <1>1, RequestTaken DEF Requests
<1>r. PICK r \in Clients : r = m.from
  BY <1>2
<1>d. D!Misled(r) \subseteq disturbed'
  BY <1>1, <1>r DEF D!add_client
<1>3. /\ inbox' \in [Clients -> Seq(Datagrams)]
      /\ server' = D!Waiting \/ server' = [D!Waiting EXCEPT !.pc = "ended"]
      /\ \A c \in Clients \ disturbed' :
           \/ inbox'[c] = inbox[c]
           \/ c = r /\ inbox'[c] = Append(inbox[c], "ADD_CLIENT")
  BY <1>0, <1>1, <1>d, <1>r, SendOutcome DEF Someone, Datagrams, Replies
<1>4. ServerTypeOK' /\ server'.asker = Nobody
  BY <1>3, ServerStates
<1>5. /\ clients' \in [D!Entries -> [name : {"", "here", "there"}, who : Someone]]
      /\ EntriesInv' /\ \A c \in Clients : Listed(c) => Listed(c)'
      /\ disturbed \subseteq disturbed' /\ disturbed' \subseteq Clients
      /\ r \in disturbed' \/ Listed(r)'
  <2>0. disturbed \subseteq Clients /\ place' = place
        /\ clients \in [D!Entries -> [name : {"", "here", "there"}, who : Someone]]
    BY <1>0, <1>1 DEF DatagramTypeOK
  <2>1. CASE D!FirstEmpty < MAX_CLIENTS
    <3>1. /\ clients' = [clients EXCEPT ![D!FirstEmpty] = [name |-> D!name(r), who |-> r]]
          /\ disturbed' = disturbed \cup D!Misled(r)
      BY <1>1, <1>r, <2>1 DEF D!add_client
    <3> QED
      BY <1>0, <2>0, <2>1, <3>1, AddedIsListed, MisledAreClients
  <2>2. CASE ~(D!FirstEmpty < MAX_CLIENTS)
    <3>1. clients' = clients /\ disturbed' = disturbed \cup D!Misled(r) \cup {r}
      BY <1>1, <1>r, <2>2 DEF D!add_client
    <3>2. EntriesInv'
      BY <1>0, <2>0, <3>1 DEF EntriesInv, D!name
    <3> QED
      BY <2>0, <3>1, <3>2, ListedStays, MisledAreClients
  <2> QED
    BY <2>1, <2>2
<1>6. DatagramTypeOK'
  BY <1>0, <1>1, <1>2, <1>3, <1>4, <1>5, ServerKeepsTypes
<1>7. m \in Joins(r) /\ m \in Mine(r)
  BY <1>1, <1>2, <1>r DEF Joins, Mine, Own
<1>8. Line(r) = requests[unix] /\ Line(r) \in Seq(Requests)
  <2>1. local[r] = unix
    BY <1>0, <1>1, <1>r, RequestTaken
  <2> QED
    BY <1>0, <2>1, LineTypes DEF Line
<1>9. r \notin disturbed' =>
        main[r] = "wait" /\ want[r] = "ADD_CLIENT" /\ ~Answered(r) /\ ~Pending(r)'
  <2> SUFFICES ASSUME r \notin disturbed'
               PROVE  main[r] = "wait" /\ want[r] = "ADD_CLIENT" /\ ~Answered(r) /\ ~Pending(r)'
    OBVIOUS
  <2>1. Matches(r) /\ local' = local
    BY <1>0, <1>1, <1>5
  <2>2. main[r] = "wait" /\ want[r] = m.kind /\ ~Answered(r) /\ ~Pending(r)'
    BY <1>0, <1>1, <1>7, <2>1, HeadMatches
  <2> QED
    BY <1>1, <2>2
<1>10. \A c \in Clients \ disturbed' : Matches(c)'
  <2>1. "ADD_CLIENT" \in Replies /\ UNCHANGED <<local, main, want>>
    BY <1>1 DEF Replies
  <2> QED
    BY <1>0, <1>2, <1>3, <1>4, <1>5, <1>9, <2>1, RepliesMatch
<1>11. ASSUME NEW c \in Clients, c \notin disturbed', Sole(c)' PROVE Belongs(c)'
  <2>1. Sole(c) /\ c \notin disturbed
    BY <1>1, <1>5, <1>11 DEF Sole, D!name
  <2>2. Belongs(c)
    BY <1>0, <1>1, <2>1
  <2>3. CASE c # r
    <3>1. Member(c)' => Member(c)
      BY <1>1, <1>3, <1>11, <2>3 DEF Member, Answered
    <3> QED
      BY <1>2, <1>5, <2>2, <3>1, BelongsStays
  <2>4. CASE c = r
    <3>1. Listed(c)'
      BY <1>5, <1>11, <2>4
    <3>2. /\ Has(Line(c)', Leaves(c)) => Has(Line(c), Leaves(c))
          /\ Before(Line(c), Joins(c), Leaves(c)) => Before(Line(c)', Joins(c), Leaves(c))
      BY <1>2, OwnKinds, LessUse
    <3>3. Before(Line(c), Joins(c), Leaves(c))
      BY <2>2 DEF Belongs
    <3>4. ~Has(Line(c), Leaves(c))
      BY <1>1, <1>7, <1>8, <2>4, <3>3, HeadIsBefore
    <3> QED
      BY <3>1, <3>2, <3>3, <3>4 DEF Belongs
  <2> QED
    BY <2>3, <2>4
<1> QED
  BY <1>5, <1>6, <1>10, <1>11 DEF DatagramInv

LEMMA UnregisterStep ==
  ASSUME DatagramInv, NEW unix \in BOOLEAN, D!Unregister(unix)
  PROVE  DatagramInv'
<1> DEFINE m == Head(requests[unix])
<1>0. /\ DatagramTypeOK /\ EntriesInv /\ \A c \in Clients \ disturbed : Matches(c)
      /\ server.pc # "ended" => \A c \in Clients \ disturbed : Sole(c) => Belongs(c)
  BY DEF DatagramInv
<1>1. /\ requests[unix] # <<>> /\ requests' = [requests EXCEPT ![unix] = Tail(@)]
      /\ m.kind = "UNREGISTER" /\ server.pc = "receive"
      /\ D!delete_client(D!name(m.from))
      /\ UNCHANGED <<local, place, server, inbox, main, want, files, budget, disturbed>>
  BY DEF D!Unregister, D!Request, D!fixed, D!client_
<1>2. /\ LineTypeOK' /\ m \in Requests /\ m.from \in Clients
      /\ \A c \in Clients : Less(Line(c)', Line(c), Own(c))
  BY <1>0, <1>1, RequestTaken DEF Requests
<1>r. PICK r \in Clients : r = m.from
  BY <1>2
<1>3. /\ clients' \in [D!Entries -> [name : {"", "here", "there"}, who : Someone]]
      /\ EntriesInv'
      /\ \A c \in Clients : D!name(c) # D!name(r) /\ Listed(c) => Listed(c)'
  BY <1>0, <1>1, <1>r, DeletedLeavesOthers
<1>4. DatagramTypeOK'
  <2>1. /\ inbox \in [Clients -> Seq(Datagrams)] /\ ServerTypeOK /\ disturbed \subseteq Clients
    BY <1>0 DEF DatagramTypeOK, ServerTypeOK
  <2>2. inbox' \in [Clients -> Seq(Datagrams)] /\ ServerTypeOK' /\ disturbed' \subseteq Clients
    BY <1>1, <2>1 DEF ServerTypeOK
  <2> QED
    BY <1>0, <1>1, <1>2, <1>3, <2>2, ServerKeepsTypes
<1>5. m \in Leaves(r)
  BY <1>1, <1>2, <1>r DEF Leaves, Own
<1>6. Line(r) = requests[unix] /\ Line(r) \in Seq(Requests)
  <2>1. local[r] = unix
    BY <1>0, <1>1, <1>r, RequestTaken
  <2> QED
    BY <1>0, <2>1, LineTypes DEF Line
<1>7. \A c \in Clients \ disturbed' : Matches(c)'
  <2>1. \A c \in Clients : Less(inbox'[c], inbox[c], Replies) /\ (Asks(c)' => Asks(c))
    BY <1>1, LessSame DEF Asks
  <2> QED
    BY <1>0, <1>1, <1>2, <2>1, NoReplyMatches
<1>8. ASSUME NEW c \in Clients, c \notin disturbed', Sole(c)', server'.pc # "ended"
      PROVE  Belongs(c)'
  <2>1. Sole(c) /\ c \notin disturbed /\ (c # r => D!name(c) # D!name(r))
    BY <1>1, <1>8 DEF Sole, D!name
  <2>2. Belongs(c) /\ (Member(c)' => Member(c))
    BY <1>0, <1>1, <2>1 DEF Member, Answered
  <2>3. CASE c # r
    BY <1>2, <1>3, <2>1, <2>2, <2>3, BelongsStays
  <2>4. CASE c = r
    <3>1. Has(Line(c), Leaves(c))
      BY <1>1, <1>5, <1>6, <2>4, InTail
    <3>2. ~Member(c)'
      BY <2>2, <3>1 DEF Belongs
    <3>3. Before(Line(c), Joins(c), Leaves(c)) => Before(Line(c)', Joins(c), Leaves(c))
      BY <1>2, OwnKinds, LessUse
    <3> QED
      BY <2>2, <3>2, <3>3 DEF Belongs
  <2> QED
    BY <2>3, <2>4
<1> QED
  BY <1>3, <1>4, <1>7, <1>8 DEF DatagramInv

-----------------------------------------------------------------------------
\* zad1: the steps of the clients

LEMMA ClientKeepsTypes ==
  ASSUME DatagramTypeOK, LineTypeOK', UNCHANGED <<local, place, clients, server>>,
         main' \in [Clients -> {"off", "register", "menu", "wait", "leave", "hung"}],
         want' \in [Clients -> Replies \cup {""}],
         \A c \in Clients : main'[c] \notin {"wait", "hung"} => want'[c] = "",
         inbox' \in [Clients -> Seq(Datagrams)],
         files' \subseteq Clients, disturbed' \subseteq Clients, budget' \in Nat
  PROVE  DatagramTypeOK'
BY DEF DatagramTypeOK, LineTypeOK

\* A step of a leaves the others what they have.
LEMMA ClientStep ==
  ASSUME DatagramInv, NEW a \in Clients, DatagramTypeOK',
         UNCHANGED <<local, place, clients, server>>, disturbed \subseteq disturbed',
         \A c \in Clients \ {a} :
           /\ main'[c] = main[c] /\ want'[c] = want[c] /\ inbox'[c] = inbox[c]
           /\ Less(Line(c)', Line(c), Own(c)),
         a \notin disturbed' => Matches(a)',
         a \notin disturbed' /\ Belongs(a) => Belongs(a)'
  PROVE  DatagramInv'
<1>0. /\ EntriesInv /\ \A c \in Clients \ disturbed : Matches(c)
      /\ server.pc # "ended" => \A c \in Clients \ disturbed : Sole(c) => Belongs(c)
  BY DEF DatagramInv
<1>1. EntriesInv'
  BY <1>0 DEF EntriesInv, D!name
<1>2. ASSUME NEW c \in Clients, c \notin disturbed', c # a PROVE Matches(c)'
  <2>1. Less(inbox'[c], inbox[c], Replies)
    BY <1>2, LessSame
  <2>2. Asks(c)' => Asks(c)
    BY DEF Asks
  <2>3. Matches(c)
    BY <1>0, <1>2
  <2> QED
    BY <1>2, <2>1, <2>2, <2>3, MatchesStay
<1>3. ASSUME NEW c \in Clients, c \notin disturbed', Sole(c)', server'.pc # "ended"
      PROVE  Belongs(c)'
  <2>1. Sole(c) /\ c \notin disturbed
    BY <1>3 DEF Sole, D!name
  <2>2. Belongs(c)
    BY <1>0, <1>3, <2>1
  <2>3. CASE c # a
    <3>1. Member(c)' => Member(c)
      BY <2>3 DEF Member, Answered
    <3> QED
      BY <2>2, <2>3, <3>1, ListedStays, BelongsStays
  <2>4. CASE c = a
    BY <1>3, <2>2, <2>4
  <2> QED
    BY <2>3, <2>4
<1> QED
  BY <1>1, <1>2, <1>3 DEF DatagramInv

LEMMA LineAppended ==
  ASSUME DatagramTypeOK, local' = local, NEW a \in Clients, NEW m \in Requests, m.from = a,
         requests' = [requests EXCEPT ![local[a]] = Append(@, m)]
  PROVE  /\ LineTypeOK' /\ Line(a)' = Append(Line(a), m)
         /\ \A c \in Clients : m \notin Own(c) => Less(Line(c)', Line(c), Own(c))
<1> DEFINE unix == local[a]
           s == requests[unix]
<1>1. unix \in BOOLEAN /\ s \in Seq(Requests) /\ requests \in [BOOLEAN -> Seq(Requests)]
  <2>1. local \in [Clients -> BOOLEAN] /\ requests \in [BOOLEAN -> Seq(Requests)]
    BY DEF DatagramTypeOK
  <2> QED
    BY <2>1
<1>2. /\ Append(s, m) \in Seq(Requests) /\ Len(s) \in Nat /\ DOMAIN s = 1 .. Len(s)
      /\ DOMAIN Append(s, m) = 1 .. Len(s) + 1 /\ Append(s, m)[Len(s) + 1] = m
      /\ \A k \in 1 .. Len(s) : Append(s, m)[k] = s[k]
  BY <1>1
<1>3. /\ requests' \in [BOOLEAN -> Seq(Requests)] /\ requests'[unix] = Append(s, m)
      /\ \A u \in BOOLEAN : u # unix => requests'[u] = requests[u]
  BY <1>1, <1>2
<1>4. \A k \in DOMAIN Append(s, m) : local[Append(s, m)[k].from] = unix
  <2>1. \A k \in DOMAIN s : local[s[k].from] = unix
    BY <1>1 DEF DatagramTypeOK
  <2> SUFFICES ASSUME NEW k \in DOMAIN Append(s, m) PROVE local[Append(s, m)[k].from] = unix
    OBVIOUS
  <2>2. \/ k \in DOMAIN s /\ Append(s, m)[k] = s[k]
        \/ Append(s, m)[k] = m
    BY <1>2
  <2> QED
    BY <2>1, <2>2
<1>5. ASSUME NEW u \in BOOLEAN, NEW k \in DOMAIN requests'[u]
      PROVE  local[requests'[u][k].from] = u
  <2>1. CASE u = unix
    BY <1>3, <1>4, <2>1
  <2>2. CASE u # unix
    <3>1. requests'[u] = requests[u]
      BY <1>3, <2>2
    <3>2. \A j \in DOMAIN requests[u] : local[requests[u][j].from] = u
      BY DEF DatagramTypeOK
    <3> QED
      BY <3>1, <3>2
  <2> QED
    BY <2>1, <2>2
<1>6. LineTypeOK'
  BY <1>3, <1>5 DEF LineTypeOK
<1>7. ASSUME NEW c \in Clients, m \notin Own(c) PROVE Less(Line(c)', Line(c), Own(c))
  <2>0. local[c] \in BOOLEAN /\ Line(c) = requests[local[c]] /\ Line(c)' = requests'[local[c]]
    BY LineTypes DEF Line
  <2>1. CASE local[c] = unix
    <3>1. Line(c) = s /\ Line(c)' = Append(s, m)
      BY <1>3, <2>0, <2>1
    <3> QED
      BY <1>1, <1>7, <3>1, LessAppend
  <2>2. CASE local[c] # unix
    <3>1. Line(c)' = Line(c)
      BY <1>3, <2>0, <2>2
    <3> QED
      BY <3>1, LessSame
  <2> QED
    BY <2>1, <2>2
<1>8. Line(a)' = Append(Line(a), m)
  BY <1>1, <1>3 DEF Line
<1> QED
  BY <1>6, <1>7, <1>8

\* A client that is gone has no part in anything.
LEMMA LeaveStep ==
  ASSUME DatagramInv, NEW a \in Clients, D!Leave(a),
         UNCHANGED <<local, place, clients, server, requests>>,
         disturbed \subseteq disturbed', disturbed' \subseteq Clients, budget' \in Nat,
         main[a] = "wait" => a \in disturbed'
  PROVE  DatagramInv'
<1>0. DatagramTypeOK /\ \A c \in Clients \ disturbed : Matches(c)
  BY DEF DatagramInv
<1>1. /\ main \in [Clients -> {"off", "register", "menu", "wait", "leave", "hung"}]
      /\ want \in [Clients -> Replies \cup {""}] /\ inbox \in [Clients -> Seq(Datagrams)]
      /\ files \subseteq Clients /\ \A c \in Clients : main[c] \notin {"wait", "hung"} => want[c] = ""
  BY <1>0 DEF DatagramTypeOK
<1>2. /\ main' = [main EXCEPT ![a] = "off"] /\ want' = [want EXCEPT ![a] = ""]
      /\ inbox' = [inbox EXCEPT ![a] = <<>>] /\ files' \subseteq files
  BY DEF D!Leave
<1>3. /\ main' \in [Clients -> {"off", "register", "menu", "wait", "leave", "hung"}]
      /\ want' \in [Clients -> Replies \cup {""}] /\ inbox' \in [Clients -> Seq(Datagrams)]
      /\ main'[a] = "off" /\ want'[a] = "" /\ inbox'[a] = <<>>
      /\ \A c \in Clients \ {a} : main'[c] = main[c] /\ want'[c] = want[c] /\ inbox'[c] = inbox[c]
  <2>1. <<>> \in Seq(Datagrams)
    BY EmptySequence
  <2> QED
    BY <1>1, <1>2, <2>1
<1>4. LineTypeOK' /\ \A c \in Clients : Less(Line(c)', Line(c), Own(c))
  BY <1>0, LessSame DEF DatagramTypeOK, LineTypeOK, Line
<1>5. DatagramTypeOK'
  <2>1. \A c \in Clients : main'[c] \notin {"wait", "hung"} => want'[c] = ""
    BY <1>1, <1>3
  <2> QED
    BY <1>0, <1>1, <1>2, <1>3, <1>4, <2>1, ClientKeepsTypes
<1>6. ASSUME a \notin disturbed' PROVE Matches(a)'
  <2>1. Less(inbox'[a], inbox[a], Replies) /\ (Asks(a)' => Asks(a))
    BY <1>3, LessEmpty DEF Asks
  <2>2. Matches(a) /\ main[a] # "wait" /\ main'[a] # "wait"
    BY <1>0, <1>3, <1>6
  <2> QED
    BY <1>4, <2>1, <2>2, MatchesStay
<1>7. ASSUME Belongs(a) PROVE Belongs(a)'
  <2>1. ~Member(a)'
    BY <1>3 DEF Member
  <2> QED
    BY <1>4, <1>7, <2>1, ListedStays, BelongsStays
<1> QED
  BY <1>3, <1>4, <1>5, <1>6, <1>7, ClientStep

\* Nor has one that waits for its thread for ever.
LEMMA HungStep ==
  ASSUME DatagramInv, NEW a \in Clients, main' = [main EXCEPT ![a] = "hung"],
         UNCHANGED <<local, place, clients, server, requests, inbox, want, files>>,
         disturbed \subseteq disturbed', disturbed' \subseteq Clients, budget' \in Nat,
         main[a] = "wait" => a \in disturbed'
  PROVE  DatagramInv'
<1>0. DatagramTypeOK /\ \A c \in Clients \ disturbed : Matches(c)
  BY DEF DatagramInv
<1>1. /\ main \in [Clients -> {"off", "register", "menu", "wait", "leave", "hung"}]
      /\ want \in [Clients -> Replies \cup {""}] /\ inbox \in [Clients -> Seq(Datagrams)]
      /\ files \subseteq Clients /\ \A c \in Clients : main[c] \notin {"wait", "hung"} => want[c] = ""
  BY <1>0 DEF DatagramTypeOK
<1>2. /\ main' \in [Clients -> {"off", "register", "menu", "wait", "leave", "hung"}]
      /\ main'[a] = "hung" /\ \A c \in Clients \ {a} : main'[c] = main[c]
  BY <1>1
<1>3. LineTypeOK' /\ \A c \in Clients : Less(Line(c)', Line(c), Own(c))
  BY <1>0, LessSame DEF DatagramTypeOK, LineTypeOK, Line
<1>4. DatagramTypeOK'
  <2>1. \A c \in Clients : main'[c] \notin {"wait", "hung"} => want'[c] = ""
    BY <1>1, <1>2
  <2> QED
    BY <1>0, <1>1, <1>2, <1>3, <2>1, ClientKeepsTypes
<1>5. ASSUME a \notin disturbed' PROVE Matches(a)'
  <2>1. Less(inbox'[a], inbox[a], Replies) /\ (Asks(a)' => Asks(a))
    BY LessSame DEF Asks
  <2>2. Matches(a) /\ main[a] # "wait" /\ main'[a] # "wait"
    BY <1>0, <1>2, <1>5
  <2> QED
    BY <1>3, <2>1, <2>2, MatchesStay
<1>6. ASSUME Belongs(a) PROVE Belongs(a)'
  <2>1. ~Member(a)'
    BY <1>2 DEF Member
  <2> QED
    BY <1>3, <1>6, <2>1, ListedStays, BelongsStays
<1> QED
  BY <1>2, <1>3, <1>4, <1>5, <1>6, ClientStep

\* main sends a request: the one it waits for from then on, or its farewell.
LEMMA RequestSent ==
  ASSUME DatagramInv, NEW a \in Clients, NEW kind, NEW no \in D!Entries, NEW after,
         D!SendRequest(a, kind, no, after),
         \/ main[a] = "register" /\ kind = "ADD_CLIENT" /\ after = "wait"
         \/ main[a] = "menu" /\ kind \in {"LIST_CLIENTS", "CLIENT_INFO"} /\ after = "wait"
         \/ main[a] = "menu" /\ kind = "UNREGISTER" /\ after = "leave"
  PROVE  DatagramInv'
<1>0. DatagramTypeOK /\ \A c \in Clients \ disturbed : Matches(c)
  BY DEF DatagramInv
<1>1. /\ main \in [Clients -> {"off", "register", "menu", "wait", "leave", "hung"}]
      /\ want \in [Clients -> Replies \cup {""}] /\ inbox \in [Clients -> Seq(Datagrams)]
      /\ files \subseteq Clients /\ disturbed \subseteq Clients /\ budget \in Nat
      /\ \A c \in Clients : main[c] \notin {"wait", "hung"} => want[c] = ""
  BY <1>0 DEF DatagramTypeOK
<1>2. /\ budget > 0 /\ budget' = budget - 1
      /\ UNCHANGED <<local, place, clients, server, inbox, files, disturbed>>
      /\ \/ main' = [main EXCEPT ![a] = "hung"] /\ UNCHANGED <<want, requests>>
         \/ /\ main' = [main EXCEPT ![a] = after]
            /\ want' = [want EXCEPT ![a] = IF after = "wait" THEN kind ELSE ""]
            /\ requests' = [requests EXCEPT ![local[a]] =
                 Append(@, [kind |-> kind, from |-> a, no |-> no])]
  BY DEF D!SendRequest, D!fixed
<1>3. budget' \in Nat
  <2>1. budget \in Nat /\ budget > 0 /\ budget' = budget - 1
    BY <1>1, <1>2
  <2> QED
    BY <2>1
<1>4. main[a] # "wait" /\ want[a] = "" /\ disturbed \subseteq disturbed' /\ disturbed' \subseteq Clients
  BY <1>1, <1>2
<1>5. CASE main' = [main EXCEPT ![a] = "hung"] /\ UNCHANGED <<want, requests>>
  BY <1>2, <1>3, <1>4, <1>5, HungStep
<1>6. CASE /\ main' = [main EXCEPT ![a] = after]
           /\ want' = [want EXCEPT ![a] = IF after = "wait" THEN kind ELSE ""]
           /\ requests' = [requests EXCEPT ![local[a]] =
                Append(@, [kind |-> kind, from |-> a, no |-> no])]
  <2> DEFINE m == [kind |-> kind, from |-> a, no |-> no]
  <2>1. m \in Requests /\ m.from = a /\ m.kind = kind
    BY DEF Requests
  <2>k. /\ m \in Mine(a) <=> kind # "UNREGISTER"
        /\ m \in Joins(a) <=> kind = "ADD_CLIENT"
        /\ m \in Leaves(a) <=> kind = "UNREGISTER"
        /\ \A c \in Clients \ {a} : m \notin Own(c)
    BY <2>1 DEF Mine, Joins, Leaves, Own
  <2>2. requests' = [requests EXCEPT ![local[a]] = Append(@, m)] /\ local' = local
    BY <1>2, <1>6
  <2> HIDE DEF m
  <2>3. /\ LineTypeOK' /\ Line(a)' = Append(Line(a), m) /\ Line(a) \in Seq(Requests)
        /\ \A c \in Clients \ {a} : Less(Line(c)', Line(c), Own(c))
    BY <1>0, <2>1, <2>k, <2>2, LineAppended, LineTypes
  <2>4. /\ main' \in [Clients -> {"off", "register", "menu", "wait", "leave", "hung"}]
        /\ want' \in [Clients -> Replies \cup {""}]
        /\ main'[a] = after /\ want'[a] = IF after = "wait" THEN kind ELSE ""
        /\ \A c \in Clients \ {a} : main'[c] = main[c] /\ want'[c] = want[c]
    BY <1>1, <1>6 DEF Replies
  <2>5. DatagramTypeOK'
    <3>1. \A c \in Clients : main'[c] \notin {"wait", "hung"} => want'[c] = ""
      BY <1>1, <2>4
    <3>2. inbox' \in [Clients -> Seq(Datagrams)] /\ files' \subseteq Clients /\ disturbed' \subseteq Clients
      BY <1>1, <1>2
    <3> QED
      BY <1>0, <1>2, <1>3, <2>3, <2>4, <3>1, <3>2, ClientKeepsTypes
  <2>6. ASSUME a \notin disturbed PROVE ~Pending(a) /\ ~Asks(a) /\ ~Answered(a)
    BY <1>0, <1>4, <2>6 DEF Matches
  <2>7. Answered(a)' <=> Answered(a)
    BY <1>2 DEF Answered
  <2>8. ASSUME a \notin disturbed' PROVE Matches(a)'
    <3>1. Matches(a) /\ ~Pending(a) /\ ~Asks(a) /\ ~Answered(a) /\ ~Asks(a)' /\ ~Answered(a)'
      BY <1>0, <1>2, <2>6, <2>7, <2>8 DEF Asks
    <3>2. Once(inbox'[a], Replies) /\ ~Has(inbox'[a], Replies \ {want'[a]})
      BY <1>2, <3>1 DEF Matches, Answered, Has
    <3>3. /\ Has(Line(a)', Mine(a)) <=> m \in Mine(a)
          /\ Once(Line(a)', Mine(a))
      BY <2>1, <2>3, <3>1, InAppend DEF Matches, Pending
    <3>4. ~Has(Line(a)', {x \in Mine(a) : x.kind # want'[a]})
      <4> DEFINE wrong == {x \in Mine(a) : x.kind # want'[a]}
      <4>1. ~Has(Line(a), wrong)
        BY <3>1 DEF Pending, Has
      <4>2. m \notin wrong
        BY <2>1, <2>k, <2>4
      <4> HIDE DEF wrong
      <4>3. ~Has(Append(Line(a), m), wrong)
        BY <2>1, <2>3, <4>1, <4>2, InAppend
      <4> QED
        BY <2>3, <4>3 DEF wrong
    <3>5. main'[a] # "wait" => ~Pending(a)'
      BY <2>k, <2>4, <3>3 DEF Pending
    <3> QED
      BY <3>1, <3>2, <3>3, <3>4, <3>5 DEF Matches, Pending
  <2>9. ASSUME a \notin disturbed', Belongs(a) PROVE Belongs(a)'
    <3>1. ~Pending(a) /\ ~Answered(a) /\ ~Answered(a)'
      BY <1>2, <2>6, <2>7, <2>9
    <3>2. ~Has(Line(a), Joins(a))
      BY <3>1 DEF Pending, Has, Joins, Mine
    <3>3. Before(Line(a)', Joins(a), Leaves(a))
      BY <2>1, <2>3, <2>k, <2>9, <3>2, BeforeAppend DEF Belongs
    <3>4. ASSUME Member(a)' PROVE Listed(a)' /\ ~Has(Line(a)', Leaves(a))
      <4>1. main[a] = "menu" /\ kind # "UNREGISTER"
        BY <2>4, <3>1, <3>4 DEF Member
      <4>2. Member(a)
        BY <1>4, <4>1 DEF Member
      <4>3. Listed(a) /\ ~Has(Line(a), Leaves(a))
        BY <2>9, <4>2 DEF Belongs
      <4>4. ~Has(Append(Line(a), m), Leaves(a))
        BY <2>1, <2>3, <2>k, <4>1, <4>3, InAppend
      <4> QED
        BY <1>2, <2>3, <4>3, <4>4, ListedStays
    <3> QED
      BY <3>3, <3>4 DEF Belongs
  <2> QED
    BY <1>2, <1>4, <2>3, <2>4, <2>5, <2>8, <2>9, ClientStep
<1> QED
  BY <1>2, <1>5, <1>6

LEMMA StartStep == ASSUME DatagramInv, NEW a \in Clients, D!Start(a) PROVE DatagramInv'
<1>0. DatagramTypeOK /\ \A c \in Clients \ disturbed : Matches(c)
  BY DEF DatagramInv
<1>1. /\ main \in [Clients -> {"off", "register", "menu", "wait", "leave", "hung"}]
      /\ want \in [Clients -> Replies \cup {""}] /\ inbox \in [Clients -> Seq(Datagrams)]
      /\ files \subseteq Clients /\ disturbed \subseteq Clients /\ budget \in Nat
      /\ \A c \in Clients : main[c] \notin {"wait", "hung"} => want[c] = ""
  BY <1>0 DEF DatagramTypeOK
<1>2. /\ main[a] = "off" /\ budget > 0
      /\ UNCHANGED <<local, place, clients, server, requests, disturbed>>
      /\ \/ D!Leave(a) /\ budget' = budget - 1
         \/ /\ main' = [main EXCEPT ![a] = "register"]
            /\ files' = files \/ files' = files \cup {a}
            /\ UNCHANGED <<want, inbox, budget>>
  BY DEF D!Start, D!fixed
<1>3. CASE D!Leave(a) /\ budget' = budget - 1
  <2>1. budget \in Nat /\ budget > 0 /\ budget' = budget - 1
    BY <1>1, <1>2, <1>3
  <2>2. budget' \in Nat
    BY <2>1
  <2>3. disturbed \subseteq disturbed' /\ disturbed' \subseteq Clients /\ main[a] # "wait"
    BY <1>1, <1>2
  <2> QED
    BY <1>2, <1>3, <2>2, <2>3, LeaveStep
<1>4. CASE /\ main' = [main EXCEPT ![a] = "register"]
           /\ files' = files \/ files' = files \cup {a}
           /\ UNCHANGED <<want, inbox, budget>>
  <2>1. /\ main' \in [Clients -> {"off", "register", "menu", "wait", "leave", "hung"}]
        /\ main'[a] = "register" /\ \A c \in Clients \ {a} : main'[c] = main[c]
        /\ files' \subseteq Clients /\ budget' \in Nat /\ disturbed' \subseteq Clients
    BY <1>1, <1>2, <1>4
  <2>2. LineTypeOK' /\ \A c \in Clients : Less(Line(c)', Line(c), Own(c))
    BY <1>0, <1>2, LessSame DEF DatagramTypeOK, LineTypeOK, Line
  <2>3. DatagramTypeOK'
    <3>1. /\ \A c \in Clients : main'[c] \notin {"wait", "hung"} => want'[c] = ""
          /\ want' \in [Clients -> Replies \cup {""}] /\ inbox' \in [Clients -> Seq(Datagrams)]
      BY <1>1, <1>2, <1>4, <2>1
    <3> QED
      BY <1>0, <1>2, <2>1, <2>2, <3>1, ClientKeepsTypes
  <2>4. ASSUME a \notin disturbed' PROVE Matches(a)'
    <3>1. Less(inbox'[a], inbox[a], Replies) /\ (Asks(a)' => Asks(a))
      BY <1>2, <1>4, LessSame DEF Asks
    <3>2. Matches(a) /\ main[a] # "wait" /\ main'[a] # "wait"
      BY <1>0, <1>2, <2>1, <2>4
    <3> QED
      BY <2>2, <3>1, <3>2, MatchesStay
  <2>5. ASSUME Belongs(a) PROVE Belongs(a)'
    <3>1. ~Member(a)' /\ clients' = clients
      BY <1>2, <2>1 DEF Member
    <3> QED
      BY <2>2, <2>5, <3>1, ListedStays, BelongsStays
  <2>6. \A c \in Clients \ {a} : /\ main'[c] = main[c] /\ want'[c] = want[c]
                                 /\ inbox'[c] = inbox[c]
    BY <1>4, <2>1
  <2> QED
    BY <1>2, <2>2, <2>3, <2>4, <2>5, <2>6, ClientStep
<1> QED
  BY <1>2, <1>3, <1>4

\* main takes the datagram at the head of its socket, which is its answer.
LEMMA AnswerIsWanted ==
  ASSUME DatagramTypeOK, NEW a \in Clients, Matches(a), main[a] = "wait", inbox[a] # <<>>,
         Head(inbox[a]) # "question"
  PROVE  /\ Head(inbox[a]) = want[a] /\ Answered(a) /\ ~Pending(a) /\ ~Asks(a)
         /\ ~Has(Tail(inbox[a]), Replies)
<1>1. inbox[a] \in Seq(Datagrams)
  BY LineTypes
<1>2. Head(inbox[a]) \in Replies
  <2>1. Head(inbox[a]) \in Datagrams
    BY <1>1, InTail
  <2> QED
    BY <2>1 DEF Datagrams
<1>3. Answered(a) /\ ~Has(Tail(inbox[a]), Replies)
  <2>1. Once(inbox[a], Replies)
    BY DEF Matches
  <2> QED
    BY <1>1, <1>2, <2>1, InTail DEF Answered
<1>4. Head(inbox[a]) = want[a]
  <2> DEFINE wrong == Replies \ {want[a]}
  <2>1. ~Has(inbox[a], wrong)
    BY DEF Matches
  <2>2. Head(inbox[a]) \notin wrong
    <3> HIDE DEF wrong
    <3> QED
      BY <1>1, <2>1, InTail
  <2> QED
    BY <1>2, <2>2
<1> QED
  BY <1>3, <1>4 DEF Matches

LEMMA ReceiveAnswerStep ==
  ASSUME DatagramInv, NEW a \in Clients, D!ReceiveAnswer(a) PROVE DatagramInv'
<1>0. DatagramTypeOK /\ \A c \in Clients \ disturbed : Matches(c)
  BY DEF DatagramInv
<1>1. /\ main \in [Clients -> {"off", "register", "menu", "wait", "leave", "hung"}]
      /\ want \in [Clients -> Replies \cup {""}] /\ inbox \in [Clients -> Seq(Datagrams)]
      /\ files \subseteq Clients /\ disturbed \subseteq Clients /\ budget \in Nat
      /\ \A c \in Clients : main[c] \notin {"wait", "hung"} => want[c] = ""
  BY <1>0 DEF DatagramTypeOK
<1>2. /\ main[a] = "wait" /\ inbox[a] # <<>>
      /\ inbox' = [inbox EXCEPT ![a] = Tail(@)]
      /\ main' = [main EXCEPT ![a] = "menu"] /\ want' = [want EXCEPT ![a] = ""]
      /\ disturbed' = IF Head(inbox[a]) = "question" THEN disturbed \cup {a} ELSE disturbed
      /\ UNCHANGED <<local, place, clients, server, requests, files, budget>>
  BY DEF D!ReceiveAnswer, D!fixed
<1>3. /\ main' \in [Clients -> {"off", "register", "menu", "wait", "leave", "hung"}]
      /\ want' \in [Clients -> Replies \cup {""}] /\ inbox' \in [Clients -> Seq(Datagrams)]
      /\ main'[a] = "menu" /\ want'[a] = "" /\ inbox'[a] = Tail(inbox[a])
      /\ \A c \in Clients \ {a} : main'[c] = main[c] /\ want'[c] = want[c] /\ inbox'[c] = inbox[c]
  <2>1. inbox[a] \in Seq(Datagrams) /\ Tail(inbox[a]) \in Seq(Datagrams)
    <3>1. inbox[a] \in Seq(Datagrams) /\ inbox[a] # <<>>
      BY <1>1, <1>2
    <3> QED
      BY <3>1
  <2> QED
    BY <1>1, <1>2, <2>1
<1>4. LineTypeOK' /\ \A c \in Clients : Less(Line(c)', Line(c), Own(c)) /\ Line(c)' = Line(c)
  BY <1>0, <1>2, LessSame DEF DatagramTypeOK, LineTypeOK, Line
<1>5. disturbed \subseteq disturbed' /\ disturbed' \subseteq Clients
  BY <1>1, <1>2
<1>6. DatagramTypeOK'
  <2>1. \A c \in Clients : main'[c] \notin {"wait", "hung"} => want'[c] = ""
    BY <1>1, <1>3
  <2> QED
    BY <1>0, <1>1, <1>2, <1>3, <1>4, <1>5, <2>1, ClientKeepsTypes
<1>7. ASSUME a \notin disturbed'
      PROVE  /\ Matches(a) /\ Answered(a) /\ ~Pending(a) /\ ~Asks(a)
             /\ ~Has(Tail(inbox[a]), Replies)
  <2>1. Matches(a) /\ Head(inbox[a]) # "question"
    BY <1>0, <1>2, <1>5, <1>7
  <2> QED
    BY <1>0, <1>2, <2>1, AnswerIsWanted
<1>8. ASSUME a \notin disturbed' PROVE Matches(a)'
  <2>1. ~Pending(a)' /\ ~Asks(a)' /\ ~Answered(a)'
    BY <1>2, <1>3, <1>4, <1>7, <1>8 DEF Pending, Asks, Answered
  <2>2. Once(Line(a)', Mine(a)) /\ Once(inbox'[a], Replies)
    BY <2>1 DEF Once, Has, Pending, Answered
  <2>3. /\ ~Has(Line(a)', {m \in Mine(a) : m.kind # want'[a]})
        /\ ~Has(inbox'[a], Replies \ {want'[a]})
    BY <2>1 DEF Has, Pending, Answered
  <2> QED
    BY <1>3, <2>1, <2>2, <2>3 DEF Matches
<1>9. ASSUME a \notin disturbed', Belongs(a) PROVE Belongs(a)'
  <2>1. Member(a)
    BY <1>2, <1>7, <1>9 DEF Member
  <2> QED
    BY <1>2, <1>4, <1>9, <2>1, ListedStays, BelongsStays
<1> QED
  BY <1>2, <1>3, <1>4, <1>5, <1>6, <1>8, <1>9, ClientStep

LEMMA ExitStep == ASSUME DatagramInv, NEW a \in Clients, D!Exit(a) PROVE DatagramInv'
<1>1. /\ main[a] = "leave" /\ D!Leave(a)
      /\ UNCHANGED <<local, place, clients, server, requests, budget, disturbed>>
  BY DEF D!Exit, D!fixed
<1>2. disturbed' \subseteq Clients /\ budget' \in Nat /\ disturbed \subseteq disturbed'
  BY <1>1 DEF DatagramInv, DatagramTypeOK
<1> QED
  BY <1>1, <1>2, LeaveStep

LEMMA InterruptStep == ASSUME DatagramInv, NEW a \in Clients, D!Interrupt(a) PROVE DatagramInv'
<1>1. /\ \/ D!Leave(a)
         \/ main' = [main EXCEPT ![a] = "hung"] /\ UNCHANGED <<want, inbox, files>>
      /\ disturbed' = IF main[a] = "wait" THEN disturbed \cup {a} ELSE disturbed
      /\ budget > 0 /\ budget' = budget - 1
      /\ UNCHANGED <<local, place, clients, server, requests>>
  BY DEF D!Interrupt, D!fixed
<1>2. budget \in Nat /\ disturbed \subseteq Clients
  BY DEF DatagramInv, DatagramTypeOK
<1>3. budget' \in Nat
  <2>1. budget \in Nat /\ budget > 0 /\ budget' = budget - 1
    BY <1>1, <1>2
  <2> QED
    BY <2>1
<1>4. /\ disturbed \subseteq disturbed' /\ disturbed' \subseteq Clients
      /\ main[a] = "wait" => a \in disturbed'
  BY <1>1, <1>2
<1>5. CASE D!Leave(a)
  BY <1>1, <1>3, <1>4, <1>5, LeaveStep
<1>6. CASE main' = [main EXCEPT ![a] = "hung"] /\ UNCHANGED <<want, inbox, files>>
  BY <1>1, <1>3, <1>4, <1>6, HungStep
<1> QED
  BY <1>1, <1>5, <1>6

\* The thread answers a question, drops another datagram, or ends the client.
LEMMA ThreadStep == ASSUME DatagramInv, NEW a \in Clients, D!thread_run(a) PROVE DatagramInv'
<1>0. DatagramTypeOK /\ \A c \in Clients \ disturbed : Matches(c)
  BY DEF DatagramInv
<1>1. /\ main \in [Clients -> {"off", "register", "menu", "wait", "leave", "hung"}]
      /\ want \in [Clients -> Replies \cup {""}] /\ inbox \in [Clients -> Seq(Datagrams)]
      /\ files \subseteq Clients /\ disturbed \subseteq Clients /\ budget \in Nat
      /\ \A c \in Clients : main[c] \notin {"wait", "hung"} => want[c] = ""
  BY <1>0 DEF DatagramTypeOK
<1>i. PICK info : info = [kind |-> "info", from |-> a, no |-> 0]
  OBVIOUS
<1>2. /\ main[a] # "wait" /\ inbox[a] # <<>>
      /\ \/ D!Leave(a) /\ UNCHANGED requests
         \/ /\ inbox' = [inbox EXCEPT ![a] = Tail(@)]
            /\ \/ requests' = requests
               \/ requests' = [requests EXCEPT ![local[a]] = Append(@, info)]
            /\ UNCHANGED <<main, want, files>>
      /\ UNCHANGED <<local, place, clients, server, budget, disturbed>>
  BY <1>i DEF D!thread_run, D!fixed
<1>3. disturbed \subseteq disturbed' /\ disturbed' \subseteq Clients /\ budget' \in Nat
  BY <1>1, <1>2
<1>4. CASE D!Leave(a) /\ UNCHANGED requests
  BY <1>2, <1>3, <1>4, LeaveStep
<1>5. CASE /\ inbox' = [inbox EXCEPT ![a] = Tail(@)]
           /\ \/ requests' = requests
              \/ requests' = [requests EXCEPT ![local[a]] = Append(@, info)]
           /\ UNCHANGED <<main, want, files>>
  <2>1. inbox[a] \in Seq(Datagrams) /\ inbox[a] # <<>>
    BY <1>1, <1>2
  <2>2. /\ Tail(inbox[a]) \in Seq(Datagrams) /\ Less(Tail(inbox[a]), inbox[a], Replies)
    BY <2>1, InTail, LessTail
  <2>3. /\ inbox' \in [Clients -> Seq(Datagrams)] /\ inbox'[a] = Tail(inbox[a])
        /\ \A c \in Clients \ {a} : inbox'[c] = inbox[c]
    BY <1>1, <1>5, <2>2
  <2>4. LineTypeOK' /\ \A c \in Clients : Less(Line(c)', Line(c), Own(c))
    <3>1. CASE requests' = requests
      BY <1>0, <1>2, <3>1, LessSame DEF DatagramTypeOK, LineTypeOK, Line
    <3>2. CASE requests' = [requests EXCEPT ![local[a]] = Append(@, info)]
      <4>1. info \in Requests /\ info.from = a /\ info.kind = "info"
        BY <1>i, EntryNumbers DEF Requests
      <4>2. \A c \in Clients : info \notin Own(c)
        BY <4>1 DEF Own
      <4>3. local' = local
        BY <1>2
      <4> QED
        BY <1>0, <3>2, <4>1, <4>2, <4>3, LineAppended
    <3> QED
      BY <1>5, <3>1, <3>2
  <2>5. DatagramTypeOK'
    <3>1. /\ main' \in [Clients -> {"off", "register", "menu", "wait", "leave", "hung"}]
          /\ want' \in [Clients -> Replies \cup {""}] /\ files' \subseteq Clients
          /\ \A c \in Clients : main'[c] \notin {"wait", "hung"} => want'[c] = ""
      BY <1>1, <1>5
    <3> QED
      BY <1>0, <1>2, <1>3, <2>3, <2>4, <3>1, ClientKeepsTypes
  <2>6. ASSUME a \notin disturbed' PROVE Matches(a)'
    <3>1. Less(inbox'[a], inbox[a], Replies) /\ (Asks(a)' => Asks(a))
      BY <1>2, <2>2, <2>3 DEF Asks
    <3>2. Matches(a) /\ main[a] # "wait" /\ main'[a] # "wait"
      BY <1>0, <1>2, <1>5, <2>6
    <3> QED
      BY <2>4, <3>1, <3>2, MatchesStay
  <2>7. ASSUME Belongs(a) PROVE Belongs(a)'
    <3>1. (Member(a)' => Member(a)) /\ clients' = clients
      BY <1>2, <1>5 DEF Member
    <3> QED
      BY <2>4, <2>7, <3>1, ListedStays, BelongsStays
  <2>8. \A c \in Clients \ {a} : main'[c] = main[c] /\ want'[c] = want[c]
    BY <1>5
  <2> QED
    BY <1>2, <1>3, <2>3, <2>4, <2>5, <2>6, <2>7, <2>8, ClientStep
<1> QED
  BY <1>2, <1>4, <1>5

\* A datagram is lost: a request of a client, or what was sent to it.
LEMMA LoseStep == ASSUME DatagramInv, D!Lose PROVE DatagramInv'
<1>0. DatagramTypeOK
  BY DEF DatagramInv
<1>1. /\ requests \in [BOOLEAN -> Seq(Requests)] /\ inbox \in [Clients -> Seq(Datagrams)]
      /\ \A unix \in BOOLEAN : \A k \in DOMAIN requests[unix] : local[requests[unix][k].from] = unix
      /\ disturbed \subseteq Clients
  BY <1>0 DEF DatagramTypeOK
<1>2. ASSUME NEW i \in DOMAIN requests[FALSE],
             requests' = [requests EXCEPT ![FALSE] = RemoveAt(@, i)],
             disturbed' = disturbed \cup {requests[FALSE][i].from},
             UNCHANGED <<local, place, clients, server, inbox, main, want, files, budget>>
      PROVE  DatagramInv'
  <2> DEFINE s == requests[FALSE]
             t == RemoveAt(s, i)
  <2>0. s \in Seq(Requests) /\ Len(s) \in Nat /\ DOMAIN s = 1 .. Len(s) /\ i \in DOMAIN s
    <3>1. s \in Seq(Requests) /\ i \in DOMAIN s
      BY <1>1
    <3> HIDE DEF s
    <3> QED
      BY <3>1
  <2>1. /\ t \in Seq(Requests) /\ Len(t) = Len(s) - 1 /\ DOMAIN t = 1 .. Len(t)
        /\ \A j \in 1 .. Len(s) - 1 : t[j] = IF j < i THEN s[j] ELSE s[j + 1]
    <3> HIDE DEF s
    <3>1. t \in Seq(Requests) /\ Len(t) = Len(s) - 1
      BY <2>0, InRemoveAt
    <3>2. DOMAIN t = 1 .. Len(t)
      BY <3>1
    <3> QED
      BY <2>0, <3>1, <3>2, InRemoveAt
  <2>2. requests' = [requests EXCEPT ![FALSE] = t]
    BY <1>2
  <2>3. \A k \in DOMAIN s : local[s[k].from] = FALSE
    BY <1>1
  <2>l. Less(t, s, Own(requests[FALSE][i].from)) /\ \A c \in Clients : Less(t, s, Own(c))
    <3> HIDE DEF s
    <3> QED
      BY <2>0, LessRemoveAt
  <2>4. PICK a \in Clients : a = s[i].from
    <3>1. s[i] \in Requests
      <4> HIDE DEF s
      <4> QED
        BY <2>0
    <3> QED
      BY <3>1 DEF Requests
  <2>a. disturbed' = disturbed \cup {a}
    BY <1>2, <2>4
  <2> HIDE DEF t
  <2>5. /\ requests' \in [BOOLEAN -> Seq(Requests)] /\ requests'[FALSE] = t
        /\ requests'[TRUE] = requests[TRUE]
    BY <1>1, <2>1, <2>2
  <2> HIDE DEF s
  <2>6. \A k \in DOMAIN t : local[t[k].from] = FALSE
    <3> SUFFICES ASSUME NEW k \in DOMAIN t PROVE local[t[k].from] = FALSE
      OBVIOUS
    <3>1. k \in 1 .. Len(s) - 1 /\ k \in DOMAIN s /\ k + 1 \in DOMAIN s
      BY <2>0, <2>1
    <3>2. t[k] = s[k] \/ t[k] = s[k + 1]
      BY <2>1, <3>1
    <3> QED
      BY <2>3, <3>1, <3>2
  <2>7. LineTypeOK'
    <3>1. \A k \in DOMAIN requests[TRUE] : local[requests[TRUE][k].from] = TRUE
      BY <1>1
    <3> QED
      BY <1>2, <2>5, <2>6, <3>1 DEF LineTypeOK
  <2>8. ASSUME NEW c \in Clients PROVE Less(Line(c)', Line(c), Own(c))
    <3>1. local[c] \in BOOLEAN /\ Line(c) = requests[local[c]] /\ Line(c)' = requests'[local[c]]
      BY <1>0, <1>2, LineTypes DEF Line
    <3>2. CASE local[c] = FALSE
      BY <2>5, <2>l, <3>1, <3>2 DEF s
    <3>3. CASE local[c] = TRUE
      BY <2>5, <3>1, <3>3, LessSame
    <3> QED
      BY <3>1, <3>2, <3>3
  <2>9. DatagramTypeOK'
    <3>1. disturbed' \subseteq Clients
      BY <1>1, <2>a
    <3>2. /\ main \in [Clients -> {"off", "register", "menu", "wait", "leave", "hung"}]
          /\ want \in [Clients -> Replies \cup {""}] /\ files \subseteq Clients /\ budget \in Nat
          /\ \A c \in Clients : main[c] \notin {"wait", "hung"} => want[c] = ""
      BY <1>0 DEF DatagramTypeOK
    <3>3. /\ main' \in [Clients -> {"off", "register", "menu", "wait", "leave", "hung"}]
          /\ want' \in [Clients -> Replies \cup {""}] /\ files' \subseteq Clients /\ budget' \in Nat
          /\ \A c \in Clients : main'[c] \notin {"wait", "hung"} => want'[c] = ""
          /\ inbox' \in [Clients -> Seq(Datagrams)]
      BY <1>1, <1>2, <3>2
    <3> QED
      BY <1>0, <1>2, <2>7, <3>1, <3>3, ClientKeepsTypes
  <2>10. disturbed \subseteq disturbed' /\ a \in disturbed'
    BY <2>a
  <2>11. \A c \in Clients \ {a} : /\ main'[c] = main[c] /\ want'[c] = want[c]
                                  /\ inbox'[c] = inbox[c]
    BY <1>2
  <2> QED
    BY <1>2, <2>8, <2>9, <2>10, <2>11, ClientStep
<1>3. ASSUME NEW a \in Clients, NEW i \in DOMAIN inbox[a],
             inbox' = [inbox EXCEPT ![a] = RemoveAt(@, i)],
             disturbed' = disturbed \cup {a},
             UNCHANGED <<local, place, clients, server, requests, main, want, files, budget>>
      PROVE  DatagramInv'
  <2>1. RemoveAt(inbox[a], i) \in Seq(Datagrams)
    <3>1. inbox[a] \in Seq(Datagrams) /\ i \in DOMAIN inbox[a]
      BY <1>1, <1>3
    <3> QED
      BY <3>1, InRemoveAt
  <2>2. /\ inbox' \in [Clients -> Seq(Datagrams)]
        /\ \A c \in Clients \ {a} : inbox'[c] = inbox[c]
    BY <1>1, <1>3, <2>1
  <2>3. LineTypeOK' /\ \A c \in Clients : Less(Line(c)', Line(c), Own(c))
    BY <1>0, <1>3, LessSame DEF DatagramTypeOK, LineTypeOK, Line
  <2>4. DatagramTypeOK'
    <3>1. disturbed' \subseteq Clients
      BY <1>1, <1>3
    <3>2. /\ main \in [Clients -> {"off", "register", "menu", "wait", "leave", "hung"}]
          /\ want \in [Clients -> Replies \cup {""}] /\ files \subseteq Clients /\ budget \in Nat
          /\ \A c \in Clients : main[c] \notin {"wait", "hung"} => want[c] = ""
      BY <1>0 DEF DatagramTypeOK
    <3>3. /\ main' \in [Clients -> {"off", "register", "menu", "wait", "leave", "hung"}]
          /\ want' \in [Clients -> Replies \cup {""}] /\ files' \subseteq Clients /\ budget' \in Nat
          /\ \A c \in Clients : main'[c] \notin {"wait", "hung"} => want'[c] = ""
      BY <1>3, <3>2
    <3> QED
      BY <1>0, <1>3, <2>2, <2>3, <3>1, <3>3, ClientKeepsTypes
  <2>5. disturbed \subseteq disturbed' /\ a \in disturbed'
    BY <1>3
  <2>6. \A c \in Clients \ {a} : main'[c] = main[c] /\ want'[c] = want[c]
    BY <1>3
  <2> QED
    BY <1>3, <2>2, <2>3, <2>4, <2>5, <2>6, ClientStep
<1> QED
  BY <1>2, <1>3 DEF D!Lose, D!fixed, D!client_, D!RemoveAt, RemoveAt

-----------------------------------------------------------------------------
\* zad1: the theorems

LEMMA DatagramStep == DatagramInv /\ D!Next => DatagramInv'
<1> SUFFICES ASSUME DatagramInv, D!Next PROVE DatagramInv'
  OBVIOUS
<1>1. ASSUME NEW unix \in BOOLEAN, \/ D!AddClient(unix) \/ D!Unregister(unix)
                                   \/ D!ListClients(unix) \/ D!AskClient(unix)
                                   \/ D!NotRecognized(unix)
      PROVE  DatagramInv'
  BY <1>1, AddClientStep, UnregisterStep, ListClientsStep, AskClientStep, NotRecognizedStep
<1>2. CASE D!InfoReceived \/ D!NotResponding \/ D!sigint_handler \/ D!Lose
  BY <1>2, InfoReceivedStep, NotRespondingStep, SigintStep, LoseStep
<1>3. ASSUME NEW c \in Clients,
             D!Register(c) \/ D!CheckList(c) \/ D!CheckState(c) \/ D!Logout(c)
      PROVE  DatagramInv'
  <2>1. 0 \in D!Entries
    BY EntryNumbers
  <2>2. CASE D!Register(c)
    BY <2>1, <2>2, RequestSent DEF D!Register
  <2>3. CASE D!CheckList(c)
    BY <2>1, <2>3, RequestSent DEF D!CheckList
  <2>4. CASE D!CheckState(c)
    BY <2>4, RequestSent DEF D!CheckState
  <2>5. CASE D!Logout(c)
    BY <2>1, <2>5, RequestSent DEF D!Logout
  <2> QED
    BY <1>3, <2>2, <2>3, <2>4, <2>5
<1>4. ASSUME NEW c \in Clients, D!Start(c) \/ D!ReceiveAnswer(c) \/ D!Exit(c)
                                  \/ D!Interrupt(c) \/ D!thread_run(c)
      PROVE  DatagramInv'
  BY <1>4, StartStep, ReceiveAnswerStep, ExitStep, InterruptStep, ThreadStep
<1>5. \/ \E unix \in BOOLEAN : \/ D!AddClient(unix) \/ D!Unregister(unix)
                               \/ D!ListClients(unix) \/ D!AskClient(unix)
                               \/ D!NotRecognized(unix)
      \/ D!InfoReceived \/ D!NotResponding \/ D!sigint_handler \/ D!Lose
      \/ \E c \in Clients : D!Register(c) \/ D!CheckList(c) \/ D!CheckState(c) \/ D!Logout(c)
      \/ \E c \in Clients : D!Start(c) \/ D!ReceiveAnswer(c) \/ D!Exit(c)
                              \/ D!Interrupt(c) \/ D!thread_run(c)
  BY DEF D!Next, D!server_main, D!client_main
<1> QED
  BY <1>1, <1>2, <1>3, <1>4, <1>5

LEMMA DatagramAlways == FairSpec => []DatagramInv
<1>1. Init => DatagramInv
  BY DatagramStarts DEF Init
<1>2. DatagramInv /\ [Next]_allVars => DatagramInv'
  <2> SUFFICES ASSUME DatagramInv, [Next]_allVars PROVE DatagramInv'
    OBVIOUS
  <2>1. CASE InDatagram(D!Next)
    BY <2>1, DatagramStep DEF InDatagram
  <2>2. CASE UNCHANGED datagram
    <3>1. DatagramTypeOK'
      BY <2>2 DEF DatagramInv, DatagramTypeOK, datagram
    <3>2. EntriesInv'
      BY <2>2 DEF DatagramInv, EntriesInv, datagram, D!name
    <3>3. \A c \in Clients : (Matches(c)' <=> Matches(c)) /\ (Belongs(c)' <=> Belongs(c))
      BY <2>2 DEF datagram, Matches, Belongs, Member, Listed, Pending, Asks, Answered, Line
    <3>4. \A c \in Clients : Sole(c)' <=> Sole(c)
      BY <2>2 DEF datagram, Sole, D!name
    <3>5. disturbed' = disturbed /\ server' = server
      BY <2>2 DEF datagram
    <3> QED
      BY <3>1, <3>2, <3>3, <3>4, <3>5 DEF DatagramInv
  <2> QED
    BY <2>1, <2>2 DEF Next, InStream, allVars
<1> QED
  BY <1>1, <1>2, PTL DEF FairSpec

\* Every variable of the datagram registry keeps its type; every client's requests
\* come to the socket of its own family, and whom the server asks is a client.
THEOREM DatagramTypeCorrect == FairSpec => []DatagramTypeOK
<1>1. DatagramInv => DatagramTypeOK
  BY DEF DatagramInv
<1> QED
  BY <1>1, DatagramAlways, PTL

\* A client that thinks it is registered is before the first empty name of the list,
\* whoever registers and unregisters in whatever order (server.c:293-353), unless it
\* shares its name, a datagram of it was lost or misread, an answer went astray, or the
\* list was full.
THEOREM MembersListed == FairSpec => []EveryMemberListed
<1>1. DatagramInv => EveryMemberListed
  <2> SUFFICES ASSUME DatagramInv, server.pc # "ended", NEW c \in Clients,
                      main[c] \in {"menu", "wait"}, want[c] # "ADD_CLIENT", c \notin disturbed,
                      \A d \in Clients \ {c} : D!name(d) # D!name(c)
               PROVE  \E i \in D!Entries : /\ clients[i].who = c
                                           /\ \A j \in 0 .. i : clients[j].name # ""
    BY DEF EveryMemberListed, D!EveryMemberListed
  <2>1. Belongs(c) /\ Member(c)
    BY DEF DatagramInv, Sole, Member
  <2> QED
    BY <2>1 DEF Belongs, Listed
<1> QED
  BY <1>1, DatagramAlways, PTL

\* main takes the answer to the request it has sent and to no other
\* (client.c:171-240), however late the server answers, until a question was misread, a
\* datagram lost, or an answer sent to an address that another client had bound since
\* (client.c:153, 410).
THEOREM AnswersFit == FairSpec => AnswersMatch
<1>1. DatagramInv /\ [Next]_allVars =>
        [\A c \in Clients :
           D!ReceiveAnswer(c) /\ c \notin disturbed' => Head(inbox[c]) = want[c]]_(D!vars)
  <2> SUFFICES ASSUME DatagramInv, NEW c \in Clients, D!ReceiveAnswer(c), c \notin disturbed'
               PROVE  Head(inbox[c]) = want[c]
    OBVIOUS
  <2>1. /\ main[c] = "wait" /\ inbox[c] # <<>>
        /\ c \notin disturbed /\ Head(inbox[c]) # "question"
    BY DEF D!ReceiveAnswer
  <2>2. DatagramTypeOK /\ Matches(c)
    BY <2>1 DEF DatagramInv
  <2> QED
    BY <2>1, <2>2, AnswerIsWanted
<1> QED
  BY <1>1, DatagramAlways, PTL DEF FairSpec, AnswersMatch, D!AnswersMatch

=============================================================================
