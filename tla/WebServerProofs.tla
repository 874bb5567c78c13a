-------------------------- MODULE WebServerProofs --------------------------
(***************************************************************************)
(* Proofs about WebServer, for any people, any capacities of the queues    *)
(* and any number of requests: its type invariant; every request is        *)
(* answered once and in order; a session is always that of somebody who    *)
(* sent the right password; an answer that is late is never made up for.   *)
(***************************************************************************)
EXTENDS WebServer, SequenceTheorems, FunctionTheorems, FiniteSetTheorems, TLAPS

-----------------------------------------------------------------------------
(* What the two queue operations do to the elements. *)

LEMMA AppendElements ==
  ASSUME NEW S, NEW s \in Seq(S), NEW e \in S
  PROVE  /\ Append(s, e) \in Seq(S)
         /\ Len(s) \in Nat
         /\ Len(Append(s, e)) = Len(s) + 1
         /\ \A i \in 1..Len(s) : Append(s, e)[i] = s[i]
         /\ Append(s, e)[Len(s) + 1] = e
BY AppendProperties, LenProperties

LEMMA TailElements ==
  ASSUME NEW S, NEW s \in Seq(S), s # << >>
  PROVE  /\ Head(s) \in S
         /\ Head(s) = s[1]
         /\ Len(s) \in Nat \ {0}
         /\ Tail(s) \in Seq(S)
         /\ Len(Tail(s)) = Len(s) - 1
         /\ \A i \in 1..(Len(s) - 1) : Tail(s)[i] = s[i + 1]
BY HeadTailProperties, LenProperties, EmptySeq

-----------------------------------------------------------------------------
(* How many requests of a queue are behind a place, and what a message that *)
(* is added at the end or taken at the front makes of that number.          *)

Places(q) == {i \in 1..Len(q) : q[i] # CoreMsg}

PlacesAfter(q, i) == {j \in Places(q) : j > i}

Behind(q, i) == Cardinality(PlacesAfter(q, i))

LEMMA AskedIsPlaces ==
  Asked = Places(mqToDatabase) /\ \A i : AskedAfter(i) = Behind(mqToDatabase, i)
BY DEF Asked, AskedAfter, Places, PlacesAfter, Behind

LEMMA AskedIsPlacesNext ==
  /\ Asked' = Places(mqToDatabase')
  /\ \A i : AskedAfter(i)' = Behind(mqToDatabase', i)
BY DEF Asked, AskedAfter, Places, PlacesAfter, Behind

LEMMA PlacesFinite ==
  ASSUME NEW S, NEW q \in Seq(S), NEW i
  PROVE  /\ IsFiniteSet(PlacesAfter(q, i))
         /\ Behind(q, i) \in Nat
<1>1. IsFiniteSet(1..Len(q))
  BY FS_Interval, LenProperties
<1>2. PlacesAfter(q, i) \subseteq 1..Len(q)
  BY DEF PlacesAfter, Places
<1>3. IsFiniteSet(PlacesAfter(q, i))
  BY <1>1, <1>2, FS_Subset
<1> QED BY <1>3, FS_CardinalityType DEF Behind

LEMMA NobodyBehindLast ==
  ASSUME NEW S, NEW q \in Seq(S), NEW i \in Int, i >= Len(q)
  PROVE  Behind(q, i) = 0
<1>1. PlacesAfter(q, i) = {}
  BY LenProperties DEF PlacesAfter, Places
<1> QED BY <1>1, FS_EmptySet DEF Behind

LEMMA BehindAppended ==
  ASSUME NEW S, NEW q \in Seq(S), NEW m \in S, NEW i \in 0..Len(q)
  PROVE  Behind(Append(q, m), i) = Behind(q, i) + (IF m = CoreMsg THEN 0 ELSE 1)
<1> DEFINE n == Len(q) + 1
<1>1. n \in Nat /\ Len(q) \in Nat /\ Len(Append(q, m)) = n
  BY AppendElements
<1>2. Places(Append(q, m)) = Places(q) \union (IF m = CoreMsg THEN {} ELSE {n})
  BY <1>1, AppendElements DEF Places
<1>3. n > i /\ n \notin PlacesAfter(q, i)
  BY <1>1 DEF PlacesAfter, Places
<1>4. PlacesAfter(Append(q, m), i) =
        PlacesAfter(q, i) \union (IF m = CoreMsg THEN {} ELSE {n})
  BY <1>2, <1>3 DEF PlacesAfter
<1>5. CASE m = CoreMsg
  <2>1. PlacesAfter(Append(q, m), i) = PlacesAfter(q, i)
    BY <1>4, <1>5
  <2>2. Behind(Append(q, m), i) = Behind(q, i)
    BY <2>1 DEF Behind
  <2> QED BY <1>5, <2>2, PlacesFinite
<1>6. CASE m # CoreMsg
  <2>1. PlacesAfter(Append(q, m), i) = PlacesAfter(q, i) \union {n}
    BY <1>4, <1>6
  <2>2. Cardinality(PlacesAfter(q, i) \union {n}) = Cardinality(PlacesAfter(q, i)) + 1
    BY <1>3, PlacesFinite, FS_AddElement
  <2>3. Behind(Append(q, m), i) = Behind(q, i) + 1
    BY <2>1, <2>2 DEF Behind
  <2> QED BY <1>6, <2>3
<1> QED BY <1>5, <1>6

LEMMA BehindTaken ==
  ASSUME NEW S, NEW q \in Seq(S), q # << >>, NEW i \in Nat
  PROVE  Behind(Tail(q), i) = Behind(q, i + 1)
<1> DEFINE A == PlacesAfter(q, i + 1)
           B == PlacesAfter(Tail(q), i)
           f == [j \in A |-> j - 1]
<1>1. /\ Len(q) \in Nat \ {0}
      /\ Tail(q) \in Seq(S)
      /\ Len(Tail(q)) = Len(q) - 1
      /\ \A j \in 1..(Len(q) - 1) : Tail(q)[j] = q[j + 1]
  BY TailElements
<1>2. /\ \A j \in A : j \in Int /\ j - 1 \in B
      /\ \A j \in B : j \in Int /\ j + 1 \in A
  <2>1. ASSUME NEW j \in A
        PROVE  j \in Int /\ j - 1 \in B
    <3>1. j \in 1..Len(q) /\ q[j] # CoreMsg /\ j > i + 1
      BY DEF PlacesAfter, Places
    <3>2. j - 1 \in 1..(Len(q) - 1) /\ j - 1 > i /\ (j - 1) + 1 = j
      BY <1>1, <3>1
    <3>3. Tail(q)[j - 1] = q[j]
      BY <1>1, <3>2
    <3> QED BY <1>1, <3>1, <3>2, <3>3 DEF PlacesAfter, Places
  <2>2. ASSUME NEW j \in B
        PROVE  j \in Int /\ j + 1 \in A
    <3>1. j \in 1..Len(Tail(q)) /\ Tail(q)[j] # CoreMsg /\ j > i
      BY DEF PlacesAfter, Places
    <3>2. j \in 1..(Len(q) - 1) /\ j + 1 \in 1..Len(q) /\ j + 1 > i + 1
      BY <1>1, <3>1
    <3>3. Tail(q)[j] = q[j + 1]
      BY <1>1, <3>2
    <3> QED BY <3>1, <3>2, <3>3 DEF PlacesAfter, Places
  <2> QED BY <2>1, <2>2
<1>3. f \in Bijection(A, B)
  <2>1. f \in [A -> B]
    BY <1>2
  <2>2. \A a, b \in A : f[a] = f[b] => a = b
    BY <1>2
  <2>3. \A b \in B : \E a \in A : f[a] = b
    <3>1. ASSUME NEW b \in B
          PROVE  f[b + 1] = b /\ b + 1 \in A
      BY <1>2
    <3> QED BY <3>1
  <2> QED BY <2>1, <2>2, <2>3, Fun_IsBij
<1>4. IsFiniteSet(A)
  BY PlacesFinite
<1>5. Cardinality(A) = Cardinality(B)
  BY <1>3, <1>4, FS_Bijection DEF ExistsBijection
<1> QED BY <1>5 DEF Behind

LEMMA BehindFirst ==
  ASSUME NEW S, NEW q \in Seq(S), q # << >>
  PROVE  Behind(q, 0) = Behind(q, 1) + (IF Head(q) = CoreMsg THEN 0 ELSE 1)
<1>1. Len(q) \in Nat \ {0} /\ Head(q) = q[1]
  BY TailElements
<1>2. PlacesAfter(q, 0) =
        PlacesAfter(q, 1) \union (IF Head(q) = CoreMsg THEN {} ELSE {1})
  BY <1>1 DEF PlacesAfter, Places
<1>3. 1 \notin PlacesAfter(q, 1)
  BY DEF PlacesAfter
<1>4. CASE Head(q) = CoreMsg
  <2>1. PlacesAfter(q, 0) = PlacesAfter(q, 1)
    BY <1>2, <1>4
  <2>2. Behind(q, 0) = Behind(q, 1)
    BY <2>1 DEF Behind
  <2> QED BY <1>4, <2>2, PlacesFinite
<1>5. CASE Head(q) # CoreMsg
  <2>1. PlacesAfter(q, 0) = PlacesAfter(q, 1) \union {1}
    BY <1>2, <1>5
  <2>2. Cardinality(PlacesAfter(q, 1) \union {1}) = Cardinality(PlacesAfter(q, 1)) + 1
    BY <1>3, PlacesFinite, FS_AddElement
  <2>3. Behind(q, 0) = Behind(q, 1) + 1
    BY <2>1, <2>2 DEF Behind
  <2> QED BY <1>5, <2>3
<1> QED BY <1>4, <1>5

-----------------------------------------------------------------------------
(* The inductive invariant. While a handler waits to send, its request is   *)
(* the next; whoever a right login names, in the queue or in the hand of    *)
(* the database daemon, and whoever the answer to a login names, has sent   *)
(* the right password.                                                      *)

SendsNext == at = "send" => current.id = sent + 1

RightLogin(r) == r.kind = "LOGIN" /\ r.right

LoginsVouched ==
  /\ \A i \in 1..Len(mqToDatabase) :
       RightLogin(mqToDatabase[i]) => mqToDatabase[i].who \in proved
  /\ RightLogin(dbHand) => dbHand.who \in proved
  /\ \A i \in 1..Len(mqFromDatabase) :
       mqFromDatabase[i].shape = "user" => mqFromDatabase[i].who \in proved

LEMMA MessagesApart ==
  /\ CoreMsg \notin Request
  /\ NoRequest \notin Request
  /\ \A r \in Request : r.id \in 1..MaxRequests /\ r.who \in People
                          /\ r.kind \in Kinds /\ r.right \in BOOLEAN
  /\ ~RightLogin(CoreMsg) /\ ~RightLogin(NoRequest)
BY WebServerAssumption DEF CoreMsg, NoRequest, Request, RightLogin

(* The parts of AnswersInOrder. *)
QueueInOrder ==
  \A i \in Asked : mqToDatabase[i].id = sent - AskedAfter(i)

AnswersBeforeHand ==
  /\ dbHand # NoRequest => dbHand.id = Taken
  /\ \A i \in 1..Len(mqFromDatabase) :
       mqFromDatabase[i].id = Taken - (IF dbHand = NoRequest THEN 0 ELSE 1)
                              - (Len(mqFromDatabase) - i)

OwnUnderWay ==
  at = "receive" =>
    /\ current.id = sent
    /\ Asked # {} \/ dbHand # NoRequest \/ mqFromDatabase # << >>

LEMMA OrderApart ==
  AnswersInOrder <=> QueueInOrder /\ AnswersBeforeHand /\ OwnUnderWay
BY DEF AnswersInOrder, QueueInOrder, AnswersBeforeHand, OwnUnderWay

(* What the type invariant says of the messages, apart from the sessions.   *)
MessagesTyped ==
  /\ current \in Request \union {NoRequest}
  /\ at \in {"send", "receive"} => current # NoRequest
  /\ sent \in 0..MaxRequests
  /\ mqToDatabase \in Seq(Request \union {CoreMsg})
  /\ Len(mqToDatabase) <= DbCap
  /\ dbHand \in Request \union {NoRequest}
  /\ mqFromDatabase \in Seq(Answer)
  /\ Len(mqFromDatabase) <= WebCap

SessionsTyped ==
  /\ DOMAIN sessions \subseteq 1..sent
  /\ \A t \in DOMAIN sessions : sessions[t] \in People
  /\ expired \subseteq DOMAIN sessions
  /\ cookie \in [People -> 0..sent]

FlagsTyped ==
  /\ at \in {"idle", "send", "receive", "down", "ended"}
  /\ running \in BOOLEAN
  /\ proved \subseteq People

MessagesInv == MessagesTyped /\ SendsNext /\ AnswersInOrder /\ LoginsVouched
SessionsInv == SessionsTyped /\ SessionsWereProved
WebServerInv == FlagsTyped /\ MessagesInv /\ SessionsInv

LEMMA TypesApart ==
  WebServerTypeOK <=> FlagsTyped /\ MessagesTyped /\ SessionsTyped
BY DEF WebServerTypeOK, FlagsTyped, MessagesTyped, SessionsTyped

(* The current request, while one is being handled. *)
LEMMA CurrentIsRequest ==
  ASSUME MessagesTyped, at \in {"send", "receive"}
  PROVE  current \in Request
BY DEF MessagesTyped

-----------------------------------------------------------------------------
(* What a step may do to the messages, one lemma for each way. *)

(* The handlers that send nothing and the end of a wait. *)
QuietStep ==
  /\ UNCHANGED <<sent, queues, proved>>
  /\ \/ UNCHANGED <<at, current>>
     \/ at' = "idle" /\ current' = NoRequest
     \/ at' = "ended" /\ at = "idle" /\ UNCHANGED current
     \/ /\ at' = "send"
        /\ current' \in Request
        /\ current'.id = sent + 1

LEMMA MessagesQuiet ==
  ASSUME MessagesTyped, SendsNext, AnswersInOrder, LoginsVouched, QuietStep
  PROVE  (MessagesTyped /\ SendsNext /\ AnswersInOrder /\ LoginsVouched)'
<1> USE DEF QuietStep, queues
<1>1. MessagesTyped'
  BY MessagesApart DEF MessagesTyped
<1>2. SendsNext'
  BY DEF SendsNext
<1>3. AnswersInOrder'
  <2>1. Asked' = Asked
    BY DEF Asked
  <2>2. \A i : AskedAfter(i)' = AskedAfter(i)
    BY <2>1 DEF AskedAfter
  <2>3. Taken' = Taken
    BY <2>2 DEF Taken
  <2> QED BY <2>1, <2>2, <2>3 DEF AnswersInOrder
<1>4. LoginsVouched'
  BY DEF LoginsVouched
<1> QED BY <1>1, <1>2, <1>3, <1>4

(* A message at the end of mq_to_db. *)
LEMMA MessagesPosted ==
  ASSUME MessagesTyped, QueueInOrder, AnswersBeforeHand, LoginsVouched,
         NEW m \in Request \union {CoreMsg}, PostDb(m),
         UNCHANGED <<dbHand, mqFromDatabase>>,
         sent' = sent + (IF m = CoreMsg THEN 0 ELSE 1),
         proved \subseteq proved',
         m # CoreMsg => m.id = sent',
         RightLogin(m) => m.who \in proved'
  PROVE  /\ mqToDatabase' \in Seq(Request \union {CoreMsg})
         /\ Len(mqToDatabase') <= DbCap
         /\ m # CoreMsg => Asked' # {}
         /\ Asked \subseteq Asked'
         /\ (QueueInOrder /\ AnswersBeforeHand /\ LoginsVouched)'
<1> DEFINE q == mqToDatabase
           n == Len(q) + 1
<1>1. /\ q \in Seq(Request \union {CoreMsg})
      /\ Len(q) < DbCap
      /\ q' = Append(q, m)
      /\ sent \in 0..MaxRequests
  BY DEF PostDb, MessagesTyped
<1>2. /\ q' \in Seq(Request \union {CoreMsg})
      /\ Len(q) \in Nat
      /\ Len(q') = n
      /\ \A i \in 1..Len(q) : q'[i] = q[i]
      /\ q'[n] = m
  BY <1>1, AppendElements
<1>3. Len(q') <= DbCap
  BY <1>1, <1>2, WebServerAssumption
<1>4. Asked' = Asked \union (IF m = CoreMsg THEN {} ELSE {n})
  BY <1>2 DEF Asked
<1>5. \A i \in 0..Len(q) :
        Behind(q', i) = AskedAfter(i) + (IF m = CoreMsg THEN 0 ELSE 1)
  BY <1>1, BehindAppended, AskedIsPlaces
<1>6. \A i \in 0..Len(q) : AskedAfter(i) \in Nat
  BY <1>1, AskedIsPlaces, PlacesFinite
<1>7. Behind(q', n) = 0
  BY <1>2, NobodyBehindLast
<1>8. \A i \in 0..Len(q) : sent' - Behind(q', i) = sent - AskedAfter(i)
  BY <1>1, <1>5, <1>6
<1>9. Taken' = Taken
  <2>1. AskedAfter(0)' = Behind(q', 0)
    BY AskedIsPlacesNext
  <2> QED BY <1>2, <1>8, <2>1 DEF Taken
<1>10. QueueInOrder'
  <2>1. ASSUME NEW i \in Asked
        PROVE  q'[i].id = sent' - Behind(q', i)
    <3>1. i \in 1..Len(q)
      BY DEF Asked
    <3>2. q'[i] = q[i] /\ i \in 0..Len(q)
      BY <1>2, <3>1
    <3>3. q[i].id = sent - AskedAfter(i)
      BY DEF QueueInOrder
    <3> QED BY <1>8, <3>2, <3>3
  <2>2. ASSUME m # CoreMsg
        PROVE  q'[n].id = sent' - Behind(q', n)
    BY <1>1, <1>2, <1>7, <2>2
  <2>3. \A i \in Asked' : q'[i].id = sent' - Behind(q', i)
    BY <1>4, <2>1, <2>2
  <2> QED BY <2>3, AskedIsPlacesNext DEF QueueInOrder
<1>11. AnswersBeforeHand'
  BY <1>9 DEF AnswersBeforeHand
<1>12. LoginsVouched'
  <2>1. ASSUME NEW i \in 1..Len(q'), RightLogin(q'[i])
        PROVE  q'[i].who \in proved'
    <3>1. CASE i = n
      BY <1>2, <2>1, <3>1
    <3>2. CASE i # n
      <4>1. i \in 1..Len(q) /\ q'[i] = q[i]
        BY <1>2, <2>1, <3>2
      <4> QED BY <2>1, <4>1 DEF LoginsVouched
    <3> QED BY <3>1, <3>2
  <2> QED BY <2>1 DEF LoginsVouched
<1> QED BY <1>2, <1>3, <1>4, <1>10, <1>11, <1>12

LEMMA MessagesSent ==
  ASSUME MessagesTyped, SendsNext, AnswersInOrder, LoginsVouched, Send
  PROVE  (MessagesTyped /\ SendsNext /\ AnswersInOrder /\ LoginsVouched)'
<1>1. current \in Request /\ current.id = sent + 1
  BY CurrentIsRequest DEF Send, SendsNext
<1>2. /\ current # CoreMsg
      /\ sent' = sent + 1
      /\ sent' \in 0..MaxRequests
  BY <1>1, MessagesApart DEF Send, MessagesTyped
<1>3. proved \subseteq proved' /\ (RightLogin(current) => current.who \in proved')
  BY DEF Send, RightLogin
<1>4. /\ mqToDatabase' \in Seq(Request \union {CoreMsg})
      /\ Len(mqToDatabase') <= DbCap
      /\ Asked' # {}
      /\ (QueueInOrder /\ AnswersBeforeHand /\ LoginsVouched)'
  BY <1>1, <1>2, <1>3, OrderApart, MessagesPosted DEF Send
<1>5. MessagesTyped'
  BY <1>1, <1>2, <1>4 DEF Send, MessagesTyped
<1>6. SendsNext'
  BY DEF Send, SendsNext
<1>7. OwnUnderWay'
  BY <1>1, <1>2, <1>4 DEF Send, OwnUnderWay
<1> QED BY <1>4, <1>5, <1>6, <1>7 DEF AnswersInOrder, QueueInOrder, AnswersBeforeHand, OwnUnderWay

LEMMA MessagesOfCore ==
  ASSUME MessagesTyped, SendsNext, AnswersInOrder, LoginsVouched, CoreSend
  PROVE  (MessagesTyped /\ SendsNext /\ AnswersInOrder /\ LoginsVouched)'
<1>1. sent \in Nat /\ sent' = sent /\ proved' = proved
  BY DEF CoreSend, MessagesTyped
<1>2. /\ mqToDatabase' \in Seq(Request \union {CoreMsg})
      /\ Len(mqToDatabase') <= DbCap
      /\ Asked \subseteq Asked'
      /\ (QueueInOrder /\ AnswersBeforeHand /\ LoginsVouched)'
  BY <1>1, OrderApart, MessagesApart, MessagesPosted DEF CoreSend
<1>3. MessagesTyped'
  BY <1>2 DEF CoreSend, MessagesTyped
<1>4. SendsNext'
  BY DEF CoreSend, SendsNext
<1>5. OwnUnderWay'
  BY <1>2, OrderApart DEF CoreSend, OwnUnderWay
<1> QED BY <1>2, <1>3, <1>4, <1>5 DEF AnswersInOrder, QueueInOrder, AnswersBeforeHand, OwnUnderWay

(* The first answer is taken, and the handler is done or the server down. *)
LEMMA MessagesTaken ==
  ASSUME MessagesTyped, SendsNext, AnswersInOrder, LoginsVouched, TakeAnswer,
         at' \in {"idle", "down"}, current' \in {current, NoRequest}
  PROVE  (MessagesTyped /\ SendsNext /\ AnswersInOrder /\ LoginsVouched)'
<1> DEFINE a == mqFromDatabase
<1>1. a \in Seq(Answer) /\ a # << >> /\ a' = Tail(a) /\ Len(a) <= WebCap
  BY DEF MessagesTyped, TakeAnswer
<1>2. /\ a' \in Seq(Answer)
      /\ Len(a) \in Nat \ {0}
      /\ Len(a') = Len(a) - 1
      /\ \A i \in 1..Len(a') : a'[i] = a[i + 1] /\ i + 1 \in 1..Len(a)
  BY <1>1, TailElements
<1>3. MessagesTyped'
  BY <1>1, <1>2, WebServerAssumption DEF TakeAnswer, MessagesTyped
<1>4. SendsNext' /\ OwnUnderWay'
  BY DEF SendsNext, OwnUnderWay
<1>5. Asked' = Asked /\ (\A i : AskedAfter(i)' = AskedAfter(i)) /\ sent' = sent
  BY DEF TakeAnswer, Asked, AskedAfter
<1>6. QueueInOrder'
  BY <1>5, OrderApart DEF TakeAnswer, QueueInOrder
<1>7. Taken' = Taken /\ Taken \in Int
  <2>1. AskedAfter(0) \in Nat
    BY AskedIsPlaces, PlacesFinite DEF MessagesTyped
  <2> QED BY <1>5, <2>1 DEF Taken, MessagesTyped
<1>8. AnswersBeforeHand'
  <2>1. dbHand' = dbHand
    BY DEF TakeAnswer
  <2>2. ASSUME NEW i \in 1..Len(a')
        PROVE  a'[i].id = Taken' - (IF dbHand' = NoRequest THEN 0 ELSE 1)
                            - (Len(a') - i)
    <3>1. a[i + 1].id = Taken - (IF dbHand = NoRequest THEN 0 ELSE 1)
                          - (Len(a) - (i + 1))
      BY <1>2, <2>2, OrderApart DEF AnswersBeforeHand
    <3>2. Len(a') - i = Len(a) - (i + 1)
      BY <1>2, <2>2
    <3> QED BY <1>2, <1>7, <2>1, <3>1, <3>2
  <2>3. dbHand' # NoRequest => dbHand'.id = Taken'
    BY <1>7, <2>1, OrderApart DEF AnswersBeforeHand
  <2> QED BY <2>2, <2>3 DEF AnswersBeforeHand
<1>9. LoginsVouched'
  <2>1. UNCHANGED <<mqToDatabase, dbHand, proved>>
    BY DEF TakeAnswer
  <2>2. ASSUME NEW i \in 1..Len(a'), a'[i].shape = "user"
        PROVE  a'[i].who \in proved'
    BY <1>2, <2>1, <2>2 DEF LoginsVouched
  <2> QED BY <2>1, <2>2 DEF LoginsVouched
<1> QED BY <1>3, <1>4, <1>6, <1>8, <1>9 DEF AnswersInOrder, QueueInOrder, AnswersBeforeHand, OwnUnderWay

(* The database daemon takes the first message. *)
LEMMA MessagesReceived ==
  ASSUME MessagesTyped, SendsNext, AnswersInOrder, LoginsVouched, DbReceive
  PROVE  (MessagesTyped /\ SendsNext /\ AnswersInOrder /\ LoginsVouched)'
<1> DEFINE q == mqToDatabase
<1> USE OrderApart
<1>1. /\ q \in Seq(Request \union {CoreMsg})
      /\ q # << >> /\ q' = Tail(q)
      /\ dbHand = NoRequest
      /\ dbHand' = IF Head(q) = CoreMsg THEN NoRequest ELSE Head(q)
      /\ UNCHANGED <<at, current, sent, mqFromDatabase, proved>>
  BY DEF DbReceive, MessagesTyped
<1>2. /\ Head(q) \in Request \union {CoreMsg}
      /\ Head(q) = q[1]
      /\ Len(q) \in Nat \ {0}
      /\ q' \in Seq(Request \union {CoreMsg})
      /\ Len(q') = Len(q) - 1
      /\ \A i \in 1..(Len(q) - 1) : q'[i] = q[i + 1]
  BY <1>1, TailElements
<1>3. MessagesTyped'
  BY <1>1, <1>2, WebServerAssumption DEF MessagesTyped
<1>4. \A i \in 1..Len(q') :
        q'[i] = q[i + 1] /\ i + 1 \in 1..Len(q) /\ i \in Nat
  BY <1>2
<1>5. \A i \in Nat : Behind(q', i) = AskedAfter(i + 1) /\ AskedAfter(i) \in Nat
  BY <1>1, BehindTaken, PlacesFinite, AskedIsPlaces
<1>6. QueueInOrder'
  <2>1. ASSUME NEW i \in Asked'
        PROVE  q'[i].id = sent' - Behind(q', i)
    <3>1. i \in 1..Len(q') /\ q'[i] # CoreMsg
      BY DEF Asked
    <3>2. i + 1 \in Asked /\ i \in Nat /\ q'[i] = q[i + 1]
      BY <1>4, <3>1 DEF Asked
    <3>3. q[i + 1].id = sent - AskedAfter(i + 1)
      BY <3>2 DEF QueueInOrder
    <3> QED BY <1>1, <1>5, <3>2, <3>3
  <2> QED BY <2>1, AskedIsPlacesNext DEF QueueInOrder
<1>7. /\ AskedAfter(0) = AskedAfter(1) + (IF Head(q) = CoreMsg THEN 0 ELSE 1)
      /\ AskedAfter(0) \in Nat
      /\ AskedAfter(1) \in Nat
      /\ sent \in Nat
  <2>1. AskedAfter(0) = AskedAfter(1) + (IF Head(q) = CoreMsg THEN 0 ELSE 1)
    BY <1>1, BehindFirst, AskedIsPlaces
  <2>2. AskedAfter(0) \in Nat /\ AskedAfter(1) \in Nat
    BY <1>5
  <2>3. sent \in Nat
    BY WebServerAssumption DEF MessagesTyped
  <2> QED BY <2>1, <2>2, <2>3
<1>8. Taken' = Taken + (IF Head(q) = CoreMsg THEN 0 ELSE 1) /\ Taken \in Int
  <2>1. Taken' = sent - AskedAfter(1)
    <3>1. AskedAfter(0)' = AskedAfter(0 + 1)
      BY <1>5, AskedIsPlacesNext
    <3> QED BY <1>1, <3>1 DEF Taken
  <2> QED BY <1>7, <2>1 DEF Taken
<1>9. Head(q) # CoreMsg => Head(q).id = Taken'
  <2>1. SUFFICES ASSUME Head(q) # CoreMsg
                 PROVE  Head(q).id = Taken'
    OBVIOUS
  <2>2. 1 \in Asked
    BY <1>2, <2>1 DEF Asked
  <2>3. q[1].id = sent - AskedAfter(1)
    BY <2>2 DEF QueueInOrder
  <2> QED BY <1>2, <1>7, <1>8, <2>1, <2>3 DEF Taken
<1>10. AnswersBeforeHand'
  <2>1. dbHand' # NoRequest => dbHand'.id = Taken'
    BY <1>1, <1>9
  <2>2. Taken' - (IF dbHand' = NoRequest THEN 0 ELSE 1) = Taken
    BY <1>1, <1>2, <1>8, MessagesApart
  <2>3. \A i \in 1..Len(mqFromDatabase) :
          mqFromDatabase[i].id = Taken - 0 - (Len(mqFromDatabase) - i)
    BY <1>1 DEF AnswersBeforeHand
  <2>4. \A i \in 1..Len(mqFromDatabase) :
          mqFromDatabase[i].id = Taken - (Len(mqFromDatabase) - i)
    BY <1>8, <2>3
  <2> QED BY <1>1, <2>1, <2>2, <2>4 DEF AnswersBeforeHand
<1>11. OwnUnderWay'
  <2>1. ASSUME NEW i \in Asked
        PROVE  Asked' # {} \/ dbHand' # NoRequest
    <3>1. i \in 1..Len(q) /\ q[i] # CoreMsg
      BY DEF Asked
    <3>2. CASE i = 1
      BY <1>1, <1>2, <3>1, <3>2, MessagesApart
    <3>3. CASE i # 1
      <4>1. i - 1 \in 1..(Len(q) - 1) /\ (i - 1) + 1 = i
        BY <1>2, <3>1, <3>3
      <4>2. i - 1 \in 1..Len(q') /\ q'[i - 1] = q[i]
        BY <1>2, <4>1
      <4>3. i - 1 \in Asked'
        BY <3>1, <4>2 DEF Asked
      <4> QED BY <4>3
    <3> QED BY <3>2, <3>3
  <2> QED BY <1>1, <2>1 DEF OwnUnderWay
<1>12. LoginsVouched'
  <2>1. \A i \in 1..Len(q') : RightLogin(q'[i]) => q'[i].who \in proved'
    BY <1>1, <1>4 DEF LoginsVouched
  <2>2. RightLogin(dbHand') => dbHand'.who \in proved'
    BY <1>1, <1>2, MessagesApart DEF LoginsVouched
  <2> QED BY <1>1, <2>1, <2>2 DEF LoginsVouched
<1>13. SendsNext'
  BY <1>1 DEF SendsNext
<1> QED BY <1>3, <1>6, <1>10, <1>11, <1>12, <1>13
    DEF AnswersInOrder, QueueInOrder, AnswersBeforeHand, OwnUnderWay

(* Only a right login is answered with a user. *)
LEMMA UserIsOfRightLogin ==
  ASSUME NEW r \in Request, "user" \in ShapesOf(r)
  PROVE  RightLogin(r)
<1>1. r.kind \in Kinds /\ r.right \in BOOLEAN
  BY DEF Request
<1>2. r.kind \in {"LOGIN", "REGISTER", "DASHBOARD", "READ", "LIST", "CHANGE"}
  BY <1>1 DEF Kinds, Open
<1> QED BY <1>1, <1>2 DEF ShapesOf, RightLogin

(* It answers the request in its hand. *)
LEMMA MessagesAnswered ==
  ASSUME MessagesTyped, SendsNext, AnswersInOrder, LoginsVouched,
         NEW shape \in Shapes, DbAnswer(shape)
  PROVE  (MessagesTyped /\ SendsNext /\ AnswersInOrder /\ LoginsVouched)'
<1> DEFINE a == mqFromDatabase
           answer == [id |-> dbHand.id, shape |-> shape, who |-> dbHand.who]
<1> USE OrderApart
<1>1. /\ dbHand # NoRequest /\ dbHand' = NoRequest
      /\ shape \in ShapesOf(dbHand)
      /\ Len(a) < WebCap
      /\ a' = Append(a, answer)
      /\ UNCHANGED <<at, current, sent, mqToDatabase, proved>>
  BY DEF DbAnswer
<1>2. dbHand \in Request /\ answer \in Answer /\ a \in Seq(Answer)
  BY <1>1, MessagesApart DEF MessagesTyped, Answer
<1>3. /\ a' \in Seq(Answer)
      /\ Len(a) \in Nat
      /\ Len(a') = Len(a) + 1
      /\ \A i \in 1..Len(a) : a'[i] = a[i]
      /\ a'[Len(a) + 1] = answer
  BY <1>1, <1>2, AppendElements
<1>4. MessagesTyped'
  BY <1>1, <1>3, WebServerAssumption DEF MessagesTyped
<1>5. SendsNext'
  BY <1>1 DEF SendsNext
<1>6. Asked' = Asked /\ (\A i : AskedAfter(i)' = AskedAfter(i))
  BY <1>1 DEF Asked, AskedAfter
<1>7. QueueInOrder'
  BY <1>1, <1>6 DEF QueueInOrder
<1>8. Taken' = Taken /\ Taken \in Int
  <2>1. AskedAfter(0) \in Nat
    BY AskedIsPlaces, PlacesFinite DEF MessagesTyped
  <2> QED BY <1>1, <1>6, <2>1 DEF Taken, MessagesTyped
<1>9. AnswersBeforeHand'
  <2>1. ASSUME NEW i \in 1..Len(a')
        PROVE  a'[i].id = Taken' - 0 - (Len(a') - i)
    <3>1. CASE i \in 1..Len(a)
      <4>1. a[i].id = Taken - 1 - (Len(a) - i)
        BY <1>1, <3>1 DEF AnswersBeforeHand
      <4> QED BY <1>3, <1>8, <3>1, <4>1
    <3>2. CASE i \notin 1..Len(a)
      <4>1. i = Len(a) + 1
        BY <1>3, <2>1, <3>2
      <4>2. a'[i].id = Taken
        BY <1>1, <1>3, <4>1 DEF AnswersBeforeHand
      <4> QED BY <1>3, <1>8, <4>1, <4>2
    <3> QED BY <3>1, <3>2
  <2> QED BY <1>1, <2>1 DEF AnswersBeforeHand
<1>10. OwnUnderWay'
  <2>1. a' # << >>
    BY <1>3, EmptySeq
  <2> QED BY <1>1, <2>1 DEF OwnUnderWay
<1>11. LoginsVouched'
  <2>1. ASSUME NEW i \in 1..Len(a'), a'[i].shape = "user"
        PROVE  a'[i].who \in proved
    <3>1. CASE i \in 1..Len(a)
      BY <1>3, <2>1, <3>1 DEF LoginsVouched
    <3>2. CASE i \notin 1..Len(a)
      <4>1. i = Len(a) + 1
        BY <1>3, <2>1, <3>2
      <4>2. a'[i].shape = shape /\ a'[i].who = dbHand.who
        BY <1>3, <4>1
      <4>3. RightLogin(dbHand)
        BY <1>1, <1>2, <2>1, <4>2, UserIsOfRightLogin
      <4> QED BY <4>2, <4>3 DEF LoginsVouched
    <3> QED BY <3>1, <3>2
  <2>2. ~RightLogin(dbHand')
    BY <1>1, MessagesApart
  <2> QED BY <1>1, <2>1, <2>2 DEF LoginsVouched
<1> QED BY <1>4, <1>5, <1>7, <1>9, <1>10, <1>11
    DEF AnswersInOrder, QueueInOrder, AnswersBeforeHand, OwnUnderWay

-----------------------------------------------------------------------------
(* What a step may do to the sessions. *)

LEMMA SessionsKept ==
  ASSUME MessagesTyped, SessionsTyped, SessionsWereProved,
         UNCHANGED sessionVars, proved \subseteq proved',
         sent' \in Nat, sent <= sent'
  PROVE  (SessionsTyped /\ SessionsWereProved)'
<1>1. 1..sent \subseteq 1..sent' /\ 0..sent \subseteq 0..sent'
  BY DEF MessagesTyped
<1>2. SessionsTyped'
  BY <1>1 DEF SessionsTyped, sessionVars
<1>3. SessionsWereProved'
  BY DEF SessionsWereProved, sessionVars
<1> QED BY <1>2, <1>3

LEMMA SessionsErased ==
  ASSUME SessionsTyped, SessionsWereProved,
         NEW gone, sessions' = Without(gone),
         expired' \subseteq expired \ gone,
         cookie' \in [People -> 0..sent'],
         UNCHANGED <<sent, proved>>
  PROVE  (SessionsTyped /\ SessionsWereProved)'
<1>1. /\ DOMAIN sessions' = DOMAIN sessions \ gone
      /\ \A t \in DOMAIN sessions' : sessions'[t] = sessions[t]
  BY DEF Without
<1>2. SessionsTyped'
  BY <1>1 DEF SessionsTyped
<1>3. SessionsWereProved'
  BY <1>1 DEF SessionsWereProved
<1> QED BY <1>2, <1>3

LEMMA SessionsChecked ==
  ASSUME SessionsTyped, SessionsWereProved, NEW p, validateSession(p),
         UNCHANGED <<sent, proved>>
  PROVE  (SessionsTyped /\ SessionsWereProved)'
<1>1. expired' \subseteq expired \ ({cookie[p]} \intersect expired)
  BY DEF validateSession
<1>2. cookie' \in [People -> 0..sent']
  BY DEF validateSession, SessionsTyped
<1> QED BY <1>1, <1>2, SessionsErased DEF validateSession

LEMMA SessionsClosed ==
  ASSUME MessagesTyped, SessionsTyped, SessionsWereProved,
         NEW p \in People, handleLogout(p)
  PROVE  (SessionsTyped /\ SessionsWereProved)'
<1>1. sent \in Nat /\ 0 \in 0..sent
  BY WebServerAssumption DEF MessagesTyped
<1>2. cookie' \in [People -> 0..sent']
  BY <1>1 DEF handleLogout, SessionsTyped
<1> QED BY <1>2, SessionsErased DEF handleLogout

LEMMA SessionsCleaned ==
  ASSUME SessionsTyped, SessionsWereProved, cleanExpiredSessions
  PROVE  (SessionsTyped /\ SessionsWereProved)'
<1>1. cookie' \in [People -> 0..sent']
  BY DEF cleanExpiredSessions, SessionsTyped
<1> QED BY <1>1, SessionsErased DEF cleanExpiredSessions

LEMMA SessionsExpire ==
  ASSUME SessionsTyped, SessionsWereProved, NEW t, Expire(t)
  PROVE  (SessionsTyped /\ SessionsWereProved)'
BY DEF Expire, SessionsTyped, SessionsWereProved

(* The user of a new session is the one the answer to a login names, and    *)
(* its token is the number of the latest request.                           *)
LEMMA SessionsOpened ==
  ASSUME MessagesTyped, OwnUnderWay, LoginsVouched,
         SessionsTyped, SessionsWereProved, ReceiveLogin
  PROVE  (SessionsTyped /\ SessionsWereProved)'
<1>1. /\ current \in Request
      /\ current.id = sent
      /\ current.who \in People
      /\ current.id \in 1..sent
  <2>1. current \in Request /\ current.id = sent
    BY CurrentIsRequest DEF ReceiveLogin, TakeAnswer, OwnUnderWay
  <2> QED BY <2>1, MessagesApart
<1>2. Answered \in Answer /\ Answered.shape = "user" /\ Answered.who \in proved
  <2>1. /\ Answered = mqFromDatabase[1]
        /\ Answered \in Answer
        /\ Len(mqFromDatabase) \in Nat \ {0}
    BY TailElements DEF ReceiveLogin, TakeAnswer, Answered, MessagesTyped
  <2>2. Answered.shape = "user"
    BY DEF ReceiveLogin, LogsIn
  <2> QED BY <2>1, <2>2 DEF LoginsVouched
<1>3. Answered.who \in People
  BY <1>2 DEF Answer
<1>4. /\ sent' = sent
      /\ proved' = proved
      /\ expired' = expired
      /\ cookie' = [cookie EXCEPT ![current.who] = current.id]
      /\ DOMAIN sessions' = DOMAIN sessions \union {current.id}
      /\ \A t \in DOMAIN sessions' :
           sessions'[t] = IF t = current.id THEN Answered.who ELSE sessions[t]
  BY DEF ReceiveLogin, TakeAnswer
<1>5. SessionsTyped'
  <2>1. DOMAIN sessions' \subseteq 1..sent'
    BY <1>1, <1>4 DEF SessionsTyped
  <2>2. \A t \in DOMAIN sessions' : sessions'[t] \in People
    BY <1>3, <1>4 DEF SessionsTyped
  <2>3. expired' \subseteq DOMAIN sessions'
    BY <1>4 DEF SessionsTyped
  <2>4. cookie' \in [People -> 0..sent']
    <3>1. current.id \in 0..sent
      BY <1>1
    <3> QED BY <1>1, <1>4, <3>1 DEF SessionsTyped
  <2> QED BY <2>1, <2>2, <2>3, <2>4 DEF SessionsTyped
<1>6. SessionsWereProved'
  BY <1>2, <1>4 DEF SessionsWereProved
<1> QED BY <1>5, <1>6

-----------------------------------------------------------------------------
(* The invariant, action by action. *)

LEMMA InitWebServer ==
  ASSUME WebInit
  PROVE  WebServerInv
<1>1. FlagsTyped
  BY DEF WebInit, FlagsTyped
<1>2. MessagesTyped
  BY WebServerAssumption, EmptySeq DEF WebInit, MessagesTyped
<1>3. Len(mqToDatabase) = 0 /\ Len(mqFromDatabase) = 0
  BY DEF WebInit
<1>4. SendsNext /\ AnswersInOrder /\ LoginsVouched
  <2>1. SendsNext /\ OwnUnderWay
    BY DEF WebInit, SendsNext, OwnUnderWay
  <2>2. QueueInOrder
    BY <1>3 DEF QueueInOrder, Asked
  <2>3. AnswersBeforeHand
    BY <1>3 DEF WebInit, AnswersBeforeHand
  <2>4. LoginsVouched
    BY <1>3, MessagesApart DEF WebInit, LoginsVouched
  <2> QED BY <2>1, <2>2, <2>3, <2>4, OrderApart
<1>5. SessionsTyped /\ SessionsWereProved
  BY <1>2 DEF WebInit, SessionsTyped, SessionsWereProved, MessagesTyped
<1> QED BY <1>1, <1>2, <1>4, <1>5 DEF WebServerInv, MessagesInv, SessionsInv

LEMMA FlagsStep ==
  ASSUME FlagsTyped, MessagesTyped, WebNext
  PROVE  FlagsTyped' /\ proved \subseteq proved'
<1>1. CASE eventHandler
  BY <1>1 DEF eventHandler, Handle, handleLogout, FlagsTyped
<1>2. CASE Send
  <2>1. current.who \in People
    BY <1>2, CurrentIsRequest, MessagesApart DEF Send
  <2> QED BY <1>2, <2>1 DEF Send, FlagsTyped
<1>3. CASE ReceiveTimeout \/ ReceiveThrows \/ ReceiveLogin \/ ReceiveOther
  BY <1>3 DEF ReceiveTimeout, ReceiveThrows, ReceiveLogin, ReceiveOther,
              TakeAnswer, Finish, FlagsTyped
<1>4. CASE cleanExpiredSessions \/ \E t \in 1..MaxRequests : Expire(t)
  BY <1>4 DEF cleanExpiredSessions, Expire, FlagsTyped
<1>5. CASE dDatabase \/ CoreSend
  BY <1>5 DEF dDatabase, DbReceive, DbAnswer, CoreSend, FlagsTyped
<1>6. CASE Stop \/ EndRun
  BY <1>6 DEF Stop, EndRun, FlagsTyped
<1> QED BY <1>1, <1>2, <1>3, <1>4, <1>5, <1>6 DEF WebNext, Finishing

(* A page that is let through makes the next request. *)
LEMMA HandleIsQuiet ==
  ASSUME MessagesTyped, NEW p \in People, NEW kind \in Kinds,
         NEW right \in BOOLEAN, Handle(p, kind, right)
  PROVE  QuietStep
<1>1. sent + 1 \in 1..MaxRequests
  BY WebServerAssumption DEF Handle, MessagesTyped
<1>2. CASE Allowed(p, kind)
  BY <1>1, <1>2 DEF Handle, QuietStep, Request
<1>3. CASE ~Allowed(p, kind)
  BY <1>3 DEF Handle, QuietStep
<1> QED BY <1>2, <1>3

LEMMA MessagesStep ==
  ASSUME MessagesInv, WebNext
  PROVE  MessagesInv'
<1> USE DEF MessagesInv
<1>1. CASE QuietStep
  BY <1>1, MessagesQuiet
<1>2. ASSUME eventHandler
      PROVE  QuietStep
  <2>1. ASSUME NEW p \in People, handleLogout(p)
        PROVE  QuietStep
    BY <2>1 DEF handleLogout, QuietStep
  <2>2. "LOGIN" \in Kinds /\ FALSE \in BOOLEAN
    BY DEF Kinds, Open
  <2> QED BY <1>2, <2>1, <2>2, HandleIsQuiet DEF eventHandler
<1>3. CASE Send
  BY <1>3, MessagesSent
<1>4. ASSUME ReceiveTimeout
      PROVE  QuietStep
  BY <1>4 DEF ReceiveTimeout, Finish, QuietStep
<1>5. CASE ReceiveThrows \/ ReceiveLogin \/ ReceiveOther
  <2>1. TakeAnswer /\ at' \in {"idle", "down"} /\ current' \in {current, NoRequest}
    BY <1>5 DEF ReceiveThrows, ReceiveLogin, ReceiveOther, Finish
  <2> QED BY <2>1, MessagesTaken
<1>6. ASSUME cleanExpiredSessions \/ (\E t \in 1..MaxRequests : Expire(t))
               \/ Stop \/ EndRun
      PROVE  QuietStep
  BY <1>6 DEF cleanExpiredSessions, Expire, Stop, EndRun, QuietStep
<1>7. CASE dDatabase
  BY <1>7, MessagesReceived, MessagesAnswered DEF dDatabase
<1>8. CASE CoreSend
  BY <1>8, MessagesOfCore
<1> QED BY <1>1, <1>2, <1>3, <1>4, <1>5, <1>6, <1>7, <1>8 DEF WebNext, Finishing

LEMMA SessionsStep ==
  ASSUME MessagesInv, SessionsInv, WebNext, proved \subseteq proved'
  PROVE  SessionsInv'
<1> USE DEF MessagesInv, SessionsInv
<1>1. sent \in Nat
  BY WebServerAssumption DEF MessagesTyped
<1>2. CASE UNCHANGED <<sessionVars, sent>>
  BY <1>1, <1>2, SessionsKept
<1>3. ASSUME NEW p \in People, NEW kind \in Kinds, NEW right \in BOOLEAN,
             Handle(p, kind, right), ~UNCHANGED <<sessionVars, sent>>
      PROVE  SessionsInv'
  <2>1. validateSession(p) /\ UNCHANGED <<sent, proved>>
    BY <1>3 DEF Handle
  <2> QED BY <2>1, SessionsChecked
<1>4. CASE eventHandler
  <2>1. "LOGIN" \in Kinds /\ FALSE \in BOOLEAN
    BY DEF Kinds, Open
  <2> QED BY <1>2, <1>3, <1>4, <2>1, SessionsClosed DEF eventHandler
<1>5. CASE Send
  <2>1. sent' \in Nat /\ sent <= sent' /\ UNCHANGED sessionVars
    <3>1. current.id = sent + 1
      BY <1>5 DEF Send, SendsNext
    <3> QED BY <1>1, <1>5, <3>1 DEF Send
  <2> QED BY <2>1, SessionsKept
<1>6. CASE ReceiveTimeout \/ ReceiveThrows \/ ReceiveOther
  BY <1>2, <1>6 DEF ReceiveTimeout, ReceiveThrows, ReceiveOther, TakeAnswer
<1>7. CASE ReceiveLogin
  BY <1>7, OrderApart, SessionsOpened
<1>8. CASE cleanExpiredSessions
  BY <1>8, SessionsCleaned
<1>9. CASE \E t \in 1..MaxRequests : Expire(t)
  BY <1>9, SessionsExpire
<1>10. CASE dDatabase \/ CoreSend \/ Stop \/ EndRun
  BY <1>2, <1>10 DEF dDatabase, DbReceive, DbAnswer, CoreSend, Stop, EndRun
<1> QED BY <1>4, <1>5, <1>6, <1>7, <1>8, <1>9, <1>10 DEF WebNext, Finishing

THEOREM WebServerInvariant == WebSpec => []WebServerInv
<1>1. WebInit => WebServerInv
  BY InitWebServer
<1>2. WebServerInv /\ [WebNext]_webVars => WebServerInv'
  <2>1. CASE WebNext
    BY <2>1, FlagsStep, MessagesStep, SessionsStep DEF WebServerInv, MessagesInv
  <2>2. CASE UNCHANGED webVars
    <3>1. QuietStep
      BY <2>2 DEF webVars, QuietStep
    <3>2. WebServerInv => MessagesInv'
      BY <3>1, MessagesQuiet DEF WebServerInv, MessagesInv
    <3>3. WebServerInv => FlagsTyped' /\ SessionsInv'
      BY <2>2 DEF WebServerInv, webVars, sessionVars, FlagsTyped, SessionsInv,
                  SessionsTyped, SessionsWereProved
    <3> QED BY <3>2, <3>3 DEF WebServerInv
  <2> QED BY <2>1, <2>2
<1> QED BY <1>1, <1>2, PTL DEF WebSpec

(* Every variable of the web server has its type. *)
THEOREM WebServerTypeCorrect == WebSpec => []WebServerTypeOK
<1>1. WebServerInv => WebServerTypeOK
  BY TypesApart DEF WebServerInv, MessagesInv, SessionsInv
<1> QED BY <1>1, WebServerInvariant, PTL

(* Every request is answered once and in order, and the one a handler waits *)
(* for is still under way.                                                  *)
THEOREM EveryRequestIsAnsweredInOrder == WebSpec => []AnswersInOrder
<1>1. WebServerInv => AnswersInOrder
  BY DEF WebServerInv, MessagesInv
<1> QED BY <1>1, WebServerInvariant, PTL

(* A session is only ever that of somebody who sent the right password.     *)
THEOREM SessionsAreProved == WebSpec => []SessionsWereProved
<1>1. WebServerInv => SessionsWereProved
  BY DEF WebServerInv, SessionsInv
<1> QED BY <1>1, WebServerInvariant, PTL

-----------------------------------------------------------------------------
(* How far behind the answers are.  What is under way grows by one when a   *)
(* request is sent and shrinks by one when an answer is taken; both are     *)
(* evened out by the handler that begins or ends to wait.                   *)

UnderWay == AskedAfter(0) + (IF dbHand = NoRequest THEN 0 ELSE 1) + Len(mqFromDatabase)

Waits == IF at = "receive" THEN 1 ELSE 0

LEMMA LagIsUnderWay ==
  ASSUME MessagesTyped
  PROVE  /\ AskedAfter(0) \in Nat /\ Len(mqFromDatabase) \in Nat
         /\ UnderWay \in Nat /\ Lag = UnderWay - Waits /\ Lag \in Int
<1>1. AskedAfter(0) \in Nat
  BY AskedIsPlaces, PlacesFinite DEF MessagesTyped
<1>2. Len(mqFromDatabase) \in Nat
  BY LenProperties DEF MessagesTyped
<1>3. UnderWay \in Nat
  BY <1>1, <1>2 DEF UnderWay
<1>4. Lag = UnderWay - Waits
  BY <1>1, <1>2 DEF Lag, UnderWay, Waits
<1> QED BY <1>1, <1>2, <1>3, <1>4 DEF Waits

LEMMA UnderWayKept ==
  ASSUME UNCHANGED queues
  PROVE  UnderWay' = UnderWay
BY DEF queues, UnderWay, AskedAfter, Asked

LEMMA UnderWayPosted ==
  ASSUME MessagesTyped, NEW m \in Request \union {CoreMsg}, PostDb(m),
         UNCHANGED <<dbHand, mqFromDatabase>>
  PROVE  UnderWay' = UnderWay + (IF m = CoreMsg THEN 0 ELSE 1)
<1>1. /\ mqToDatabase \in Seq(Request \union {CoreMsg})
      /\ mqToDatabase' = Append(mqToDatabase, m)
      /\ 0 \in 0..Len(mqToDatabase)
  BY LenProperties DEF PostDb, MessagesTyped
<1>2. Behind(mqToDatabase', 0) = AskedAfter(0) + (IF m = CoreMsg THEN 0 ELSE 1)
  BY <1>1, BehindAppended, AskedIsPlaces
<1>3. AskedAfter(0)' = AskedAfter(0) + (IF m = CoreMsg THEN 0 ELSE 1)
  BY <1>2, AskedIsPlacesNext
<1> QED BY <1>3, LagIsUnderWay DEF UnderWay

LEMMA UnderWayReceived ==
  ASSUME MessagesTyped, DbReceive
  PROVE  UnderWay' = UnderWay
<1>1. /\ mqToDatabase \in Seq(Request \union {CoreMsg})
      /\ mqToDatabase # << >> /\ mqToDatabase' = Tail(mqToDatabase)
      /\ dbHand = NoRequest
      /\ dbHand' = IF Head(mqToDatabase) = CoreMsg THEN NoRequest ELSE Head(mqToDatabase)
      /\ UNCHANGED mqFromDatabase
  BY DEF DbReceive, MessagesTyped
<1>2. AskedAfter(0)' = AskedAfter(1) /\ AskedAfter(1) \in Nat
  <2>1. Behind(mqToDatabase', 0) = Behind(mqToDatabase, 0 + 1)
    BY <1>1, BehindTaken
  <2> QED BY <1>1, <2>1, PlacesFinite, AskedIsPlaces, AskedIsPlacesNext
<1>3. AskedAfter(0) = AskedAfter(1)
                        + (IF Head(mqToDatabase) = CoreMsg THEN 0 ELSE 1)
  BY <1>1, BehindFirst, AskedIsPlaces
<1>4. (IF dbHand' = NoRequest THEN 0 ELSE 1)
        = (IF Head(mqToDatabase) = CoreMsg THEN 0 ELSE 1)
  BY <1>1, TailElements, MessagesApart
<1>5. UnderWay' = AskedAfter(0)' + (IF dbHand' = NoRequest THEN 0 ELSE 1)
                    + Len(mqFromDatabase)
  BY <1>1 DEF UnderWay
<1>6. UnderWay = AskedAfter(0) + 0 + Len(mqFromDatabase)
  BY <1>1 DEF UnderWay
<1> QED BY <1>2, <1>3, <1>4, <1>5, <1>6, LagIsUnderWay

LEMMA UnderWayAnswered ==
  ASSUME MessagesTyped, NEW shape \in Shapes, DbAnswer(shape)
  PROVE  UnderWay' = UnderWay
<1>1. /\ dbHand # NoRequest /\ dbHand' = NoRequest
      /\ UNCHANGED mqToDatabase
      /\ mqFromDatabase' = Append(mqFromDatabase,
            [id |-> dbHand.id, shape |-> shape, who |-> dbHand.who])
  BY DEF DbAnswer
<1>2. [id |-> dbHand.id, shape |-> shape, who |-> dbHand.who] \in Answer
  BY <1>1, MessagesApart DEF MessagesTyped, Answer
<1>3. Len(mqFromDatabase') = Len(mqFromDatabase) + 1
  BY <1>1, <1>2, AppendElements DEF MessagesTyped
<1>4. AskedAfter(0)' = AskedAfter(0)
  BY <1>1 DEF AskedAfter, Asked
<1> QED BY <1>1, <1>3, <1>4, LagIsUnderWay DEF UnderWay

LEMMA UnderWayTaken ==
  ASSUME MessagesTyped, TakeAnswer
  PROVE  UnderWay' = UnderWay - 1
<1>1. Len(mqFromDatabase') = Len(mqFromDatabase) - 1
  BY TailElements DEF TakeAnswer, MessagesTyped
<1>2. AskedAfter(0)' = AskedAfter(0) /\ dbHand' = dbHand
  BY DEF TakeAnswer, AskedAfter, Asked
<1> QED BY <1>1, <1>2, LagIsUnderWay DEF UnderWay

(* The answer a handler takes is the oldest that is under way, and its own  *)
(* request the latest.                                                      *)
LEMMA AnswerIsOldest ==
  ASSUME MessagesTyped, AnswersInOrder, TakeAnswer
  PROVE  Answered.id = current.id - Lag
<1>1. /\ at = "receive" /\ current.id = sent /\ sent \in Nat
      /\ mqFromDatabase \in Seq(Answer) /\ mqFromDatabase # << >>
  BY OrderApart, WebServerAssumption DEF TakeAnswer, OwnUnderWay, MessagesTyped
<1>2. Len(mqFromDatabase) \in Nat \ {0} /\ Answered = mqFromDatabase[1]
  BY <1>1, TailElements DEF Answered
<1>3. mqFromDatabase[1].id = Taken - (IF dbHand = NoRequest THEN 0 ELSE 1)
                               - (Len(mqFromDatabase) - 1)
  BY <1>2, OrderApart DEF AnswersBeforeHand
<1> QED BY <1>1, <1>2, <1>3, LagIsUnderWay DEF Taken, UnderWay, Waits

LEMMA LagStep ==
  ASSUME MessagesInv, MessagesInv', [WebNext]_webVars
  PROVE  Lag' = Lag \/ (ReceiveTimeout /\ Lag' = Lag + 1)
<1>1. /\ MessagesTyped /\ UnderWay \in Nat /\ Lag = UnderWay - Waits
      /\ Lag' = UnderWay' - Waits' /\ Lag \in Int
  <2>1. (Lag = UnderWay - Waits)'
    BY LagIsUnderWay, PTL DEF MessagesInv
  <2> QED BY <2>1, LagIsUnderWay DEF MessagesInv
<1>2. CASE UNCHANGED queues /\ Waits' = Waits
  BY <1>1, <1>2, UnderWayKept
<1>3. ASSUME eventHandler \/ cleanExpiredSessions
               \/ (\E t \in 1..MaxRequests : Expire(t)) \/ Stop \/ EndRun
               \/ UNCHANGED webVars
      PROVE  UNCHANGED queues /\ Waits' = Waits
  BY <1>3 DEF eventHandler, Handle, handleLogout, cleanExpiredSessions, Expire,
              Stop, EndRun, webVars, queues, Waits
<1>4. CASE Send
  <2>1. current \in Request /\ current # CoreMsg
    BY <1>1, <1>4, CurrentIsRequest, MessagesApart DEF Send
  <2>2. UnderWay' = UnderWay + 1
    BY <1>1, <1>4, <2>1, UnderWayPosted DEF Send
  <2>3. Waits = 0 /\ Waits' = 1
    BY <1>4 DEF Send, Waits
  <2> QED BY <1>1, <2>2, <2>3
<1>5. CASE ReceiveTimeout
  <2>1. UnderWay' = UnderWay
    BY <1>5, UnderWayKept DEF ReceiveTimeout
  <2>2. Waits = 1 /\ Waits' = 0
    BY <1>5 DEF ReceiveTimeout, Finish, Waits
  <2> QED BY <1>1, <1>5, <2>1, <2>2
<1>6. CASE ReceiveThrows \/ ReceiveLogin \/ ReceiveOther
  <2>1. TakeAnswer /\ at' \in {"idle", "down"}
    BY <1>6 DEF ReceiveThrows, ReceiveLogin, ReceiveOther, Finish
  <2>2. UnderWay' = UnderWay - 1
    BY <1>1, <2>1, UnderWayTaken
  <2>3. Waits = 1 /\ Waits' = 0
    BY <2>1 DEF TakeAnswer, Waits
  <2> QED BY <1>1, <2>2, <2>3
<1>7. CASE dDatabase \/ CoreSend
  <2>1. UnderWay' = UnderWay
    <3>1. CASE CoreSend
      BY <1>1, <3>1, UnderWayPosted DEF CoreSend
    <3> QED BY <1>1, <1>7, <3>1, UnderWayReceived, UnderWayAnswered DEF dDatabase
  <2>2. Waits' = Waits
    BY <1>7 DEF dDatabase, DbReceive, DbAnswer, CoreSend, Waits
  <2> QED BY <1>1, <2>1, <2>2
<1> QED BY <1>2, <1>3, <1>4, <1>5, <1>6, <1>7 DEF WebNext, Finishing

(* What is late stays late: every page is made from the answer to the       *)
(* request Lag before its own, and nothing makes Lag smaller.               *)
THEOREM LateStaysLate == WebSpec => LateForGood
<1>1. WebServerInv /\ WebServerInv' /\ [WebNext]_webVars
        => /\ Lag' = Lag \/ (ReceiveTimeout /\ Lag' = Lag + 1)
           /\ TakeAnswer => Answered.id = current.id - Lag
  BY LagStep, AnswerIsOldest DEF WebServerInv, MessagesInv
<1> QED BY <1>1, WebServerInvariant, PTL DEF WebSpec, LateForGood

(* The two daemons wait for one another only once more answers were late    *)
(* than mq_db_to_web has places: eleven waits that were given up.           *)
THEOREM WaitingNeedsLateAnswers == WebSpec => [](WaitForOneAnother => Lag > WebCap)
<1>1. WebServerInv => (WaitForOneAnother => Lag > WebCap)
  <2> SUFFICES ASSUME WebServerInv, WaitForOneAnother PROVE Lag > WebCap
    OBVIOUS
  <2>1. MessagesTyped
    BY DEF WebServerInv, MessagesInv
  <2>2. Waits = 0 /\ UnderWay = AskedAfter(0) + 1 + WebCap
    BY DEF WaitForOneAnother, Waits, UnderWay
  <2>3. WebCap \in Nat
    BY WebServerAssumption
  <2> QED BY <2>1, <2>2, <2>3, LagIsUnderWay
<1> QED BY <1>1, WebServerInvariant, PTL
=============================================================================
