-------------------------- MODULE RoomAccessProofs --------------------------
(***************************************************************************)
(* Proofs about RoomAccess: it implements Actuation, every reply a thread  *)
(* takes answers its own last question, only registered cards get through, *)
(* a free door is held by somebody, and the whole implements AccessControl; *)
(* for every set of cards, every choice of the three threads and all queue *)
(* capacities.                                                             *)
(***************************************************************************)
EXTENDS RoomAccess, ActuationProofs

-----------------------------------------------------------------------------
(* RoomAccess implements Actuation. *)

LEMMA MsgTypes ==
  /\ \A t \in Threads, c \in Cards \union {NoCard} :
       /\ Request(t, c) \in RequestMsgs
       /\ Request(t, c) \in OtherMsgs
       /\ Request(t, c).thread = t
       /\ Request(t, c).rfid = c
  /\ AccessLog \in OtherMsgs \ RequestMsgs
  /\ AlertLog \in OtherMsgs \ RequestMsgs
  /\ ActuatorLogs \intersect RequestMsgs = {}
  /\ FreeRoom \in Requests
  /\ LockRoom \in Requests
  /\ AlarmOn \in Requests
BY RoomAssumption, ActuationAssumption
   DEF Request, RequestMsgs, RoomMsgs, AccessLog, AlertLog, RoomRequests,
       ActuatorLogs

(* Every step is one of these; t is a thread of the instance. *)
LEMMA Steps ==
  ASSUME [RoomNext]_roomVars
  PROVE  \/ \E t \in Threads :
              \/ Loop(t) \/ WaitTimeout(t) \/ Ask(t) \/ AwaitStop(t)
              \/ Door(t) \/ RaiseAlarm(t) \/ LogAlert(t)
              \/ \E c \in Cards \union {NoCard} : Sense(t, c)
         \/ "entry" \in Threads /\ (EntryGranted \/ EntryDenied)
         \/ "exit" \in Threads /\ ExitReply
         \/ "pir" \in Threads /\ PirReply
         \/ DbProcess \/ DbReply
         \/ DoorCloses \/ ReedSignal
         \/ Stop \/ ActStep \/ DestroyInstance
         \/ UNCHANGED roomVars
BY DEF RoomNext, Environment, System, CardThreads, C_tVerifyRoomAccess,
       C_tLeaveRoomAccess, C_tCheckMovement, Common

LEMMA StepImplements ==
  ASSUME RoomTypeOK, [RoomNext]_roomVars
  PROVE  [Next]_vars
<1>1. ASSUME NEW t \in Threads,
             Loop(t) \/ WaitTimeout(t) \/ AwaitStop(t) \/ DoorLoop(t)
               \/ DoorTimeout(t) \/ Closed(t)
      PROVE  UNCHANGED vars
  BY <1>1 DEF Loop, WaitTimeout, AwaitStop, DoorLoop, DoorTimeout, Closed, Move
<1>2. ASSUME NEW t \in Threads, Ask(t) PROVE Next
  <2>1. Request(t, card[t]) \in OtherMsgs
    BY MsgTypes DEF RoomTypeOK
  <2> QED BY <1>2, <2>1 DEF Ask, Next
<1>3. ASSUME NEW t \in Threads,
             Unlock(t) \/ Lock(t) \/ RaiseAlarm(t)
      PROVE  Next
  BY <1>3, MsgTypes DEF Unlock, Lock, RaiseAlarm, Next
<1>4. ASSUME NEW t \in Threads, LogAccess(t) \/ LogAlert(t) PROVE Next
  BY <1>4, MsgTypes DEF LogAccess, LogAlert, Next
<1>5. ASSUME NEW t \in Threads, NEW c, Sense(t, c) PROVE UNCHANGED vars
  BY <1>5 DEF Sense
<1>6. ASSUME EntryGranted \/ EntryDenied \/ ExitReply \/ PirReply
      PROVE  UNCHANGED vars
  BY <1>6 DEF EntryGranted, EntryDenied, ExitReply, PirReply, TakeReply
<1>7. DbProcess => Next
  BY DEF DbProcess, Next
<1>8. DbReply \/ DoorCloses \/ ReedSignal => UNCHANGED vars
  BY DEF DbReply, DoorCloses, ReedSignal
<1>9. Stop \/ ActStep \/ DestroyInstance => Next
  BY DEF Stop, ActStep, DestroyInstance, Next
<1>10. UNCHANGED roomVars => UNCHANGED vars
  BY DEF roomVars
<1> QED
  BY <1>1, <1>2, <1>3, <1>4, <1>5, <1>6, <1>7, <1>8, <1>9, <1>10, Steps
     DEF Door

-----------------------------------------------------------------------------
(* The type invariant. *)

LEMMA RoomInitTyped == RoomInit => RoomTypeOK /\ HandOK
<1> SUFFICES ASSUME RoomInit PROVE RoomTypeOK /\ HandOK
  OBVIOUS
<1>1. TypeOK /\ HandOK
  BY InitTyped DEF RoomInit
<1>2. << >> \in Seq(Replies)
  BY EmptySeq
<1>3. at \in [Threads -> Places] /\ card \in [Threads -> Cards \union {NoCard}]
  BY DEF RoomInit, Places
<1>4. failedAttempts \in 0..(MaxAttempts - 1) /\ reedSignals \in 0..MaxReed
  BY RoomAssumption DEF RoomInit
<1>5. replies \in [Threads -> Seq(Replies)]
  BY <1>2 DEF RoomInit
<1> QED BY <1>1, <1>3, <1>4, <1>5 DEF RoomTypeOK, RoomInit

LEMMA TakeReplyTyped ==
  ASSUME RoomTypeOK, NEW t \in Threads, NEW place \in Places,
         TakeReply(t, place)
  PROVE  /\ at' \in [Threads -> Places]
         /\ card' \in [Threads -> Cards \union {NoCard}]
         /\ replies' \in [Threads -> Seq(Replies)]
         /\ db' = db /\ isInside' = isInside /\ reedSignals' = reedSignals
<1>1. Tail(replies[t]) \in Seq(Replies)
  BY TailElements DEF RoomTypeOK, TakeReply
<1> QED BY <1>1 DEF RoomTypeOK, TakeReply, Go

LEMMA ReplyFields ==
  ASSUME NEW t \in Threads, NEW ok \in BOOLEAN, NEW c \in Cards \union {NoCard}
  PROVE  /\ Reply(t, ok, c) \in Replies
         /\ Reply(t, ok, c).thread = t
         /\ Reply(t, ok, c).authorized = ok
         /\ Reply(t, ok, c).user = c
BY DEF Reply, Replies

LEMMA DbTyped ==
  ASSUME RoomTypeOK, DbProcess
  PROVE  db' \in Replies \union {NoReply} /\ isInside' \subseteq Registered
<1> DEFINE m == Head(mqToDatabase)
<1>1. CASE m \notin RequestMsgs
  BY <1>1 DEF DbProcess, processDbMessage, RoomTypeOK
<1>2. CASE m \in RequestMsgs /\ m.thread = "pir"
  <2>1. "pir" \in Threads
    BY <1>2 DEF RequestMsgs
  <2>2. Reply("pir", isInside # {}, NoCard) \in Replies
    BY <2>1, ReplyFields
  <2> QED BY <1>2, <2>2 DEF DbProcess, processDbMessage, handleCheckUserInPir,
             RoomTypeOK
<1>3. CASE m \in RequestMsgs /\ m.thread # "pir"
  <2>1. handleAccessRequest(m)
    BY <1>3 DEF DbProcess, processDbMessage
  <2>2. m.thread \in Threads
    BY <1>3 DEF RequestMsgs
  <2>3. Reply(m.thread, FALSE, NoCard) \in Replies
    BY <2>2, ReplyFields
  <2>4. CASE m.rfid \in Registered
    <3>1. Reply(m.thread, TRUE, m.rfid) \in Replies
      BY <2>2, <2>4, ReplyFields, RoomAssumption
    <3> QED BY <2>1, <2>4, <3>1 DEF handleAccessRequest, RoomTypeOK
  <2>5. CASE m.rfid \notin Registered
    BY <2>1, <2>3, <2>5 DEF handleAccessRequest, RoomTypeOK
  <2> QED BY <2>4, <2>5
<1> QED BY <1>1, <1>2, <1>3

LEMMA RoomNextTyped ==
  ASSUME RoomTypeOK, HandOK, [RoomNext]_roomVars
  PROVE  RoomTypeOK' /\ HandOK'
<1>1. TypeOK' /\ HandOK'
  BY StepImplements, NextTyped DEF RoomTypeOK
<1> SUFFICES /\ at' \in [Threads -> Places]
             /\ card' \in [Threads -> Cards \union {NoCard}]
             /\ failedAttempts' \in 0..(MaxAttempts - 1)
             /\ replies' \in [Threads -> Seq(Replies)]
             /\ db' \in Replies \union {NoReply}
             /\ isInside' \subseteq Registered
             /\ reedSignals' \in 0..MaxReed
  BY <1>1 DEF RoomTypeOK
<1> USE DEF RoomTypeOK
<1>2. ASSUME NEW t \in Threads,
             Loop(t) \/ WaitTimeout(t) \/ AwaitStop(t) \/ DoorLoop(t)
               \/ DoorTimeout(t) \/ Closed(t)
      PROVE  at' \in [Threads -> Places]
             /\ UNCHANGED <<card, failedAttempts, replies, db, isInside,
                            reedSignals>>
  BY <1>2 DEF Loop, WaitTimeout, AwaitStop, DoorLoop, DoorTimeout, Closed,
              Move, Go, Places
<1>3. ASSUME NEW t \in Threads,
             Ask(t) \/ Unlock(t) \/ LogAccess(t) \/ Lock(t) \/ RaiseAlarm(t)
               \/ LogAlert(t)
      PROVE  at' \in [Threads -> Places]
             /\ UNCHANGED <<card, failedAttempts, replies, db, isInside,
                            reedSignals>>
  BY <1>3 DEF Ask, Unlock, LogAccess, Lock, RaiseAlarm, LogAlert, Go, Places
<1>4. ASSUME NEW t \in Threads, NEW c \in Cards \union {NoCard}, Sense(t, c)
      PROVE  /\ at' \in [Threads -> Places]
             /\ card' \in [Threads -> Cards \union {NoCard}]
             /\ UNCHANGED <<failedAttempts, replies, db, isInside, reedSignals>>
  BY <1>4 DEF Sense, Go, Places
<1>5. CASE "entry" \in Threads /\ EntryGranted
  <2>1. failedAttempts' \in 0..(MaxAttempts - 1)
    BY <1>5, RoomAssumption DEF EntryGranted
  <2> QED BY <1>5, <2>1, TakeReplyTyped DEF EntryGranted, Places
<1>6. CASE "entry" \in Threads /\ EntryDenied
  <2>1. failedAttempts' \in 0..(MaxAttempts - 1)
    BY <1>6, RoomAssumption DEF EntryDenied, LastAttempt
  <2>2. (IF LastAttempt THEN "alarm" ELSE "loop") \in Places
    BY DEF Places
  <2> QED BY <1>6, <2>1, <2>2, TakeReplyTyped DEF EntryDenied
<1>7. CASE "exit" \in Threads /\ ExitReply
  <2>1. (IF Authorized("exit") THEN "unlock" ELSE "loop") \in Places
    BY DEF Places
  <2> QED BY <1>7, <2>1, TakeReplyTyped DEF ExitReply
<1>8. CASE "pir" \in Threads /\ PirReply
  <2>1. (IF Authorized("pir") THEN "loop" ELSE "alarm") \in Places
    BY DEF Places
  <2> QED BY <1>8, <2>1, TakeReplyTyped DEF PirReply
<1>9. CASE DbProcess
  BY <1>9, DbTyped DEF DbProcess
<1>10. CASE DbReply
  <2>1. db \in Replies /\ db.thread \in Threads
    BY <1>10 DEF DbReply, Replies
  <2>2. Append(replies[db.thread], db) \in Seq(Replies)
    BY <2>1, AppendElements
  <2>3. replies' \in [Threads -> Seq(Replies)]
    BY <1>10, <2>1, <2>2 DEF DbReply
  <2> QED BY <1>10, <2>3 DEF DbReply
<1>11. CASE DoorCloses
  <2>1. reedSignals' \in 0..MaxReed
    BY <1>11, RoomAssumption DEF DoorCloses
  <2> QED BY <1>11, <2>1 DEF DoorCloses
<1>12. CASE ReedSignal
  <2>1. reedSignals' \in 0..MaxReed
    BY <1>12, RoomAssumption DEF ReedSignal
  <2>2. at' \in [Threads -> Places]
    BY <1>12 DEF ReedSignal, Places
  <2> QED BY <1>12, <2>1, <2>2 DEF ReedSignal
<1>13. CASE Stop \/ ActStep \/ DestroyInstance \/ UNCHANGED roomVars
  BY <1>13 DEF Stop, ActStep, DestroyInstance, roomVars, threadVars
<1> QED
  BY <1>2, <1>3, <1>4, <1>5, <1>6, <1>7, <1>8, <1>9, <1>10, <1>11, <1>12,
     <1>13, Steps DEF Door

(* Every reachable state of the room is well typed. *)
THEOREM RoomTypeCorrect == RoomSpec => [](RoomTypeOK /\ HandOK)
<1>1. RoomTypeOK /\ HandOK /\ [RoomNext]_roomVars => RoomTypeOK' /\ HandOK'
  BY RoomNextTyped
<1> QED BY RoomInitTyped, <1>1, PTL DEF RoomSpec

(* The threads, the daemon and tAct together do only what Actuation allows *)
(* its open environment, so what holds of Actuation holds of them.         *)
THEOREM RoomImplementsActuation == RoomSpec => ImplementsActuation
<1>1. RoomInit => Init
  BY DEF RoomInit
<1>2. RoomTypeOK /\ [RoomNext]_roomVars => [Next]_vars
  BY StepImplements
<1> QED BY <1>1, <1>2, RoomTypeCorrect, PTL DEF RoomSpec, Spec, ImplementsActuation

(* With the real threads, too, a sounding alarm is always guarded and the  *)
(* Actuators table follows the hardware.                                   *)
THEOREM RoomAlarmAndTable ==
  RoomSpec => []AlarmGuarded /\ []TableFollowsHardware
BY RoomImplementsActuation, AlarmIsGuarded, TableIsTrue, PTL
   DEF ImplementsActuation

-----------------------------------------------------------------------------
(* Every reply a thread takes answers its own last question. *)

(* A step that leaves the exchange of u alone. *)
LEMMA QuietStep ==
  ASSUME NEW u \in Threads, Exchange(u),
         Asked(u)' = Asked(u),
         \A i \in Asked(u) : mqToDatabase'[i] = mqToDatabase[i],
         db' = db, replies'[u] = replies[u],
         \/ at'[u] = at[u] /\ card'[u] = card[u]
         \/ at[u] \notin {"await", "done"} /\ at'[u] # "await"
         \/ at[u] = "await" /\ at'[u] = "done" /\ card'[u] = card[u]
  PROVE  Exchange(u)'
<1>1. CASE at'[u] = at[u] /\ card'[u] = card[u]
  BY <1>1 DEF Exchange, Answering, Answers
<1>2. CASE at[u] \notin {"await", "done"} /\ at'[u] # "await"
  BY <1>2 DEF Exchange, Answering, Answers
<1>3. CASE at[u] = "await" /\ at'[u] = "done" /\ card'[u] = card[u]
  BY <1>3 DEF Exchange, Answering, Answers
<1> QED BY <1>1, <1>2, <1>3

(* A message that is no request of u leaves its requests as they are. *)
LEMMA AskedAfterPost ==
  ASSUME RoomTypeOK, NEW u \in Threads,
         NEW m \in ActuatorLogs \union OtherMsgs, PostDb(m),
         m \notin RequestMsgs \/ m.thread # u
  PROVE  /\ Asked(u)' = Asked(u)
         /\ \A i \in Asked(u) : mqToDatabase'[i] = mqToDatabase[i]
<1>1. /\ Len(mqToDatabase) \in Nat
      /\ Len(mqToDatabase') = Len(mqToDatabase) + 1
      /\ \A i \in 1..Len(mqToDatabase) : mqToDatabase'[i] = mqToDatabase[i]
      /\ mqToDatabase'[Len(mqToDatabase) + 1] = m
  BY AppendElements, LenProperties DEF PostDb, RoomTypeOK, TypeOK
<1> QED BY <1>1 DEF Asked

LEMMA AskedAfterNoPost ==
  ASSUME UNCHANGED mqToDatabase, NEW u
  PROVE  /\ Asked(u)' = Asked(u)
         /\ \A i \in Asked(u) : mqToDatabase'[i] = mqToDatabase[i]
BY DEF Asked

LEMMA AskStep ==
  ASSUME RoomTypeOK, NEW t \in Threads, Ask(t), NEW u \in Threads, Exchange(u)
  PROVE  Exchange(u)'
<1> DEFINE m == Request(t, card[t])
<1>1. m \in RequestMsgs /\ m \in OtherMsgs /\ m.thread = t /\ m.rfid = card[t]
  BY MsgTypes DEF RoomTypeOK
<1>2. /\ PostDb(m)
      /\ at[t] = "ask"
      /\ at' = [at EXCEPT ![t] = "await"]
      /\ UNCHANGED <<card, replies, db>>
  BY DEF Ask, SendOther, Go
<1>3. CASE u # t
  <2>1. at'[u] = at[u] /\ card'[u] = card[u]
    BY <1>2, <1>3 DEF RoomTypeOK
  <2> QED BY <1>1, <1>2, <1>3, <2>1, QuietStep, AskedAfterPost
<1>4. CASE u = t
  <2>1. /\ Len(mqToDatabase) \in Nat
        /\ Len(mqToDatabase') = Len(mqToDatabase) + 1
        /\ \A i \in 1..Len(mqToDatabase) : mqToDatabase'[i] = mqToDatabase[i]
        /\ mqToDatabase'[Len(mqToDatabase) + 1] = m
    BY <1>1, <1>2, AppendElements, LenProperties
       DEF PostDb, RoomTypeOK, TypeOK
  <2>2. Asked(u) = {} /\ ~Answering(u) /\ replies[u] = << >>
    BY <1>2, <1>4 DEF Exchange
  <2>3. Asked(u)' = {Len(mqToDatabase) + 1}
    BY <1>1, <1>4, <2>1, <2>2 DEF Asked
  <2>4. at'[u] = "await" /\ card'[u] = card[u] /\ ~Answering(u)'
        /\ replies'[u] = << >>
    BY <1>2, <1>4, <2>2 DEF RoomTypeOK, Answering
  <2>5. \A i \in Asked(u)' : mqToDatabase'[i].rfid = card'[u]
    BY <1>1, <1>4, <2>1, <2>3, <2>4
  <2>6. Len(replies'[u]) <= 1
    BY <2>4, EmptySeq
  <2> QED BY <2>3, <2>4, <2>5, <2>6 DEF Exchange
<1> QED BY <1>3, <1>4

(* A sequence of at most one element that is not empty has one. *)
LEMMA OneElement ==
  ASSUME NEW S, NEW s \in Seq(S), s # << >>, Len(s) <= 1
  PROVE  Head(s) = s[1] /\ Tail(s) = << >>
<1>1. Len(s) \in Nat \ {0} /\ Tail(s) \in Seq(S) /\ Len(Tail(s)) = Len(s) - 1
      /\ Head(s) = s[1]
  BY TailElements
<1>2. Len(s) = 1
  BY <1>1
<1>3. Len(Tail(s)) = 0
  BY <1>1, <1>2
<1> QED BY <1>1, <1>3, EmptySeq

LEMMA TakeReplyStep ==
  ASSUME RoomTypeOK, NEW t \in Threads, NEW place \in Places \ {"await"},
         TakeReply(t, place), NEW u \in Threads, Exchange(u)
  PROVE  Exchange(u)'
<1>1. /\ at[t] = "await" /\ replies[t] # << >>
      /\ at' = [at EXCEPT ![t] = place]
      /\ replies' = [replies EXCEPT ![t] = Tail(replies[t])]
      /\ UNCHANGED <<mqToDatabase, card, db>>
  BY DEF TakeReply, Go, vars
<1>2. CASE u # t
  <2>1. at'[u] = at[u] /\ card'[u] = card[u] /\ replies'[u] = replies[u]
    BY <1>1, <1>2 DEF RoomTypeOK
  <2> QED BY <1>1, <2>1, QuietStep, AskedAfterNoPost
<1>3. CASE u = t
  <2>1. Tail(replies[t]) = << >>
    <3>1. replies[t] \in Seq(Replies)
      BY DEF RoomTypeOK
    <3>2. Len(replies[t]) <= 1
      BY <1>3 DEF Exchange
    <3> QED BY <1>1, <3>1, <3>2, OneElement
  <2>2. replies'[u] = << >>
    BY <1>1, <1>3, <2>1 DEF RoomTypeOK
  <2>3. Asked(u)' = {} /\ ~Answering(u)'
    BY <1>1, <1>3, AskedAfterNoPost DEF Exchange, Answering
  <2>4. at'[u] # "await"
    BY <1>1, <1>3 DEF RoomTypeOK
  <2>5. Len(replies'[u]) <= 1
    BY <2>2, EmptySeq
  <2> QED BY <2>2, <2>3, <2>4, <2>5 DEF Exchange
<1> QED BY <1>2, <1>3

(* The daemon's answer to a request for the card t read last. *)
LEMMA DecisionAnswers ==
  ASSUME RoomTypeOK, NEW m \in RequestMsgs, processDbMessage(m),
         m.rfid = card[m.thread], UNCHANGED card
  PROVE  /\ db' # NoReply
         /\ db'.thread = m.thread
         /\ Answers(m.thread, db)'
<1>1. m.thread \in Threads
  BY DEF RequestMsgs
<1>2. NoReply.thread = "none" /\ m.thread # "none"
  BY <1>1, RoomAssumption DEF NoReply
<1>3. CASE m.thread = "pir"
  <2>1. db' = Reply("pir", isInside # {}, NoCard)
    BY <1>3 DEF processDbMessage, handleCheckUserInPir
  <2>2. db'.thread = "pir"
    BY <2>1 DEF Reply
  <2>3. m.thread \notin CardThreads
    BY <1>3 DEF CardThreads
  <2> QED BY <1>2, <1>3, <2>2, <2>3 DEF Answers
<1>4. CASE m.thread # "pir" /\ m.rfid \in Registered
  <2>1. db' = Reply(m.thread, TRUE, m.rfid)
    BY <1>4 DEF processDbMessage, handleAccessRequest
  <2>2. db'.thread = m.thread /\ db'.authorized /\ db'.user = m.rfid
    BY <2>1 DEF Reply
  <2> QED BY <1>2, <1>4, <2>2 DEF Answers
<1>5. CASE m.thread # "pir" /\ m.rfid \notin Registered
  <2>1. db' = Reply(m.thread, FALSE, NoCard)
    BY <1>5 DEF processDbMessage, handleAccessRequest
  <2>2. db'.thread = m.thread /\ ~db'.authorized
    BY <2>1 DEF Reply
  <2> QED BY <1>2, <1>5, <2>2 DEF Answers
<1> QED BY <1>3, <1>4, <1>5

(* The daemon takes the first message: the others move up by one place. *)
LEMMA AskedAfterTake ==
  ASSUME RoomTypeOK, DbTake, NEW u \in Threads
  PROVE  /\ Head(mqToDatabase) = mqToDatabase[1]
         /\ \A i \in Asked(u)' : /\ i + 1 \in Asked(u)
                                 /\ mqToDatabase'[i] = mqToDatabase[i + 1]
         /\ \A i \in Asked(u) : i = 1 \/ i - 1 \in Asked(u)'
         /\ 1 \in Asked(u) <=> /\ Head(mqToDatabase) \in RequestMsgs
                               /\ Head(mqToDatabase).thread = u
<1> DEFINE n == Len(mqToDatabase)
<1>1. mqToDatabase \in Seq(ActuatorLogs \union OtherMsgs)
  BY DEF RoomTypeOK, TypeOK
<1>2. /\ n \in Nat \ {0}
      /\ Head(mqToDatabase) = mqToDatabase[1]
      /\ Len(mqToDatabase') = n - 1
      /\ \A i \in 1..(n - 1) : mqToDatabase'[i] = mqToDatabase[i + 1]
  BY <1>1, TailElements DEF DbTake
<1>3. \A i \in Asked(u)' : i \in 1..(n - 1)
  BY <1>2 DEF Asked
<1>4. \A i \in Asked(u)' : i + 1 \in 1..n /\ mqToDatabase'[i] = mqToDatabase[i + 1]
  BY <1>2, <1>3
<1>5. \A i \in Asked(u)' : i + 1 \in Asked(u)
  BY <1>4 DEF Asked
<1>6. ASSUME NEW i \in Asked(u), i # 1 PROVE i - 1 \in Asked(u)'
  <2>1. i \in 1..n /\ mqToDatabase[i] \in RequestMsgs
        /\ mqToDatabase[i].thread = u
    BY DEF Asked
  <2>2. i - 1 \in 1..(n - 1) /\ (i - 1) + 1 = i
    BY <1>2, <1>6, <2>1
  <2>3. mqToDatabase'[i - 1] = mqToDatabase[i]
    BY <1>2, <2>2
  <2>4. i - 1 \in 1..Len(mqToDatabase')
    BY <1>2, <2>2
  <2> QED BY <2>1, <2>3, <2>4 DEF Asked
<1>7. 1 \in 1..n
  BY <1>2
<1> QED BY <1>2, <1>4, <1>5, <1>6, <1>7 DEF Asked

LEMMA DbProcessStep ==
  ASSUME RoomTypeOK, ReplyIsMine, DbProcess, NEW u \in Threads
  PROVE  Exchange(u)'
<1>0. PICK m : m = Head(mqToDatabase)
  OBVIOUS
<1>1. /\ db = NoReply
      /\ DbTake
      /\ processDbMessage(m)
      /\ UNCHANGED <<at, card, replies>>
  BY <1>0 DEF DbProcess
<1>2. Exchange(u) /\ ~Answering(u)
  BY <1>1 DEF ReplyIsMine, Answering
<1>3. /\ m = mqToDatabase[1]
      /\ \A i \in Asked(u)' : /\ i + 1 \in Asked(u)
                              /\ mqToDatabase'[i] = mqToDatabase[i + 1]
      /\ \A i \in Asked(u) : i = 1 \/ i - 1 \in Asked(u)'
      /\ 1 \in Asked(u) <=> m \in RequestMsgs /\ m.thread = u
  BY <1>0, <1>1, AskedAfterTake
<1>4. Asked(u) \subseteq Nat /\ Asked(u)' \subseteq Nat
  BY DEF Asked
<1>5. ASSUME m \in RequestMsgs
      PROVE  /\ db' # NoReply /\ db'.thread = m.thread
             /\ Answers(m.thread, db)'
  <2>1. m.thread \in Threads
    BY <1>5 DEF RequestMsgs
  <2>2. 1 \in Asked(m.thread) /\ m = mqToDatabase[1]
    BY <1>0, <1>1, <1>5, <2>1, AskedAfterTake
  <2>3. m.rfid = card[m.thread]
    BY <2>1, <2>2 DEF ReplyIsMine, Exchange
  <2> QED BY <1>1, <1>5, <2>3, DecisionAnswers
<1>6. CASE m \in RequestMsgs /\ m.thread = u
  <2>1. 1 \in Asked(u)
    BY <1>3, <1>6
  <2>2. \A i \in Asked(u) : i = 1
    BY <1>2, <2>1 DEF Exchange
  <2>3. Asked(u)' = {}
    <3>1. \A i \in Asked(u)' : i \in 1..Len(mqToDatabase') /\ i + 1 = 1
      BY <1>3, <2>2 DEF Asked
    <3> QED BY <3>1
  <2>4. replies'[u] = << >> /\ Answering(u)' /\ Answers(u, db)'
    BY <1>1, <1>2, <1>5, <1>6, <2>1 DEF Exchange, Answering
  <2>5. at'[u] \in {"await", "done"}
    BY <1>1, <1>2, <2>1 DEF Exchange
  <2>6. Len(replies'[u]) <= 1
    BY <2>4, EmptySeq
  <2> QED BY <2>3, <2>4, <2>5, <2>6 DEF Exchange
<1>7. CASE ~(m \in RequestMsgs /\ m.thread = u)
  <2>1. ~Answering(u)'
    <3>1. CASE m \in RequestMsgs
      BY <1>5, <1>7, <3>1 DEF Answering
    <3>2. CASE m \notin RequestMsgs
      BY <1>1, <3>2 DEF processDbMessage, Answering
    <3> QED BY <3>1, <3>2
  <2>2. \A i, j \in Asked(u)' : i = j
    <3>1. \A i, j \in Asked(u)' : i + 1 = j + 1
      BY <1>2, <1>3 DEF Exchange
    <3> QED BY <1>4, <3>1
  <2>3. Asked(u)' # {} <=> Asked(u) # {}
    BY <1>3, <1>7
  <2>4. \A i \in Asked(u)' : mqToDatabase'[i].rfid = card'[u]
    BY <1>1, <1>2, <1>3 DEF Exchange
  <2>5. replies'[u] = replies[u] /\ at'[u] = at[u] /\ card'[u] = card[u]
    BY <1>1
  <2>6. replies'[u] # << >> => Answers(u, Head(replies[u]))'
    BY <1>1, <1>2 DEF Exchange, Answers
  <2> QED BY <1>2, <2>1, <2>2, <2>3, <2>4, <2>5, <2>6 DEF Exchange
<1> QED BY <1>6, <1>7

LEMMA DbReplyStep ==
  ASSUME RoomTypeOK, DbReply, NEW u \in Threads, Exchange(u)
  PROVE  Exchange(u)'
<1>1. /\ db # NoReply /\ db' = NoReply
      /\ replies' = [replies EXCEPT ![db.thread] = Append(replies[db.thread], db)]
      /\ UNCHANGED <<mqToDatabase, at, card>>
  BY DEF DbReply, vars
<1>2. ~Answering(u)'
  BY <1>1 DEF Answering
<1>3. /\ Asked(u)' = Asked(u)
      /\ \A i \in Asked(u) : mqToDatabase'[i] = mqToDatabase[i]
  BY <1>1, AskedAfterNoPost
<1>4. db \in Replies /\ db.thread \in Threads
  BY <1>1 DEF RoomTypeOK, Replies
<1>5. CASE db.thread = u
  <2>1. Asked(u) = {} /\ replies[u] = << >> /\ Answers(u, db)
        /\ at[u] \in {"await", "done"}
    BY <1>1, <1>5 DEF Exchange, Answering
  <2>2. replies'[u] = Append(<< >>, db)
    BY <1>1, <1>5, <2>1 DEF RoomTypeOK
  <2>3. << >> \in Seq(Replies) /\ Len(<< >>) = 0
    BY EmptySeq
  <2>4. Append(<< >>, db) \in Seq(Replies) /\ Len(Append(<< >>, db)) = 1
        /\ Append(<< >>, db)[1] = db
    BY <1>4, <2>3, AppendElements
  <2>5. replies'[u] # << >>
    BY <2>2, <2>3, <2>4
  <2>6. replies'[u] \in Seq(Replies) /\ Len(replies'[u]) <= 1
    BY <2>2, <2>4
  <2>7. Head(replies'[u]) = db
    BY <2>2, <2>4, <2>5, <2>6, OneElement
  <2>8. Answers(u, Head(replies[u]))'
    BY <1>1, <2>1, <2>7 DEF Answers
  <2> QED BY <1>1, <1>2, <1>3, <2>1, <2>5, <2>6, <2>8 DEF Exchange
<1>6. CASE db.thread # u
  <2>1. replies'[u] = replies[u] /\ at'[u] = at[u] /\ card'[u] = card[u]
    BY <1>1, <1>6 DEF RoomTypeOK
  <2>2. ~Answering(u)
    BY <1>6 DEF Answering
  <2> QED BY <1>2, <1>3, <2>1, <2>2 DEF Exchange, Answers
<1> QED BY <1>5, <1>6

(* The steps that send something that is no request, and those that send   *)
(* nothing, leave every exchange alone.                                     *)
LEMMA LogStep ==
  ASSUME RoomTypeOK, NEW t \in Threads, LogAccess(t) \/ LogAlert(t),
         NEW u \in Threads, Exchange(u)
  PROVE  Exchange(u)'
<1>1. \E m \in {AccessLog, AlertLog} : PostDb(m)
  BY DEF LogAccess, LogAlert, SendOther
<1>2. /\ Asked(u)' = Asked(u)
      /\ \A i \in Asked(u) : mqToDatabase'[i] = mqToDatabase[i]
  BY <1>1, MsgTypes, AskedAfterPost
<1>3. /\ UNCHANGED <<card, replies, db>>
      /\ at[t] \in {"log", "alert"}
      /\ at' = [at EXCEPT ![t] = "door"] \/ at' = [at EXCEPT ![t] = "loop"]
  BY DEF LogAccess, LogAlert, Go
<1>4. \/ at'[u] = at[u] /\ card'[u] = card[u]
      \/ at[u] \notin {"await", "done"} /\ at'[u] # "await"
  BY <1>3 DEF RoomTypeOK
<1> QED BY <1>2, <1>3, <1>4, QuietStep

LEMMA ActStepExchange ==
  ASSUME RoomTypeOK, HandOK, ActStep, NEW u \in Threads, Exchange(u)
  PROVE  Exchange(u)'
<1>1. UNCHANGED threadVars
  BY DEF ActStep
<1>2. UNCHANGED mqToDatabase \/ SendLog
  BY DEF ActStep, tAct, CheckStop, Receive, Apply, ApplyFails, SetTimer,
         Expire, AlarmTimerCallback
<1>3. ASSUME SendLog
      PROVE  /\ Asked(u)' = Asked(u)
             /\ \A i \in Asked(u) : mqToDatabase'[i] = mqToDatabase[i]
  <2>1. PostDb(ActuatorLog(cmd)) /\ cmd \in ActuatorCmd
    BY <1>3 DEF SendLog, HandOK
  <2>2. ActuatorLog(cmd) \in ActuatorLogs
    BY <2>1, CommandFields
  <2> QED BY <2>1, <2>2, MsgTypes, AskedAfterPost
<1>4. /\ Asked(u)' = Asked(u)
      /\ \A i \in Asked(u) : mqToDatabase'[i] = mqToDatabase[i]
  BY <1>2, <1>3, AskedAfterNoPost
<1> QED BY <1>1, <1>4, QuietStep DEF threadVars

LEMMA MoveExchange ==
  ASSUME RoomTypeOK, NEW t \in Threads,
         \/ Loop(t) \/ WaitTimeout(t) \/ AwaitStop(t) \/ DoorLoop(t)
         \/ DoorTimeout(t) \/ Closed(t) \/ Unlock(t) \/ Lock(t) \/ RaiseAlarm(t)
         \/ \E c \in Cards \union {NoCard} : Sense(t, c),
         NEW u \in Threads, Exchange(u)
  PROVE  Exchange(u)'
<1>1. CASE Loop(t) \/ WaitTimeout(t) \/ AwaitStop(t) \/ DoorLoop(t)
             \/ DoorTimeout(t) \/ Closed(t)
  <2>1. /\ u # t => at'[u] = at[u]
        /\ \/ at[t] \notin {"await", "done"} /\ at'[t] # "await"
           \/ at[t] = "await" /\ at'[t] = "done"
    <3>1. CASE Loop(t) \/ DoorLoop(t) \/ Closed(t)
      BY <3>1 DEF Loop, DoorLoop, Closed, Move, Go, RoomTypeOK
    <3>2. CASE WaitTimeout(t) \/ AwaitStop(t) \/ DoorTimeout(t)
      BY <3>2 DEF WaitTimeout, AwaitStop, DoorTimeout, Move, Go, RoomTypeOK
    <3> QED BY <1>1, <3>1, <3>2
  <2>2. UNCHANGED <<mqToDatabase, card, replies, db>>
    BY <1>1 DEF Loop, WaitTimeout, AwaitStop, DoorLoop, DoorTimeout, Closed,
                Move, vars
  <2>3. \/ at'[u] = at[u]
        \/ at[u] \notin {"await", "done"} /\ at'[u] # "await"
        \/ at[u] = "await" /\ at'[u] = "done"
    BY <2>1
  <2> QED BY <2>2, <2>3, QuietStep, AskedAfterNoPost
<1>2. CASE Unlock(t) \/ Lock(t) \/ RaiseAlarm(t)
  <2>1. /\ u # t => at'[u] = at[u]
        /\ at[t] \notin {"await", "done"} /\ at'[t] # "await"
    BY <1>2 DEF Unlock, Lock, RaiseAlarm, Go, RoomTypeOK
  <2>2. UNCHANGED <<mqToDatabase, card, replies, db>>
    BY <1>2 DEF Unlock, Lock, RaiseAlarm, Submit
  <2>3. \/ at'[u] = at[u]
        \/ at[u] \notin {"await", "done"} /\ at'[u] # "await"
    BY <2>1
  <2> QED BY <2>2, <2>3, QuietStep, AskedAfterNoPost
<1>3. ASSUME NEW c \in Cards \union {NoCard}, Sense(t, c)
      PROVE  Exchange(u)'
  <2>1. /\ at[t] = "wait" /\ at' = [at EXCEPT ![t] = "ask"]
        /\ card' = [card EXCEPT ![t] = c]
        /\ UNCHANGED <<mqToDatabase, replies, db>>
    BY <1>3 DEF Sense, Go, vars
  <2>2. \/ at'[u] = at[u] /\ card'[u] = card[u]
        \/ at[u] \notin {"await", "done"} /\ at'[u] # "await"
    BY <2>1 DEF RoomTypeOK
  <2> QED BY <2>1, <2>2, QuietStep, AskedAfterNoPost
<1> QED BY <1>1, <1>2, <1>3

LEMMA ExchangeStep ==
  ASSUME RoomTypeOK, HandOK, ReplyIsMine, [RoomNext]_roomVars,
         NEW u \in Threads
  PROVE  Exchange(u)'
<1>1. Exchange(u)
  BY DEF ReplyIsMine
<1>2. CASE EntryGranted /\ "entry" \in Threads
  BY <1>1, <1>2, TakeReplyStep DEF EntryGranted, Places
<1>3. CASE EntryDenied /\ "entry" \in Threads
  <2>1. (IF LastAttempt THEN "alarm" ELSE "loop") \in Places \ {"await"}
    BY DEF Places
  <2> QED BY <1>1, <1>3, <2>1, TakeReplyStep DEF EntryDenied
<1>4. CASE ExitReply /\ "exit" \in Threads
  <2>1. (IF Authorized("exit") THEN "unlock" ELSE "loop") \in Places \ {"await"}
    BY DEF Places
  <2> QED BY <1>1, <1>4, <2>1, TakeReplyStep DEF ExitReply
<1>5. CASE PirReply /\ "pir" \in Threads
  <2>1. (IF Authorized("pir") THEN "loop" ELSE "alarm") \in Places \ {"await"}
    BY DEF Places
  <2> QED BY <1>1, <1>5, <2>1, TakeReplyStep DEF PirReply
<1>6. CASE DoorCloses
  BY <1>1, <1>6, QuietStep, AskedAfterNoPost DEF DoorCloses, vars
<1>7. CASE ReedSignal
  <2>1. at'[u] = IF at[u] = "doorWait" THEN "closed" ELSE at[u]
    BY <1>7 DEF ReedSignal
  <2>2. \/ at'[u] = at[u]
        \/ at[u] \notin {"await", "done"} /\ at'[u] # "await"
    BY <2>1
  <2>3. UNCHANGED <<mqToDatabase, card, replies, db>>
    BY <1>7 DEF ReedSignal, vars
  <2> QED BY <1>1, <2>2, <2>3, QuietStep, AskedAfterNoPost
<1>8. CASE Stop \/ DestroyInstance \/ UNCHANGED roomVars
  <2>1. UNCHANGED <<mqToDatabase, at, card, replies, db>>
    BY <1>8 DEF Stop, DestroyInstance, RequestStop, Destroy, roomVars,
                threadVars, vars
  <2> QED BY <1>1, <2>1, QuietStep, AskedAfterNoPost
<1> QED
  BY <1>1, <1>2, <1>3, <1>4, <1>5, <1>6, <1>7, <1>8, Steps, AskStep, LogStep,
     ActStepExchange, MoveExchange, DbProcessStep, DbReplyStep DEF Door

LEMMA InitExchange == RoomInit => ReplyIsMine
<1> SUFFICES ASSUME RoomInit, NEW t \in Threads PROVE Exchange(t)
  BY DEF ReplyIsMine
<1>1. mqToDatabase = << >> /\ replies[t] = << >> /\ db = NoReply
      /\ at[t] = "loop"
  BY DEF RoomInit, Init
<1>2. Len(<< >>) = 0
  BY EmptySeq
<1>3. Asked(t) = {} /\ ~Answering(t)
  BY <1>1, <1>2 DEF Asked, Answering
<1> QED BY <1>1, <1>2, <1>3 DEF Exchange

(* However the threads and the daemon interleave, a thread's next reply is *)
(* the one to its last question.                                            *)
THEOREM RepliesAreMine == RoomSpec => []ReplyIsMine
<1>1. RoomTypeOK /\ HandOK /\ ReplyIsMine /\ [RoomNext]_roomVars => ReplyIsMine'
  BY ExchangeStep DEF ReplyIsMine
<1> QED BY InitExchange, <1>1, RoomTypeCorrect, PTL DEF RoomSpec

(* The database daemon never waits for a thread of the room: there is       *)
(* always room for the reply it is sending, so threads that wait for room   *)
(* in mq_to_db, or for a reply, never wait for one another.                 *)
THEOREM RepliesFit ==
  RoomSpec => [](\A t \in Threads : Answering(t) => Len(replies[t]) < ReplyCap)
<1>1. ReplyIsMine => \A t \in Threads : Answering(t) => Len(replies[t]) < ReplyCap
  <2> SUFFICES ASSUME ReplyIsMine, NEW t \in Threads, Answering(t)
               PROVE  Len(replies[t]) < ReplyCap
    OBVIOUS
  <2>1. replies[t] = << >>
    BY DEF ReplyIsMine, Exchange
  <2>2. Len(replies[t]) = 0
    BY <2>1
  <2> QED BY <2>2, RoomAssumption
<1> QED BY <1>1, RepliesAreMine, PTL

-----------------------------------------------------------------------------
(* Only registered cards get through. *)

LEMMA PassStep ==
  ASSUME RoomTypeOK, ReplyIsMine, OnlyRegisteredPass, [RoomNext]_roomVars
  PROVE  OnlyRegisteredPass'
<1> SUFFICES ASSUME NEW u \in CardThreads, at'[u] \in Passage
             PROVE  card'[u] \in Registered
  BY DEF OnlyRegisteredPass
<1>1. u \in Threads
  BY DEF CardThreads
<1>2. ASSUME at[u] \in Passage, card'[u] = card[u]
      PROVE  card'[u] \in Registered
  BY <1>2 DEF OnlyRegisteredPass
<1>3. ASSUME NEW t \in Threads,
             \/ Loop(t) \/ WaitTimeout(t) \/ AwaitStop(t) \/ Ask(t) \/ Door(t)
             \/ RaiseAlarm(t) \/ LogAlert(t)
      PROVE  card'[u] = card[u] /\ at[u] \in Passage
  <2>1. card' = card
    BY <1>3 DEF Loop, WaitTimeout, AwaitStop, Ask, Door, Unlock, LogAccess,
                DoorLoop, DoorTimeout, Closed, Lock, RaiseAlarm, LogAlert, Move
  <2>2. at[t] \in Passage \/ at'[t] \notin Passage
    BY <1>3 DEF Loop, WaitTimeout, AwaitStop, Ask, Door, Unlock, LogAccess,
                DoorLoop, DoorTimeout, Closed, Lock, RaiseAlarm, LogAlert, Move,
                Go, Passage, RoomTypeOK
  <2>3. u # t => at'[u] = at[u]
    BY <1>1, <1>3 DEF Loop, WaitTimeout, AwaitStop, Ask, Door, Unlock, LogAccess,
                DoorLoop, DoorTimeout, Closed, Lock, RaiseAlarm, LogAlert, Move,
                Go, RoomTypeOK
  <2> QED BY <2>1, <2>2, <2>3
<1>4. ASSUME NEW t \in Threads, NEW c \in Cards \union {NoCard}, Sense(t, c)
      PROVE  card'[u] = card[u] /\ at[u] \in Passage
  BY <1>1, <1>4 DEF Sense, Go, Passage, RoomTypeOK
<1>5. ASSUME NEW t \in Threads, NEW place \in Places, TakeReply(t, place),
             place \in Passage /\ t \in CardThreads => Authorized(t)
      PROVE  card'[u] \in Registered
  <2>1. /\ card' = card /\ replies[t] # << >>
        /\ at' = [at EXCEPT ![t] = place]
    BY <1>5 DEF TakeReply, Go
  <2>2. CASE u = t
    <3>1. Authorized(u) /\ replies[u] # << >>
      BY <1>1, <1>5, <2>1, <2>2 DEF RoomTypeOK
    <3> QED BY <1>1, <2>1, <3>1 DEF ReplyIsMine, Exchange, Answers, Authorized
  <2>3. CASE u # t
    BY <1>1, <1>2, <2>1, <2>3 DEF RoomTypeOK
  <2> QED BY <2>2, <2>3
<1>6. CASE "entry" \in Threads /\ (EntryGranted \/ EntryDenied)
  <2>1. CASE EntryGranted
    BY <1>5, <1>6, <2>1 DEF EntryGranted, Places
  <2>2. CASE EntryDenied
    <3>1. (IF LastAttempt THEN "alarm" ELSE "loop") \in Places \ Passage
      BY DEF Places, Passage
    <3> QED BY <1>5, <1>6, <2>2, <3>1 DEF EntryDenied
  <2> QED BY <1>6, <2>1, <2>2
<1>7. CASE "exit" \in Threads /\ ExitReply
  <2>1. (IF Authorized("exit") THEN "unlock" ELSE "loop") \in Places
    BY DEF Places
  <2>2. (IF Authorized("exit") THEN "unlock" ELSE "loop") \in Passage
          => Authorized("exit")
    BY DEF Passage
  <2> QED BY <1>5, <1>7, <2>1, <2>2 DEF ExitReply
<1>8. CASE "pir" \in Threads /\ PirReply
  <2>1. (IF Authorized("pir") THEN "loop" ELSE "alarm") \in Places \ Passage
    BY DEF Places, Passage
  <2> QED BY <1>5, <1>8, <2>1 DEF PirReply
<1>9. CASE ReedSignal
  <2>1. at[u] \in Passage
    BY <1>1, <1>9 DEF ReedSignal, Passage
  <2> QED BY <1>2, <1>9, <2>1 DEF ReedSignal
<1>10. CASE DbProcess \/ DbReply \/ DoorCloses \/ Stop \/ ActStep
            \/ DestroyInstance \/ UNCHANGED roomVars
  <2>1. UNCHANGED <<at, card>>
    BY <1>10 DEF DbProcess, DbReply, DoorCloses, Stop, ActStep,
                 DestroyInstance, roomVars, threadVars
  <2> QED BY <1>2, <2>1
<1> QED BY <1>2, <1>3, <1>4, <1>6, <1>7, <1>8, <1>9, <1>10, Steps

(* The door is never freed for a card that is not registered. *)
THEOREM OnlyRegisteredGetThrough == RoomSpec => []OnlyRegisteredPass
<1>1. RoomInit => OnlyRegisteredPass
  BY DEF RoomInit, OnlyRegisteredPass, Passage, CardThreads
<1>2. RoomTypeOK /\ ReplyIsMine /\ OnlyRegisteredPass /\ [RoomNext]_roomVars
        => OnlyRegisteredPass'
  BY PassStep
<1> QED BY <1>1, <1>2, RoomTypeCorrect, RepliesAreMine, PTL DEF RoomSpec

-----------------------------------------------------------------------------
(* A free door is held by somebody. *)

DoorSettled == ServoSettled("SERVO_ROOM")

Unheld == /\ ~stopRequested
          /\ "SERVO_ROOM" \notin FaultyServos
          /\ \A t \in Threads : ~Holds(t)

(* FreeDoorIsHeld says nothing of a door that is locked while a free        *)
(* command is queued behind; this is what every step preserves.             *)
DoorInv == /\ pc \in {"done", "destroyed"} => stopRequested
           /\ Unheld => DoorSettled

(* Once the door is nobody's, either it was so before or this step locks it. *)
LEMMA UnheldBefore ==
  ASSUME RoomTypeOK, [RoomNext]_roomVars, Unheld'
  PROVE  Unheld \/ \E t \in Threads : Lock(t)
<1>1. ~stopRequested
  BY StepImplements DEF Unheld, Next, Submit, SendOther, RequestStop, tAct,
     CheckStop, Receive, Apply, ApplyFails, SetTimer, SendLog, Destroy, Expire,
     AlarmTimerCallback, DbTake, vars, RoomTypeOK, TypeOK
<1>2. SUFFICES ASSUME NEW u \in Threads, Holds(u), ~Holds(u)'
               PROVE  \E t \in Threads : Lock(t)
  BY <1>1 DEF Unheld
<1>3. at[u] \in {"log", "door", "doorWait", "closed", "lock"}
      /\ at'[u] \notin {"log", "door", "doorWait", "closed", "lock"}
  BY <1>2 DEF Holds, Passage
<1>4. ASSUME NEW t \in Threads,
             \/ Loop(t) \/ WaitTimeout(t) \/ Ask(t) \/ AwaitStop(t)
             \/ RaiseAlarm(t) \/ LogAlert(t) \/ Unlock(t)
             \/ \E c \in Cards \union {NoCard} : Sense(t, c)
      PROVE  FALSE
  BY <1>3, <1>4 DEF Loop, WaitTimeout, Ask, AwaitStop, RaiseAlarm, LogAlert,
     Unlock, Sense, Move, Go, RoomTypeOK
<1>5. ASSUME NEW t \in Threads,
             \/ LogAccess(t) \/ DoorLoop(t) \/ DoorTimeout(t) \/ Closed(t)
      PROVE  FALSE
  BY <1>1, <1>3, <1>5 DEF LogAccess, DoorLoop, DoorTimeout, Closed, Move, Go,
     RoomTypeOK
<1>6. ASSUME NEW t \in Threads, NEW place, TakeReply(t, place) PROVE FALSE
  BY <1>3, <1>6 DEF TakeReply, Go, RoomTypeOK
<1>7. CASE ReedSignal
  <2>1. at'[u] = IF at[u] = "doorWait" THEN "closed" ELSE at[u]
    BY <1>7 DEF ReedSignal
  <2> QED BY <1>3, <2>1
<1>8. CASE DbProcess \/ DbReply \/ DoorCloses \/ Stop \/ ActStep
           \/ DestroyInstance \/ UNCHANGED roomVars
  <2>1. at' = at
    BY <1>8 DEF DbProcess, DbReply, DoorCloses, Stop, ActStep,
                DestroyInstance, roomVars, threadVars
  <2> QED BY <1>3, <2>1
<1> QED
  BY <1>4, <1>5, <1>6, <1>7, <1>8, Steps
     DEF Door, EntryGranted, EntryDenied, ExitReply, PirReply

LEMMA DoorStep ==
  ASSUME RoomTypeOK, HandOK, DoorInv, [RoomNext]_roomVars
  PROVE  DoorInv'
<1>1. (pc \in {"done", "destroyed"} => stopRequested)'
  BY StepImplements DEF DoorInv, Next, Submit, SendOther, RequestStop, tAct,
     CheckStop, Receive, Apply, ApplyFails, SetTimer, SendLog, Destroy, Expire,
     AlarmTimerCallback, DbTake, vars
<1> SUFFICES ASSUME Unheld' PROVE DoorSettled'
  BY <1>1 DEF DoorInv
<1>2. TypeOK
  BY DEF RoomTypeOK
<1>3. FreeRoom \in ActuatorCmd /\ LockRoom \in ActuatorCmd
      /\ AlarmOn \in ActuatorCmd /\ AlarmOn.id # "SERVO_ROOM"
  BY MsgTypes, CommandTypes DEF AlarmOn, Cmd
<1>4. ASSUME NEW t \in Threads, Lock(t) PROVE DoorSettled'
  BY <1>2, <1>3, <1>4, ServoPost DEF Lock, Submit, LockRoom, LockOf, DoorSettled
<1>5. ASSUME NEW t \in Threads, Unlock(t) PROVE FALSE
  <2>1. at'[t] = "log"
    BY <1>5 DEF Unlock, Go, RoomTypeOK
  <2> QED BY <2>1 DEF Unheld, Holds, Passage
<1> SUFFICES ASSUME Unheld, DoorSettled PROVE DoorSettled'
  BY <1>4, UnheldBefore DEF DoorInv
<1>6. ASSUME NEW t \in Threads, RaiseAlarm(t) PROVE DoorSettled'
  <2>1. Post(AlarmOn) /\ UNCHANGED <<pc, cmd, hw>>
    BY <1>6 DEF RaiseAlarm, Submit
  <2>2. /\ ServoCmds("SERVO_ROOM")' = ServoCmds("SERVO_ROOM")
        /\ \A i \in ServoCmds("SERVO_ROOM") : mqToActuator'[i] = mqToActuator[i]
    BY <1>2, <1>3, <2>1, ServoPost
  <2> QED BY <2>1, <2>2 DEF DoorSettled, ServoSettled
<1>7. ASSUME NEW t \in Threads,
             \/ Loop(t) \/ WaitTimeout(t) \/ Ask(t) \/ AwaitStop(t)
             \/ LogAlert(t) \/ LogAccess(t) \/ DoorLoop(t) \/ DoorTimeout(t)
             \/ Closed(t)
             \/ \E c \in Cards \union {NoCard} : Sense(t, c)
      PROVE  DoorSettled'
  <2>1. UNCHANGED <<mqToActuator, pc, cmd, hw>>
    BY <1>7 DEF Loop, WaitTimeout, Ask, AwaitStop, LogAlert, LogAccess,
       DoorLoop, DoorTimeout, Closed, Sense, Move, SendOther, vars
  <2> QED BY <2>1, ServoQuiet DEF DoorSettled
<1>8. ASSUME NEW t \in Threads, NEW place, TakeReply(t, place)
      PROVE  DoorSettled'
  BY <1>8, ServoQuiet DEF TakeReply, vars, DoorSettled
<1>9. CASE DbProcess \/ DbReply \/ DoorCloses \/ ReedSignal \/ Stop
           \/ UNCHANGED roomVars
  <2>1. UNCHANGED <<mqToActuator, pc, cmd, hw>>
    BY <1>9 DEF DbProcess, DbTake, DbReply, DoorCloses, ReedSignal, Stop,
       RequestStop, roomVars, vars
  <2> QED BY <2>1, ServoQuiet DEF DoorSettled
<1>10. CASE ActStep
  BY <1>2, <1>10, ServoActStep DEF ActStep, Unheld, DoorSettled, Servos
<1>11. CASE DestroyInstance
  BY <1>11 DEF DestroyInstance, Destroy, DoorInv, Unheld
<1> QED
  BY <1>4, <1>5, <1>6, <1>7, <1>8, <1>9, <1>10, <1>11, Steps
     DEF Door, EntryGranted, EntryDenied, ExitReply, PirReply

(* A free door is a thread's to lock, or its lock command is under way.     *)
THEOREM FreeDoorIsAlwaysHeld == RoomSpec => []FreeDoorIsHeld
<1>1. RoomInit => DoorInv
  <2> SUFFICES ASSUME RoomInit PROVE DoorInv
    OBVIOUS
  <2>1. pc = "check" /\ DoorSettled
    BY ServoInit DEF RoomInit, Init, DoorSettled, Servos
  <2> QED BY <2>1 DEF DoorInv
<1>2. RoomTypeOK /\ HandOK /\ DoorInv /\ [RoomNext]_roomVars => DoorInv'
  BY DoorStep
<1>3. DoorInv => FreeDoorIsHeld
  <2> SUFFICES ASSUME DoorSettled, hw["SERVO_ROOM"] = 0 PROVE LockUnderWay
    BY DEF DoorInv, FreeDoorIsHeld, Unheld
  <2> QED BY SettledIsLocking DEF DoorSettled, LockUnderWay, LockRoom, LockOf
<1> QED BY <1>1, <1>2, <1>3, RoomTypeCorrect, PTL DEF RoomSpec

-----------------------------------------------------------------------------
(***************************************************************************)
(* RoomAccess implements AccessControl: each step of the threads, the      *)
(* daemon and tAct either leaves the abstract state as it is or decides on *)
(* a card, or acts on a decision, as AccessControl allows.  It rests on    *)
(* the exchange of messages above.                                         *)
(***************************************************************************)

(* The abstract state, without the parts that are variables of RoomAccess. *)
Decisions == [t \in Threads |-> Decision(t)]
Passing   == {t \in Threads : at[t] \in Passage}
Owed      == {t \in Threads : at[t] = "alarm"}

-----------------------------------------------------------------------------
(* What is known of a thread's question. *)

(* It does not change while its question, the answer and the reply do not. *)
LEMMA DecisionKept ==
  ASSUME NEW u \in Threads,
         Asked(u)' # {} <=> Asked(u) # {},
         Answering(u)' <=> Answering(u),
         Answering(u) => db' = db,
         replies'[u] = replies[u],
         at'[u] = "ask" <=> at[u] = "ask"
  PROVE  Decision(u)' = Decision(u)
BY DEF Decision, Authorized

LEMMA DecisionNone ==
  ASSUME NEW u \in Threads, Exchange(u), at[u] \notin {"await", "done", "ask"}
  PROVE  Decision(u) = "none"
BY DEF Decision, Exchange

LEMMA DecisionOpen ==
  ASSUME NEW u \in Threads, Exchange(u), Asked(u) # {}
  PROVE  Decision(u) = "open"
BY DEF Decision, Exchange

LEMMA DecisionReply ==
  ASSUME NEW u \in Threads, Exchange(u), replies[u] # << >>
  PROVE  Decision(u) = IF Authorized(u) THEN "granted" ELSE "denied"
BY DEF Decision, Exchange

(* A step that changes what is known of one thread's question only. *)
LEMMA OneDecision ==
  ASSUME NEW t \in Threads, NEW d, Decision(t)' = d,
         \A u \in Threads \ {t} : Decision(u)' = Decision(u)
  PROVE  Decisions' = [Decisions EXCEPT ![t] = d]
BY DEF Decisions

LEMMA SameDecisions ==
  ASSUME \A u \in Threads : Decision(u)' = Decision(u)
  PROVE  Decisions' = Decisions
BY DEF Decisions

(* A step that leaves the abstract state alone. *)
LEMMA Stutters ==
  ASSUME UNCHANGED <<card, failedAttempts, isInside>>,
         \A u \in Threads : Decision(u)' = Decision(u),
         \A u \in Threads : /\ at'[u] \in Passage <=> at[u] \in Passage
                            /\ at'[u] = "alarm" <=> at[u] = "alarm"
  PROVE  UNCHANGED Control!avars
<1>1. Decisions' = Decisions
  BY SameDecisions
<1>2. Passing' = Passing /\ Owed' = Owed
  BY DEF Passing, Owed
<1> QED BY <1>1, <1>2 DEF Control!avars, Decisions, Passing, Owed

-----------------------------------------------------------------------------
(* The steps of a thread. *)

(* Only the places of a thread change, none of them "ask" or "wait". *)
LEMMA MoveDecisions ==
  ASSUME RoomTypeOK, NEW t \in Threads, NEW from \in Places \ {"ask"},
         NEW to \in Places \ {"ask"}, Move(t, from, to)
  PROVE  /\ \A u \in Threads : Decision(u)' = Decision(u)
         /\ UNCHANGED <<card, failedAttempts, isInside>>
         /\ at[t] = from /\ at' = [at EXCEPT ![t] = to]
<1>1. /\ UNCHANGED <<mqToDatabase, card, failedAttempts, replies, db, isInside>>
      /\ at[t] = from /\ at' = [at EXCEPT ![t] = to]
  BY DEF Move, Go, vars
<1>2. ASSUME NEW u \in Threads PROVE Decision(u)' = Decision(u)
  <2>1. Asked(u)' = Asked(u)
    BY <1>1, AskedAfterNoPost
  <2>2. at'[u] = "ask" <=> at[u] = "ask"
    BY <1>1 DEF RoomTypeOK
  <2> QED BY <1>1, <2>1, <2>2, DecisionKept DEF Answering
<1> QED BY <1>1, <1>2

LEMMA PassageEnds ==
  ASSUME RoomTypeOK, NEW t \in Threads, at[t] \in Passage,
         NEW to \in {"loop", "done"}, at' = [at EXCEPT ![t] = to],
         \A u \in Threads : Decision(u)' = Decision(u),
         UNCHANGED <<card, failedAttempts, isInside>>
  PROVE  Control!Passed(t)
<1>1. Decisions' = Decisions
  BY SameDecisions
<1>2. t \in Passing /\ Passing' = Passing \ {t} /\ Owed' = Owed
  BY DEF Passing, Owed, Passage, RoomTypeOK
<1> QED BY <1>1, <1>2 DEF Control!Passed, Decisions, Passing, Owed

LEMMA MoveSteps ==
  ASSUME RoomTypeOK, NEW t \in Threads,
         Loop(t) \/ WaitTimeout(t) \/ AwaitStop(t) \/ DoorLoop(t)
           \/ DoorTimeout(t) \/ Closed(t)
  PROVE  [Control!Next]_Control!avars
<1>1. ASSUME NEW from \in Places \ {"ask"}, NEW to \in Places \ {"ask"},
             Move(t, from, to), from # "alarm", to # "alarm",
             from \in Passage <=> to \in Passage
      PROVE  UNCHANGED Control!avars
  BY <1>1, MoveDecisions, Stutters DEF RoomTypeOK
<1>2. ASSUME NEW from \in Places \ {"ask"}, Move(t, from, "done"),
             from \in Passage
      PROVE  Control!Next
  <2>1. "done" \in Places \ {"ask"}
    BY DEF Places
  <2> QED BY <1>2, <2>1, MoveDecisions, PassageEnds DEF Control!Next
<1>3. CASE Loop(t) \/ WaitTimeout(t) \/ AwaitStop(t) \/ DoorTimeout(t)
  BY <1>1, <1>3
     DEF Loop, WaitTimeout, AwaitStop, DoorTimeout, Places, Passage
<1>4. CASE DoorLoop(t)
  <2>1. CASE stopRequested
    BY <1>2, <1>4, <2>1 DEF DoorLoop, Places, Passage
  <2>2. CASE ~stopRequested
    BY <1>1, <1>4, <2>2 DEF DoorLoop, Places, Passage
  <2> QED BY <2>1, <2>2
<1>5. CASE Closed(t)
  <2>1. CASE stopRequested
    BY <1>2, <1>5, <2>1 DEF Closed, Places, Passage
  <2>2. CASE ~stopRequested
    BY <1>1, <1>5, <2>2 DEF Closed, Places, Passage
  <2> QED BY <2>1, <2>2
<1> QED BY <1>3, <1>4, <1>5

LEMMA SenseStep ==
  ASSUME RoomTypeOK, ReplyIsMine, NEW t \in Threads,
         NEW c \in Cards \union {NoCard}, Sense(t, c)
  PROVE  Control!Present(t, c)
<1>1. /\ UNCHANGED <<mqToDatabase, failedAttempts, replies, db, isInside>>
      /\ at[t] = "wait" /\ at' = [at EXCEPT ![t] = "ask"]
      /\ card' = [card EXCEPT ![t] = c]
  BY DEF Sense, Go, vars
<1>2. Exchange(t)
  BY DEF ReplyIsMine
<1>3. \A u \in Threads : Asked(u)' = Asked(u)
  BY <1>1, AskedAfterNoPost
<1>4. Decision(t) = "none"
  BY <1>1, <1>2, DecisionNone
<1>5. Decision(t)' = "open"
  <2>1. ~Answering(t)' /\ replies'[t] = << >> /\ at'[t] = "ask"
    BY <1>1, <1>2 DEF Exchange, Answering, RoomTypeOK
  <2> QED BY <2>1 DEF Decision
<1>6. ASSUME NEW u \in Threads \ {t} PROVE Decision(u)' = Decision(u)
  <2>1. at'[u] = at[u]
    BY <1>1 DEF RoomTypeOK
  <2> QED BY <1>1, <1>3, <2>1, DecisionKept DEF Answering
<1>7. Decisions' = [Decisions EXCEPT ![t] = "open"]
  BY <1>5, <1>6, OneDecision
<1>8. /\ Passing' = Passing /\ Owed' = Owed
      /\ t \notin Passing \union Owed
  BY <1>1 DEF Passing, Owed, Passage, RoomTypeOK
<1>9. Decisions[t] = "none"
  BY <1>4 DEF Decisions
<1> QED BY <1>1, <1>7, <1>8, <1>9
     DEF Control!Present, Control!Decided, Decisions, Passing, Owed

LEMMA AskKeeps ==
  ASSUME RoomTypeOK, ReplyIsMine, HandOK, [RoomNext]_roomVars,
         NEW t \in Threads, Ask(t)
  PROVE  UNCHANGED Control!avars
<1> DEFINE m == Request(t, card[t])
<1>1. m \in OtherMsgs /\ m \in RequestMsgs /\ m.thread = t
  BY MsgTypes DEF RoomTypeOK
<1>2. /\ PostDb(m)
      /\ at[t] = "ask" /\ at' = [at EXCEPT ![t] = "await"]
      /\ UNCHANGED <<card, failedAttempts, replies, db, isInside>>
  BY DEF Ask, SendOther, Go
<1>3. Exchange(t) /\ Exchange(t)'
  BY ExchangeStep DEF ReplyIsMine
<1>4. Decision(t) = "open"
  BY <1>2, <1>3 DEF Decision, Exchange
<1>5. Decision(t)' = "open"
  <2>1. at'[t] = "await"
    BY <1>2 DEF RoomTypeOK
  <2>2. ~Answering(t) /\ replies[t] = << >>
    BY <1>2, <1>3 DEF Exchange
  <2>3. ~Answering(t)' /\ replies'[t] = << >>
    BY <1>2, <2>2 DEF Answering
  <2>4. Asked(t)' # {}
    BY <1>3, <2>1, <2>3 DEF Exchange
  <2> QED BY <2>3, <2>4 DEF Decision
<1>6. ASSUME NEW u \in Threads \ {t} PROVE Decision(u)' = Decision(u)
  <2>1. Asked(u)' = Asked(u)
    BY <1>1, <1>2, AskedAfterPost
  <2>2. at'[u] = at[u]
    BY <1>2 DEF RoomTypeOK
  <2> QED BY <1>2, <2>1, <2>2, DecisionKept DEF Answering
<1>7. \A u \in Threads : /\ at'[u] \in Passage <=> at[u] \in Passage
                         /\ at'[u] = "alarm" <=> at[u] = "alarm"
  BY <1>2 DEF Passage, RoomTypeOK
<1>8. \A u \in Threads : Decision(u)' = Decision(u)
  BY <1>4, <1>5, <1>6
<1> QED BY <1>2, <1>7, <1>8, Stutters

(* A message other than a question, or none. *)
LEMMA QuietDecisions ==
  ASSUME RoomTypeOK, NEW t \in Threads, NEW to \in Places \ {"ask"},
         at[t] # "ask", at' = [at EXCEPT ![t] = to],
         UNCHANGED <<replies, db>>,
         \A u \in Threads : Asked(u)' = Asked(u)
  PROVE  \A u \in Threads : Decision(u)' = Decision(u)
<1> SUFFICES ASSUME NEW u \in Threads PROVE Decision(u)' = Decision(u)
  OBVIOUS
<1>1. at'[u] = "ask" <=> at[u] = "ask"
  BY DEF RoomTypeOK
<1> QED BY <1>1, DecisionKept DEF Answering

LEMMA CommandSteps ==
  ASSUME RoomTypeOK, NEW t \in Threads, Unlock(t) \/ Lock(t) \/ RaiseAlarm(t)
  PROVE  [Control!Next]_Control!avars
<1>1. PICK to \in {"log", "loop", "alert"} :
        /\ at' = [at EXCEPT ![t] = to]
        /\ \/ at[t] = "unlock" /\ to = "log"
           \/ at[t] = "lock" /\ to = "loop"
           \/ at[t] = "alarm" /\ to = "alert"
  BY DEF Unlock, Lock, RaiseAlarm, Go
<1>2. UNCHANGED <<mqToDatabase, card, failedAttempts, replies, db, isInside>>
  BY DEF Unlock, Lock, RaiseAlarm, Submit
<1>3. \A u \in Threads : Decision(u)' = Decision(u)
  <2>1. to \in Places \ {"ask"} /\ at[t] # "ask"
    BY <1>1 DEF Places
  <2> QED BY <1>1, <1>2, <2>1, AskedAfterNoPost, QuietDecisions
<1>4. CASE at[t] = "unlock"
  BY <1>1, <1>2, <1>3, <1>4, Stutters DEF Passage, RoomTypeOK
<1>5. CASE at[t] = "lock"
  BY <1>1, <1>2, <1>3, <1>5, PassageEnds DEF Control!Next, Passage
<1>6. CASE at[t] = "alarm"
  <2>1. Decisions' = Decisions
    BY <1>3, SameDecisions
  <2>2. t \in Owed /\ Owed' = Owed \ {t} /\ Passing' = Passing
    BY <1>1, <1>6 DEF Passing, Owed, Passage, RoomTypeOK
  <2>3. Control!Raise(t)
    BY <1>2, <2>1, <2>2 DEF Control!Raise, Decisions, Passing, Owed
  <2> QED BY <2>3 DEF Control!Next
<1> QED BY <1>1, <1>4, <1>5, <1>6

LEMMA LogKeeps ==
  ASSUME RoomTypeOK, NEW t \in Threads, LogAccess(t) \/ LogAlert(t)
  PROVE  UNCHANGED Control!avars
<1>1. PICK to \in {"door", "loop"} :
        /\ at' = [at EXCEPT ![t] = to]
        /\ \/ at[t] = "log" /\ to = "door"
           \/ at[t] = "alert" /\ to = "loop"
  BY DEF LogAccess, LogAlert, Go
<1>2. UNCHANGED <<card, failedAttempts, replies, db, isInside>>
  BY DEF LogAccess, LogAlert
<1>3. PICK m \in {AccessLog, AlertLog} : PostDb(m)
  BY DEF LogAccess, LogAlert, SendOther
<1>4. \A u \in Threads : Asked(u)' = Asked(u)
  BY <1>3, MsgTypes, AskedAfterPost
<1>5. to \in Places \ {"ask"} /\ at[t] # "ask"
  BY <1>1 DEF Places
<1>6. \A u \in Threads : Decision(u)' = Decision(u)
  BY <1>1, <1>2, <1>4, <1>5, QuietDecisions
<1> QED BY <1>1, <1>2, <1>6, Stutters DEF Passage, RoomTypeOK

-----------------------------------------------------------------------------
(* The replies. *)

(* The reply of t is taken: nothing more is known of its question. *)
LEMMA ReplyTaken ==
  ASSUME RoomTypeOK, ReplyIsMine, NEW t \in Threads,
         NEW place \in Places \ {"ask", "await"}, TakeReply(t, place)
  PROVE  /\ Decisions[t] = IF Authorized(t) THEN "granted" ELSE "denied"
         /\ Decisions' = [Decisions EXCEPT ![t] = "none"]
         /\ at[t] = "await" /\ at' = [at EXCEPT ![t] = place]
         /\ UNCHANGED <<card, isInside>>
<1>1. /\ at[t] = "await" /\ replies[t] # << >>
      /\ at' = [at EXCEPT ![t] = place]
      /\ replies' = [replies EXCEPT ![t] = Tail(replies[t])]
      /\ UNCHANGED <<mqToDatabase, card, db, isInside>>
  BY DEF TakeReply, Go, vars
<1>2. Exchange(t)
  BY DEF ReplyIsMine
<1>3. Decision(t) = IF Authorized(t) THEN "granted" ELSE "denied"
  BY <1>1, <1>2, DecisionReply
<1>4. \A u \in Threads : Asked(u)' = Asked(u)
  BY <1>1, AskedAfterNoPost
<1>5. Decision(t)' = "none"
  <2>1. replies[t] \in Seq(Replies) /\ Len(replies[t]) <= 1
    BY <1>2 DEF RoomTypeOK, Exchange
  <2>2. Tail(replies[t]) = << >>
    BY <1>1, <2>1, OneElement
  <2>3. replies'[t] = << >> /\ at'[t] = place
    BY <1>1, <2>2 DEF RoomTypeOK
  <2>4. Asked(t)' = {} /\ ~Answering(t)'
    BY <1>1, <1>2, <1>4 DEF Exchange, Answering
  <2> QED BY <2>3, <2>4 DEF Decision
<1>6. ASSUME NEW u \in Threads \ {t} PROVE Decision(u)' = Decision(u)
  <2>1. at'[u] = at[u] /\ replies'[u] = replies[u]
    BY <1>1 DEF RoomTypeOK
  <2> QED BY <1>1, <1>4, <2>1, DecisionKept DEF Answering
<1>7. Decisions' = [Decisions EXCEPT ![t] = "none"]
  BY <1>5, <1>6, OneDecision
<1> QED BY <1>1, <1>3, <1>7 DEF Decisions

LEMMA GrantTaken ==
  ASSUME RoomTypeOK, ReplyIsMine, NEW t \in Threads, Authorized(t),
         TakeReply(t, IF t = "pir" THEN "loop" ELSE "unlock"),
         failedAttempts' = IF t = "entry" THEN 0 ELSE failedAttempts
  PROVE  Control!LetPass(t)
<1>1. PICK place \in {"loop", "unlock"} :
        place = IF t = "pir" THEN "loop" ELSE "unlock"
  OBVIOUS
<1>2. place \in Places \ {"ask", "await"} /\ TakeReply(t, place)
  BY <1>1 DEF Places
<1>3. /\ Decisions[t] = "granted"
      /\ Decisions' = [Decisions EXCEPT ![t] = "none"]
      /\ at[t] = "await" /\ at' = [at EXCEPT ![t] = place]
      /\ UNCHANGED <<card, isInside>>
  BY <1>2, ReplyTaken
<1>4. Passing' = Passing \union ({t} \ {"pir"}) /\ Owed' = Owed
  BY <1>1, <1>3 DEF Passing, Owed, Passage, RoomTypeOK
<1> QED BY <1>3, <1>4 DEF Control!LetPass, Control!Decided, Decisions, Passing, Owed

LEMMA DenialTaken ==
  ASSUME RoomTypeOK, ReplyIsMine, NEW t \in Threads, ~Authorized(t),
         NEW place \in {"loop", "alarm"}, TakeReply(t, place),
         failedAttempts' = IF t # "entry" THEN failedAttempts
                           ELSE IF failedAttempts + 1 = MaxAttempts THEN 0
                           ELSE failedAttempts + 1,
         place = "alarm" <=>
           t = "pir" \/ (t = "entry" /\ failedAttempts' = 0)
  PROVE  Control!TurnAway(t)
<1>1. place \in Places \ {"ask", "await"}
  BY DEF Places
<1>2. /\ Decisions[t] = "denied"
      /\ Decisions' = [Decisions EXCEPT ![t] = "none"]
      /\ at[t] = "await" /\ at' = [at EXCEPT ![t] = place]
      /\ UNCHANGED <<card, isInside>>
  BY <1>1, ReplyTaken
<1>3. /\ Passing' = Passing
      /\ Owed' = IF place = "alarm" THEN Owed \union {t} ELSE Owed
  BY <1>2 DEF Passing, Owed, Passage, RoomTypeOK
<1> QED BY <1>2, <1>3 DEF Control!TurnAway, Control!Decided, Decisions, Passing, Owed

LEMMA ReplySteps ==
  ASSUME RoomTypeOK, ReplyIsMine,
         \/ "entry" \in Threads /\ (EntryGranted \/ EntryDenied)
         \/ "exit" \in Threads /\ ExitReply
         \/ "pir" \in Threads /\ PirReply
  PROVE  Control!Next
<1>1. CASE "entry" \in Threads /\ EntryGranted
  <2>1. Control!LetPass("entry")
    BY <1>1, GrantTaken DEF EntryGranted
  <2> QED BY <1>1, <2>1 DEF Control!Next
<1>2. CASE "entry" \in Threads /\ EntryDenied
  <2>1. /\ failedAttempts \in 0..(MaxAttempts - 1)
        /\ MaxAttempts \in Nat \ {0}
    BY RoomAssumption DEF RoomTypeOK
  <2>2. LastAttempt <=> failedAttempts + 1 = MaxAttempts
    BY <2>1 DEF LastAttempt
  <2>3. PICK place \in {"loop", "alarm"} :
          /\ place = IF LastAttempt THEN "alarm" ELSE "loop"
          /\ TakeReply("entry", place)
    BY <1>2 DEF EntryDenied
  <2>4. failedAttempts' = IF failedAttempts + 1 = MaxAttempts THEN 0
                          ELSE failedAttempts + 1
    BY <1>2, <2>2 DEF EntryDenied
  <2>5. failedAttempts + 1 # 0
    BY <2>1
  <2>6. place = "alarm" <=> failedAttempts' = 0
    BY <2>2, <2>3, <2>4, <2>5
  <2>7. Control!TurnAway("entry")
    BY <1>2, <2>3, <2>4, <2>6, DenialTaken DEF EntryDenied
  <2> QED BY <1>2, <2>7 DEF Control!Next
<1>3. CASE "exit" \in Threads /\ ExitReply
  <2>1. CASE Authorized("exit")
    BY <1>3, <2>1, GrantTaken DEF ExitReply, Control!Next
  <2>2. CASE ~Authorized("exit")
    <3>1. TakeReply("exit", "loop") /\ UNCHANGED failedAttempts
      BY <1>3, <2>2 DEF ExitReply
    <3>2. Control!TurnAway("exit")
      BY <1>3, <2>2, <3>1, DenialTaken
    <3> QED BY <1>3, <3>2 DEF Control!Next
  <2> QED BY <2>1, <2>2
<1>4. CASE "pir" \in Threads /\ PirReply
  <2>1. CASE Authorized("pir")
    BY <1>4, <2>1, GrantTaken DEF PirReply, Control!Next
  <2>2. CASE ~Authorized("pir")
    <3>1. TakeReply("pir", "alarm") /\ UNCHANGED failedAttempts
      BY <1>4, <2>2 DEF PirReply
    <3>2. Control!TurnAway("pir")
      BY <1>4, <2>2, <3>1, DenialTaken
    <3> QED BY <1>4, <3>2 DEF Control!Next
  <2> QED BY <2>1, <2>2
<1> QED BY <1>1, <1>2, <1>3, <1>4

-----------------------------------------------------------------------------
(* The daemon. *)

(* A log is not a question: nobody's question is answered by it. *)
LEMMA LogProcessed ==
  ASSUME RoomTypeOK, DbProcess, Head(mqToDatabase) \notin RequestMsgs
  PROVE  UNCHANGED Control!avars
<1>1. /\ db = NoReply /\ DbTake
      /\ UNCHANGED <<at, card, failedAttempts, replies, db, isInside>>
  BY DEF DbProcess, processDbMessage
<1>2. ASSUME NEW u \in Threads PROVE Asked(u)' # {} <=> Asked(u) # {}
  BY <1>1, AskedAfterTake
<1>3. \A u \in Threads : Decision(u)' = Decision(u)
  BY <1>1, <1>2, DecisionKept DEF Answering
<1> QED BY <1>1, <1>3, Stutters

(* The thread whose question is taken is the only one whose decision it is, *)
(* and the question is about the card the thread presented.                 *)
LEMMA QuestionTaken ==
  ASSUME RoomTypeOK, HandOK, ReplyIsMine, [RoomNext]_roomVars, DbProcess,
         NEW m, m = Head(mqToDatabase), m \in RequestMsgs
  PROVE  /\ m.thread \in Threads /\ m.rfid = card[m.thread]
         /\ Decisions[m.thread] = "open"
         /\ db' # NoReply /\ db'.thread = m.thread
         /\ Decisions' = [Decisions EXCEPT
              ![m.thread] = IF db'.authorized THEN "granted" ELSE "denied"]
<1>1. /\ db = NoReply /\ DbTake /\ processDbMessage(m)
      /\ UNCHANGED <<at, card, failedAttempts, replies>>
  BY DEF DbProcess
<1>2. m.thread \in Threads
  BY DEF RequestMsgs
<1>3. /\ 1 \in Asked(m.thread) /\ m = mqToDatabase[1]
  BY <1>1, <1>2, AskedAfterTake
<1>4. Exchange(m.thread)
  BY <1>2 DEF ReplyIsMine
<1>5. m.rfid = card[m.thread]
  BY <1>3, <1>4 DEF Exchange
<1>6. db' # NoReply /\ db'.thread = m.thread
  BY <1>1, <1>5, DecisionAnswers
<1>7. Decision(m.thread) = "open"
  BY <1>2, <1>3, <1>4, DecisionOpen
<1>8. PICK t \in Threads : t = m.thread
  BY <1>2
<1>9. Decision(t)' = IF db'.authorized THEN "granted" ELSE "denied"
  <2>1. Answering(t)' /\ Exchange(t)'
    BY <1>6, <1>8, ExchangeStep DEF Answering
  <2>2. replies'[t] = << >> /\ Asked(t)' = {} /\ at'[t] # "ask"
    BY <2>1 DEF Exchange
  <2> QED BY <2>1, <2>2 DEF Decision
<1>10. ASSUME NEW u \in Threads \ {t} PROVE Decision(u)' = Decision(u)
  <2>1. Asked(u)' # {} <=> Asked(u) # {}
    BY <1>1, <1>8, AskedAfterTake
  <2>2. ~Answering(u) /\ ~Answering(u)'
    BY <1>1, <1>6, <1>8 DEF Answering
  <2> QED BY <1>1, <2>1, <2>2, DecisionKept
<1>11. Decisions' = [Decisions EXCEPT
          ![t] = IF db'.authorized THEN "granted" ELSE "denied"]
  BY <1>9, <1>10, OneDecision
<1> QED BY <1>5, <1>6, <1>7, <1>8, <1>11 DEF Decisions

LEMMA DbProcessDecides ==
  ASSUME RoomTypeOK, HandOK, ReplyIsMine, [RoomNext]_roomVars, DbProcess
  PROVE  [Control!Next]_Control!avars
<1>1. CASE Head(mqToDatabase) \notin RequestMsgs
  BY <1>1, LogProcessed
<1>2. CASE Head(mqToDatabase) \in RequestMsgs
  <2>1. PICK m : m = Head(mqToDatabase)
    OBVIOUS
  <2>2. PICK t : t = m.thread
    OBVIOUS
  <2>3. /\ t \in Threads /\ m.rfid = card[t]
        /\ Decisions[t] = "open"
        /\ Decisions' = [Decisions EXCEPT
             ![t] = IF db'.authorized THEN "granted" ELSE "denied"]
    BY <1>2, <2>1, <2>2, QuestionTaken
  <2>4. m \in RequestMsgs /\ processDbMessage(m)
        /\ UNCHANGED <<at, card, failedAttempts>>
    BY <1>2, <2>1 DEF DbProcess
  <2>5. Passing' = Passing /\ Owed' = Owed
    BY <2>4 DEF Passing, Owed
  <2>6. CASE t = "pir"
    <3>1. db' = Reply("pir", isInside # {}, NoCard) /\ UNCHANGED isInside
      BY <2>2, <2>4, <2>6 DEF processDbMessage, handleCheckUserInPir
    <3>2. db'.authorized <=> isInside # {}
      BY <3>1 DEF Reply
    <3>3. CASE isInside # {}
      <4>1. Control!Grant(t)
        BY <2>3, <2>4, <2>5, <2>6, <3>1, <3>2, <3>3
           DEF Control!Grant, Control!Decided, Decisions, Passing, Owed
      <4> QED BY <2>3, <4>1 DEF Control!Next
    <3>4. CASE isInside = {}
      <4>1. Control!Deny(t)
        BY <2>3, <2>4, <2>5, <2>6, <3>1, <3>2, <3>4
           DEF Control!Deny, Control!Decided, Decisions, Passing, Owed
      <4> QED BY <2>3, <4>1 DEF Control!Next
    <3> QED BY <3>3, <3>4
  <2>7. CASE t # "pir"
    <3>1. t \in {"entry", "exit"}
      BY <2>3, <2>7, RoomAssumption
    <3>2. handleAccessRequest(m)
      BY <2>2, <2>4, <2>7 DEF processDbMessage
    <3>3. CASE card[t] \in Registered
      <4>1. db'.authorized
            /\ isInside' = IF t = "entry" THEN isInside \union {card[t]}
                           ELSE isInside \ {card[t]}
        BY <2>2, <2>3, <3>2, <3>3 DEF handleAccessRequest, Reply
      <4>2. Control!Grant(t)
        BY <2>3, <2>4, <2>5, <3>1, <3>3, <4>1
           DEF Control!Grant, Control!Decided, Decisions, Passing, Owed
      <4> QED BY <2>3, <4>2 DEF Control!Next
    <3>4. CASE card[t] \notin Registered
      <4>1. ~db'.authorized /\ UNCHANGED isInside
        BY <2>2, <2>3, <3>2, <3>4 DEF handleAccessRequest, Reply
      <4>2. Control!Deny(t)
        BY <2>3, <2>4, <2>5, <3>1, <3>4, <4>1
           DEF Control!Deny, Control!Decided, Decisions, Passing, Owed
      <4> QED BY <2>3, <4>2 DEF Control!Next
    <3> QED BY <3>3, <3>4
  <2> QED BY <2>6, <2>7
<1> QED BY <1>1, <1>2

(* The answer moves from the daemon into the queue of the thread. *)
LEMMA DbReplyKeeps ==
  ASSUME RoomTypeOK, ReplyIsMine, DbReply
  PROVE  UNCHANGED Control!avars
<1>1. /\ db # NoReply /\ db' = NoReply
      /\ replies' = [replies EXCEPT ![db.thread] = Append(replies[db.thread], db)]
      /\ UNCHANGED <<mqToDatabase, at, card, failedAttempts, isInside>>
  BY DEF DbReply, vars
<1>2. db \in Replies /\ db.thread \in Threads
  BY <1>1 DEF RoomTypeOK, Replies
<1>3. \A u \in Threads : Asked(u)' = Asked(u) /\ ~Answering(u)'
  BY <1>1, AskedAfterNoPost DEF Answering
<1>4. ASSUME NEW u \in Threads PROVE Decision(u)' = Decision(u)
  <2>1. CASE u = db.thread
    <3>1. Answering(u) /\ Exchange(u)
      BY <1>1, <2>1 DEF Answering, ReplyIsMine
    <3>2. replies[u] = << >>
      BY <3>1 DEF Exchange
    <3>3. replies'[u] = Append(<< >>, db)
      BY <1>1, <1>2, <2>1, <3>2 DEF RoomTypeOK
    <3>4. /\ Append(<< >>, db) \in Seq(Replies)
          /\ Len(Append(<< >>, db)) = 1 /\ Append(<< >>, db)[1] = db
      BY <1>2, EmptySeq, AppendElements
    <3>5. Append(<< >>, db) # << >> /\ Head(Append(<< >>, db)) = db
      BY <3>4, EmptySeq, OneElement
    <3>6. Decision(u)' = IF db.authorized THEN "granted" ELSE "denied"
      <4>1. Asked(u)' = {} /\ ~Answering(u)' /\ at'[u] # "ask"
        BY <1>1, <1>3, <3>1 DEF Exchange
      <4>2. replies'[u] # << >> /\ Head(replies'[u]) = db
        BY <3>3, <3>5
      <4> QED BY <4>1, <4>2 DEF Decision, Authorized
    <3>7. Decision(u) = IF db.authorized THEN "granted" ELSE "denied"
      <4>1. Asked(u) = {} /\ at[u] # "ask"
        BY <3>1 DEF Exchange
      <4> QED BY <3>1, <3>2, <4>1 DEF Decision
    <3> QED BY <3>6, <3>7
  <2>2. CASE u # db.thread
    <3>1. replies'[u] = replies[u] /\ ~Answering(u)
      BY <1>1, <1>2, <2>2 DEF RoomTypeOK, Answering
    <3> QED BY <1>1, <1>3, <3>1, DecisionKept
  <2> QED BY <2>1, <2>2
<1> QED BY <1>1, <1>4, Stutters

-----------------------------------------------------------------------------
(* The rest of the system. *)

(* Who waits for the door stays in the passage, and the rest leaves the     *)
(* threads and the questions alone.                                         *)
LEMMA OtherSteps ==
  ASSUME RoomTypeOK, HandOK,
         DoorCloses \/ ReedSignal \/ Stop \/ ActStep \/ DestroyInstance
           \/ UNCHANGED roomVars
  PROVE  UNCHANGED Control!avars
<1>1. UNCHANGED <<card, failedAttempts, replies, db, isInside>>
  BY DEF DoorCloses, ReedSignal, Stop, ActStep, DestroyInstance, threadVars,
         roomVars
<1>2. \A u \in Threads : \/ at'[u] = at[u]
                         \/ at[u] = "doorWait" /\ at'[u] = "closed"
  BY DEF DoorCloses, ReedSignal, Stop, ActStep, DestroyInstance, threadVars,
         roomVars, RoomTypeOK
<1>3. UNCHANGED mqToDatabase \/ SendLog
  BY DEF DoorCloses, ReedSignal, Stop, RequestStop, ActStep, DestroyInstance,
         roomVars, vars, tAct, CheckStop, Receive, Apply, ApplyFails, SetTimer,
         Destroy, Expire, AlarmTimerCallback
<1>4. ASSUME NEW u \in Threads PROVE Asked(u)' = Asked(u)
  <2>1. CASE SendLog
    <3>1. PostDb(ActuatorLog(cmd)) /\ cmd \in ActuatorCmd
      BY <2>1 DEF SendLog, HandOK
    <3>2. ActuatorLog(cmd) \in ActuatorLogs
      BY <3>1, CommandFields
    <3> QED BY <3>1, <3>2, MsgTypes, AskedAfterPost
  <2> QED BY <1>3, <2>1, AskedAfterNoPost
<1>5. \A u \in Threads : Decision(u)' = Decision(u)
  BY <1>1, <1>2, <1>4, DecisionKept DEF Answering
<1> QED BY <1>1, <1>2, <1>5, Stutters DEF Passage

LEMMA ControlStep ==
  ASSUME RoomTypeOK, HandOK, ReplyIsMine, [RoomNext]_roomVars
  PROVE  [Control!Next]_Control!avars
<1>1. ASSUME NEW t \in Threads,
             Loop(t) \/ WaitTimeout(t) \/ AwaitStop(t) \/ Ask(t) \/ Door(t)
               \/ RaiseAlarm(t) \/ LogAlert(t)
      PROVE  [Control!Next]_Control!avars
  <2>1. CASE Loop(t) \/ WaitTimeout(t) \/ AwaitStop(t) \/ DoorLoop(t)
               \/ DoorTimeout(t) \/ Closed(t)
    BY <2>1, MoveSteps
  <2>2. CASE Ask(t)
    BY <2>2, AskKeeps
  <2>3. CASE Unlock(t) \/ Lock(t) \/ RaiseAlarm(t)
    BY <2>3, CommandSteps
  <2>4. CASE LogAccess(t) \/ LogAlert(t)
    BY <2>4, LogKeeps
  <2> QED BY <1>1, <2>1, <2>2, <2>3, <2>4 DEF Door
<1>2. ASSUME NEW t \in Threads, NEW c \in Cards \union {NoCard}, Sense(t, c)
      PROVE  Control!Next
  BY <1>2, SenseStep DEF Control!Next
<1> QED BY <1>1, <1>2, Steps, ReplySteps, DbProcessDecides, DbReplyKeeps,
          OtherSteps

(* What the threads, their queues and the daemon do is what AccessControl  *)
(* promises, for all cards, capacities and choices of threads.             *)
THEOREM RoomImplementsAccessControl == RoomSpec => ImplementsAccessControl
<1>1. RoomInit => Control!Init
  <2> SUFFICES ASSUME RoomInit PROVE Control!Init
    OBVIOUS
  <2>1. /\ mqToDatabase = << >> /\ db = NoReply
        /\ at = [t \in Threads |-> "loop"]
        /\ replies = [t \in Threads |-> << >>]
    BY DEF RoomInit, Init
  <2>2. ASSUME NEW t \in Threads PROVE Decision(t) = "none"
    <3>1. Asked(t) = {}
      BY <2>1 DEF Asked
    <3> QED BY <2>1, <3>1 DEF Decision, Answering
  <2>3. Decisions = [t \in Threads |-> "none"] /\ Passing = {} /\ Owed = {}
    BY <2>1, <2>2 DEF Decisions, Passing, Owed, Passage
  <2> QED BY <2>3 DEF RoomInit, Control!Init, Decisions, Passing, Owed
<1>2. RoomTypeOK /\ HandOK /\ ReplyIsMine /\ [RoomNext]_roomVars
        => [Control!Next]_Control!avars
  BY ControlStep
<1> QED BY <1>1, <1>2, RoomTypeCorrect, RepliesAreMine, PTL
     DEF RoomSpec, ImplementsAccessControl, Control!Spec
=============================================================================
