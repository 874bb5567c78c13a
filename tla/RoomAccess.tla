----------------------------- MODULE RoomAccess -----------------------------
(***************************************************************************)
(* Who may enter and leave the room. Three threads of the core process     *)
(* share mq_to_db and mq_to_actuator: "entry" (C_tVerifyRoomAccess), "exit" *)
(* (C_tLeaveRoomAccess) and "pir" (C_tCheckMovement). Each is woken by a   *)
(* monitor, asks the database daemon, waits for the answer in a queue of   *)
(* its own and acts on it; entry and exit share the monitor of the room's  *)
(* reed switch. The database daemon answers one message at a time and      *)
(* keeps who is inside. tAct, the alarm timer and the Actuators table are  *)
(* those of module Actuation.                                              *)
(***************************************************************************)
EXTENDS Actuation

CONSTANTS
  Cards,        \* RFID cards that may be held to a reader
  Registered,   \* the cards of rows of the Users table
  NoCard,       \* no card: of the requests and replies of the PIR thread
  Threads,      \* which of the three threads this instance runs
  MaxAttempts,  \* m_maxAttempts (3 in the code)
  ReplyCap,     \* capacity of mq_rfid_in, mq_rfid_out and mq_move (10)
  MaxReed       \* bound: reed switch signals pending in the kernel

CardThreads == Threads \intersect {"entry", "exit"}

(* ENTER_ROOM_RFID, LEAVE_ROOM_RFID and USER_IN_PIR differ in the thread.  *)
Request(t, c) == [type |-> "REQUEST", thread |-> t, rfid |-> c]
RequestMsgs   == [type : {"REQUEST"}, thread : Threads,
                  rfid : Cards \union {NoCard}]

(* WRITE_LOG of type LOG_TYPE_ACCESS and LOG_TYPE_ALERT; no table but Logs *)
(* depends on what they say.                                               *)
AccessLog == [type |-> "LOG_ACCESS"]
AlertLog  == [type |-> "LOG_ALERT"]

RoomMsgs == RequestMsgs \union {AccessLog, AlertLog}

Reply(t, ok, c) == [thread |-> t, authorized |-> ok, user |-> c]
Replies == [thread : Threads, authorized : BOOLEAN,
            user : Cards \union {NoCard}]
NoReply == [thread |-> "none", authorized |-> FALSE, user |-> NoCard]

FreeRoom == Cmd("SERVO_ROOM", 0)
LockRoom == Cmd("SERVO_ROOM", 90)

RoomRequests == {FreeRoom, LockRoom, AlarmOn}

ASSUME RoomAssumption ==
  /\ Registered \subseteq Cards
  /\ NoCard \notin Cards
  /\ Threads \subseteq {"entry", "exit", "pir"}
  /\ MaxAttempts \in Nat \ {0}
  /\ ReplyCap \in Nat \ {0}
  /\ MaxReed \in Nat \ {0}
  /\ RoomRequests \subseteq Requests
  /\ RoomMsgs \subseteq OtherMsgs

VARIABLES
  at,              \* where each thread is
  card,            \* the card each thread last read
  failedAttempts,  \* of the entry thread
  replies,         \* the reply queue of each thread
  db,              \* the reply the database daemon is sending, or NoReply
  isInside,        \* the cards whose Users row has IsInside = 1
  reedSignals      \* signals of the room's reed switch not yet delivered

threadVars == <<at, card, failedAttempts, replies, db, isInside, reedSignals>>
roomVars   == <<vars, threadVars>>

Places == {"loop", "wait", "ask", "await", "unlock", "log", "door",
           "doorWait", "closed", "lock", "alarm", "alert", "done"}

RoomInit ==
  /\ Init
  /\ at = [t \in Threads |-> "loop"]
  /\ card = [t \in Threads |-> NoCard]
  /\ failedAttempts = 0
  /\ replies = [t \in Threads |-> << >>]
  /\ db = NoReply
  /\ isInside \in SUBSET Registered    \* of an earlier run
  /\ reedSignals = 0

Go(t, place) == at' = [at EXCEPT ![t] = place]

(* A step that changes nothing but where the thread is. *)
Move(t, from, to) ==
  /\ at[t] = from
  /\ Go(t, to)
  /\ UNCHANGED <<vars, card, failedAttempts, replies, db, isInside,
                 reedSignals>>

-----------------------------------------------------------------------------
(* What the threads have in common. *)

Loop(t) == Move(t, "loop", IF stopRequested THEN "done" ELSE "wait")

(* timedWait(1) times out: the monitor was not signalled while waiting. *)
WaitTimeout(t) == Move(t, "wait", "loop")

(* The reader or the PIR raises its signal, tSighandler signals the monitor *)
(* and the waiting thread reads its sensor. A signal that finds nobody      *)
(* waiting is lost. With no frame to read the thread goes back to its loop, *)
(* as after a timeout; the frame it reads need not be of the card that      *)
(* raised this signal. The signals sent on stop wake the thread as well.    *)
Sense(t, c) ==
  /\ at[t] = "wait"
  /\ Go(t, "ask")
  /\ card' = [card EXCEPT ![t] = c]
  /\ UNCHANGED <<vars, failedAttempts, replies, db, isInside, reedSignals>>

Ask(t) ==
  /\ at[t] = "ask"
  /\ SendOther(Request(t, card[t]))
  /\ Go(t, "await")
  /\ UNCHANGED <<card, failedAttempts, replies, db, isInside, reedSignals>>

(* The reply is taken; place is where the thread goes on. *)
TakeReply(t, place) ==
  /\ at[t] = "await"
  /\ replies[t] # << >>
  /\ replies' = [replies EXCEPT ![t] = Tail(@)]
  /\ Go(t, place)
  /\ UNCHANGED <<vars, card, db, isInside, reedSignals>>

Authorized(t) == Head(replies[t]).authorized

(* A definition with a two-part name, such as AwaitStop_GivesUp, is a       *)
(* plausible bug of the one after it.                                       *)
AwaitStop_GivesUp(t) == Move(t, "await", "loop")

(* The wait for the reply ends when the thread is told to stop. *)
AwaitStop(t) == stopRequested /\ Move(t, "await", "done")

-----------------------------------------------------------------------------
(* The door, from grant to lock: the same code in both card threads. *)

Unlock(t) ==
  /\ at[t] = "unlock"
  /\ Submit(FreeRoom)
  /\ Go(t, "log")
  /\ UNCHANGED <<card, failedAttempts, replies, db, isInside, reedSignals>>

LogAccess(t) ==
  /\ at[t] = "log"
  /\ SendOther(AccessLog)
  /\ Go(t, "door")
  /\ UNCHANGED <<card, failedAttempts, replies, db, isInside, reedSignals>>

DoorLoop(t)    == Move(t, "door", IF stopRequested THEN "done" ELSE "doorWait")
DoorTimeout_GivesUp(t) == Move(t, "doorWait", "loop")
DoorTimeout(t) == Move(t, "doorWait", "door")

(* A thread told to stop leaves the door as it is. *)
Closed(t) == Move(t, "closed", IF stopRequested THEN "done" ELSE "lock")

Lock(t) ==
  /\ at[t] = "lock"
  /\ Submit(LockRoom)
  /\ Go(t, "loop")
  /\ UNCHANGED <<card, failedAttempts, replies, db, isInside, reedSignals>>

Door(t) == \/ Unlock(t) \/ LogAccess(t) \/ DoorLoop(t) \/ DoorTimeout(t)
           \/ Closed(t) \/ Lock(t)

-----------------------------------------------------------------------------
(* The alarm: raised by the entry thread and by the PIR thread. *)

RaiseAlarm_WithAngle(t) ==
  /\ at[t] = "alarm"
  /\ Submit(Cmd("ALARM", 90))
  /\ Go(t, "alert")
  /\ UNCHANGED <<card, failedAttempts, replies, db, isInside, reedSignals>>

RaiseAlarm(t) ==
  /\ at[t] = "alarm"
  /\ Submit(AlarmOn)
  /\ Go(t, "alert")
  /\ UNCHANGED <<card, failedAttempts, replies, db, isInside, reedSignals>>

LogAlert(t) ==
  /\ at[t] = "alert"
  /\ SendOther(AlertLog)
  /\ Go(t, "loop")
  /\ UNCHANGED <<card, failedAttempts, replies, db, isInside, reedSignals>>

-----------------------------------------------------------------------------
(* The replies, thread by thread. *)

EntryGranted_KeepsCount ==
  /\ TakeReply("entry", "unlock")
  /\ Authorized("entry")
  /\ UNCHANGED failedAttempts

EntryGranted ==
  /\ TakeReply("entry", "unlock")
  /\ Authorized("entry")
  /\ failedAttempts' = 0

LastAttempt_OffByOne == failedAttempts >= MaxAttempts
LastAttempt == failedAttempts + 1 >= MaxAttempts

EntryDenied ==
  /\ TakeReply("entry", IF LastAttempt THEN "alarm" ELSE "loop")
  /\ ~Authorized("entry")
  /\ failedAttempts' = IF LastAttempt THEN 0 ELSE failedAttempts + 1

ExitReply ==
  /\ TakeReply("exit", IF Authorized("exit") THEN "unlock" ELSE "loop")
  /\ UNCHANGED failedAttempts

PirReply ==
  /\ TakeReply("pir", IF Authorized("pir") THEN "loop" ELSE "alarm")
  /\ UNCHANGED failedAttempts

Common(t) == Loop(t) \/ WaitTimeout(t) \/ Ask(t) \/ AwaitStop(t)

C_tVerifyRoomAccess ==
  /\ "entry" \in Threads
  /\ \/ Common("entry")
     \/ EntryGranted \/ EntryDenied
     \/ Door("entry")
     \/ RaiseAlarm("entry") \/ LogAlert("entry")

C_tLeaveRoomAccess ==
  /\ "exit" \in Threads
  /\ Common("exit") \/ ExitReply \/ Door("exit")

C_tCheckMovement ==
  /\ "pir" \in Threads
  /\ Common("pir") \/ PirReply \/ RaiseAlarm("pir") \/ LogAlert("pir")

-----------------------------------------------------------------------------
(* The database daemon. *)

handleAccessRequest_SilentOnUnknown(m) ==
  IF m.rfid \in Registered
  THEN db' = Reply(m.thread, TRUE, m.rfid) /\ UNCHANGED isInside
  ELSE UNCHANGED <<db, isInside>>

(* A registered card is authorized, and its user is marked inside or        *)
(* outside before the reply is sent.                                        *)
handleAccessRequest(m) ==
  IF m.rfid \in Registered
  THEN /\ db' = Reply(m.thread, TRUE, m.rfid)
       /\ isInside' = IF m.thread = "entry" THEN isInside \union {m.rfid}
                      ELSE isInside \ {m.rfid}
  ELSE /\ db' = Reply(m.thread, FALSE, NoCard)
       /\ UNCHANGED isInside

(* Movement is authorized when somebody is inside. *)
handleCheckUserInPir ==
  /\ db' = Reply("pir", isInside # {}, NoCard)
  /\ UNCHANGED isInside

(* A log changes no table these threads ask for. *)
processDbMessage(m) ==
  IF m \notin RequestMsgs THEN UNCHANGED <<db, isInside>>
  ELSE IF m.thread = "pir" THEN handleCheckUserInPir
  ELSE handleAccessRequest(m)

DbProcess ==
  /\ db = NoReply
  /\ DbTake
  /\ processDbMessage(Head(mqToDatabase))
  /\ UNCHANGED <<at, card, failedAttempts, replies, reedSignals>>

DbReply_ToEntry ==
  /\ db # NoReply
  /\ Len(replies["entry"]) < ReplyCap
  /\ replies' = [replies EXCEPT !["entry"] = Append(@, db)]
  /\ db' = NoReply
  /\ UNCHANGED <<vars, at, card, failedAttempts, isInside, reedSignals>>

(* The reply goes to the queue of the thread that asked. *)
DbReply ==
  /\ db # NoReply
  /\ Len(replies[db.thread]) < ReplyCap
  /\ replies' = [replies EXCEPT ![db.thread] = Append(@, db)]
  /\ db' = NoReply
  /\ UNCHANGED <<vars, at, card, failedAttempts, isInside, reedSignals>>

-----------------------------------------------------------------------------
(* The reed switch of the room, and tSighandler, which wakes every waiter. *)

DoorCloses ==
  /\ hw["SERVO_ROOM"] = 0
  /\ reedSignals < MaxReed
  /\ reedSignals' = reedSignals + 1
  /\ UNCHANGED <<vars, at, card, failedAttempts, replies, db, isInside>>

ReedSignal ==
  /\ reedSignals > 0
  /\ reedSignals' = reedSignals - 1
  /\ at' = [t \in Threads |-> IF at[t] = "doorWait" THEN "closed" ELSE at[t]]
  /\ UNCHANGED <<vars, card, failedAttempts, replies, db, isInside>>

-----------------------------------------------------------------------------
Stop == RequestStop /\ UNCHANGED threadVars

(* tAct, the timer and its callback run beside the threads; the actuators  *)
(* are destroyed once every thread has been joined.                        *)
ActStep ==
  /\ tAct \/ Expire \/ AlarmTimerCallback
  /\ UNCHANGED threadVars

DestroyInstance ==
  /\ \A t \in Threads : at[t] = "done"
  /\ Destroy
  /\ UNCHANGED threadVars

Environment ==
  \/ \E t \in CardThreads, c \in Cards : Sense(t, c)
  \/ "pir" \in Threads /\ Sense("pir", NoCard)
  \/ DoorCloses
  \/ Stop

System ==
  \/ C_tVerifyRoomAccess \/ C_tLeaveRoomAccess \/ C_tCheckMovement
  \/ DbProcess \/ DbReply
  \/ ReedSignal
  \/ ActStep \/ DestroyInstance

RoomNext == Environment \/ System

RoomSpec == RoomInit /\ [][RoomNext]_roomVars

(* Every thread and daemon is scheduled. A send blocked on a full queue     *)
(* gets the slot the next receive frees, so sends are strongly fair.        *)
Send(t) == Ask(t) \/ Unlock(t) \/ LogAccess(t) \/ Lock(t) \/ RaiseAlarm(t)
           \/ LogAlert(t)

Fairness ==
  /\ WF_roomVars(C_tVerifyRoomAccess)
  /\ WF_roomVars(C_tLeaveRoomAccess)
  /\ WF_roomVars(C_tCheckMovement)
  /\ \A t \in Threads : SF_roomVars(Send(t))
  /\ WF_roomVars(DbProcess)
  /\ WF_roomVars(DbReply)
  /\ WF_roomVars(ReedSignal)
  /\ WF_roomVars(tAct /\ UNCHANGED threadVars)
  /\ SF_roomVars(SendLog /\ UNCHANGED threadVars)

FairRoomSpec == RoomSpec /\ Fairness

-----------------------------------------------------------------------------
(* Every variable has its type. *)
RoomTypeOK ==
  /\ TypeOK
  /\ at \in [Threads -> Places]
  /\ card \in [Threads -> Cards \union {NoCard}]
  /\ failedAttempts \in 0..(MaxAttempts - 1)
  /\ replies \in [Threads -> Seq(Replies)]
  /\ db \in Replies \union {NoReply}
  /\ isInside \subseteq Registered
  /\ reedSignals \in 0..MaxReed

(* The requests of t not yet taken by the database daemon. *)
Asked(t) ==
  {i \in 1..Len(mqToDatabase) :
     mqToDatabase[i] \in RequestMsgs /\ mqToDatabase[i].thread = t}

Answering(t) == db # NoReply /\ db.thread = t

(* r is the daemon's answer to the card t last read. *)
Answers(t, r) ==
  t \in CardThreads => /\ r.authorized <=> card[t] \in Registered
                       /\ r.authorized => r.user = card[t]

(* The exchange of t: at most one request or reply of t is under way, and   *)
(* one exactly when t waits for it, or gave up waiting when told to stop.   *)
Exchange(t) ==
  /\ \A i, j \in Asked(t) : i = j
  /\ Asked(t) # {} => ~Answering(t) /\ replies[t] = << >>
  /\ Answering(t) => replies[t] = << >>
  /\ Len(replies[t]) <= 1
  /\ at[t] = "await" => Asked(t) # {} \/ Answering(t) \/ replies[t] # << >>
  /\ at[t] \notin {"await", "done"} =>
       Asked(t) = {} /\ ~Answering(t) /\ replies[t] = << >>
  /\ \A i \in Asked(t) : mqToDatabase[i].rfid = card[t]
  /\ Answering(t) => Answers(t, db)
  /\ replies[t] # << >> => Answers(t, Head(replies[t]))

(* No thread can take the reply to an earlier question, or to another       *)
(* thread's, for the reply to the one it asked last, although replies carry *)
(* no request id (C_tVerifyRoomAccess.cpp:50-61,                            *)
(* C_tLeaveRoomAccess.cpp:51-61, C_tCheckMovement.cpp:29-51,                *)
(* dDatabase.cpp:371-377, 497).                                             *)
ReplyIsMine == \A t \in Threads : Exchange(t)

(* From the grant until its lock command is sent, the thread acts for a     *)
(* registered card: the door is never freed on an unknown one, whatever the *)
(* other threads ask meanwhile (C_tVerifyRoomAccess.cpp:61-82,              *)
(* C_tLeaveRoomAccess.cpp:61-87).                                           *)
Passage == {"unlock", "log", "door", "doorWait", "closed", "lock"}

OnlyRegisteredPass ==
  \A t \in CardThreads : at[t] \in Passage => card[t] \in Registered

(* The thread has freed the door and has yet to lock it. *)
Holds(t) == at[t] \in Passage \ {"unlock"}

LockUnderWay ==
  \/ \E i \in 1..Len(mqToActuator) : mqToActuator[i] = LockRoom
  \/ pc = "apply" /\ cmd = LockRoom

(* Until the core is told to stop, a free room door is somebody's: a thread *)
(* will lock it or the lock command is on its way. Two threads free and     *)
(* lock the same servo through one queue, so the last command in it must    *)
(* be a lock once both are done (C_tVerifyRoomAccess.cpp:66-82,             *)
(* C_tLeaveRoomAccess.cpp:65-86).                                           *)
FreeDoorIsHeld ==
  hw["SERVO_ROOM"] = 0 /\ ~stopRequested /\ "SERVO_ROOM" \notin FaultyServos
    => (\E t \in Threads : Holds(t)) \/ LockUnderWay

(* The threads drive tAct, the timer and the table as Actuation allows, so  *)
(* what holds of Actuation holds here: the alarm is guarded and the         *)
(* Actuators table follows the hardware.                                    *)
ImplementsActuation == Spec

(* What the threads and the daemon do is what AccessControl promises: one   *)
(* decision for each card, by the table of that moment, acted on once and   *)
(* by the thread that read the card (C_tVerifyRoomAccess.cpp:41-101,        *)
(* C_tLeaveRoomAccess.cpp:41-93, C_tCheckMovement.cpp:20-58).               *)
Decision(t) ==
  CASE Answering(t)         -> IF db.authorized THEN "granted" ELSE "denied"
    [] replies[t] # << >>   -> IF Authorized(t) THEN "granted" ELSE "denied"
    [] at[t] = "ask" \/ Asked(t) # {} -> "open"
    [] OTHER                -> "none"

Control == INSTANCE AccessControl WITH
  presented <- card,
  decision  <- [t \in Threads |-> Decision(t)],
  passing   <- {t \in Threads : at[t] \in Passage},
  owed      <- {t \in Threads : at[t] = "alarm"},
  attempts  <- failedAttempts,
  inside    <- isInside

ImplementsAccessControl == Control!Spec

(* The third denial in a row sounds the alarm unless the core stops         *)
(* (C_tVerifyRoomAccess.cpp:85-93).                                         *)
ThirdDenialSoundsAlarm ==
  "entry" \in Threads =>
    ( /\ at["entry"] = "await"
      /\ replies["entry"] # << >>
      /\ ~Head(replies["entry"]).authorized
      /\ failedAttempts = MaxAttempts - 1 )
    ~> (hw["ALARM"] # 0 \/ stopRequested)

(* Every question is answered: no thread and no daemon blocks another for   *)
(* ever through the two shared queues, and no reply goes to the wrong one.  *)
EveryRequestIsAnswered ==
  \A t \in Threads : at[t] = "await" ~> at[t] # "await"
=============================================================================
