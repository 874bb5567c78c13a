---------------------------- MODULE VaultAccess ----------------------------
(***************************************************************************)
(* The vault: the thread c_tVerifyVaultAccess, which matches fingers,      *)
(* opens and closes the vault through tAct and enrols or deletes fingers   *)
(* as the database daemon tells it in mq_finger; the fingerprint sensor's  *)
(* templates; and the daemon's user handlers, which change the Users table *)
(* of module Users, then command the thread, then answer the web daemon.   *)
(* tAct and the Actuators table are those of module Actuation.             *)
(***************************************************************************)
EXTENDS WebLink, Users

CONSTANTS
  UserCommands,  \* the user commands the web daemon sends in this instance
  Slots,         \* what a fingerprint ID is cut to: 2^16 on the wire
  SensorFails,   \* whether the sensor may refuse or not answer a command
  FingerCap,     \* capacity of mq_finger (10)
  MaxReed        \* bound: reed switch signals pending in the kernel

UserMsgs ==
  [type : {"CREATE_USER", "MODIFY_USER"}, user : UserData]
  \union [type : {"REMOVE_USER"}, userId : UserIds]
  \union [type : {"REGISTER_USER"}, name : Names]

(* WRITE_LOG of the thread, for an opened vault or a finger refused: no table *)
(* but Logs depends on which.                                                 *)
VaultLog == [type |-> "WRITE_LOG"]

VaultMsgs == UserCommands \union {VaultLog}

AddUser(f)    == [command |-> "ADD_USER", userId |-> f]
DeleteUser(f) == [command |-> "DELETE_USER", userId |-> f]
FingerCommands == [command : {"ADD_USER", "DELETE_USER"}, userId : Fingers]
NoCommand == [command |-> "none", userId |-> NoFinger]

(* The two bytes of an ID that a command to the sensor carries. *)
Slot(f) == f % Slots

FreeVault == Cmd("SERVO_VAULT", 0)
LockVault == Cmd("SERVO_VAULT", 90)
VaultRequests == {FreeVault, LockVault}

ASSUME VaultAssumption ==
  /\ UserCommands \subseteq UserMsgs
  /\ Slots \in Nat \ {0}
  /\ SensorFails \in BOOLEAN
  /\ FingerCap \in Nat \ {0}
  /\ MaxReed \in Nat \ {0}
  /\ VaultRequests \subseteq Requests
  /\ VaultMsgs \subseteq OtherMsgs

VARIABLES
  vaultAt,       \* where the thread is
  pendingAdd,    \* pendingAddUserId: the finger to enrol at the next touch
  templates,     \* the slots of the sensor that hold a finger
  mqFinger,      \* commands waiting for the thread
  dbCommand,     \* the command the daemon is sending to the thread
  vaultReeds     \* signals of the vault's reed switch not yet delivered

doorVars   == <<vaultAt, vaultReeds>>
sensorVars == <<pendingAdd, templates>>
fingerVars == <<mqFinger, dbCommand>>
coreVars   == <<usersVars, doorVars, sensorVars, fingerVars>>
vaultVars  == <<vars, usersVars, webVars, doorVars, sensorVars, fingerVars>>

Places == {"loop", "drain", "wait", "enrol", "read", "unlock", "log", "door",
           "doorWait", "closed", "lock", "alert", "done"}

VaultInit ==
  /\ Init
  /\ UsersInit
  /\ vaultAt = "loop"
  /\ pendingAdd = NoFinger
  /\ templates \in SUBSET {Slot(AdminFinger)}
  /\ mqFinger = << >>
  /\ dbCommand = NoCommand
  /\ WebInit
  /\ vaultReeds = 0

-----------------------------------------------------------------------------
(* The thread. A step that changes nothing but where it is: *)
VaultMove(from, to) ==
  /\ vaultAt = from
  /\ vaultAt' = to
  /\ UNCHANGED <<vars, usersVars, webVars, vaultReeds, sensorVars, fingerVars>>

(* A definition with a two-part name, such as VaultLoop_SkipsDrain, is a    *)
(* plausible bug of the one after it.                                       *)
VaultLoop_SkipsDrain ==
  VaultMove("loop", IF stopRequested THEN "done"
                    ELSE IF pendingAdd # NoFinger THEN "wait" ELSE "drain")

VaultLoop == VaultMove("loop", IF stopRequested THEN "done" ELSE "drain")

(* The commands in mq_finger are taken until there is none. ADD_USER is     *)
(* remembered for the next touch, DELETE_USER is passed to the sensor; that *)
(* the sensor refused or did not answer goes unnoticed.                     *)
Deleted(f) ==
  \/ templates' = templates \ {Slot(f)}
  \/ SensorFails /\ UNCHANGED templates

DrainOne ==
  /\ vaultAt = "drain"
  /\ mqFinger # << >>
  /\ mqFinger' = Tail(mqFinger)
  /\ LET f == Head(mqFinger).userId IN
     IF Head(mqFinger).command = "ADD_USER"
     THEN pendingAdd' = f /\ UNCHANGED templates
     ELSE Deleted(f) /\ UNCHANGED pendingAdd
  /\ UNCHANGED <<vars, usersVars, webVars, doorVars, dbCommand>>

Drained == mqFinger = << >> /\ VaultMove("drain", "wait")

FingerTimeout == VaultMove("wait", "loop")

(* The sensor's touch output wakes the thread: to enrol or to match. *)
Touch == VaultMove("wait", IF pendingAdd # NoFinger THEN "enrol" ELSE "read")

(* addUser in three steps; whether it succeeds goes unnoticed. *)
Enrol ==
  /\ vaultAt = "enrol"
  /\ vaultAt' = "loop"
  /\ pendingAdd' = NoFinger
  /\ \/ templates' = templates \union {Slot(pendingAdd)}
     \/ SensorFails /\ UNCHANGED templates
  /\ UNCHANGED <<vars, usersVars, webVars, vaultReeds, fingerVars>>

(* CMD_MATCH: a finger of some slot, a finger of none, or no answer. *)
Match    == templates # {} /\ VaultMove("read", "unlock")
NoMatch  == VaultMove("read", "alert")
NoAnswer == VaultMove("read", "loop")

SendAlert ==
  /\ vaultAt = "alert"
  /\ SendOther(VaultLog)
  /\ vaultAt' = "loop"
  /\ UNCHANGED <<usersVars, webVars, vaultReeds, sensorVars, fingerVars>>

OpenVault ==
  /\ vaultAt = "unlock"
  /\ Submit(FreeVault)
  /\ vaultAt' = "log"
  /\ UNCHANGED <<usersVars, webVars, vaultReeds, sensorVars, fingerVars>>

LogOpened ==
  /\ vaultAt = "log"
  /\ SendOther(VaultLog)
  /\ vaultAt' = "door"
  /\ UNCHANGED <<usersVars, webVars, vaultReeds, sensorVars, fingerVars>>

VaultDoorLoop == VaultMove("door", IF stopRequested THEN "done" ELSE "doorWait")

VaultDoorTimeout_GivesUp == VaultMove("doorWait", "loop")
VaultDoorTimeout == VaultMove("doorWait", "door")

VaultClosed == VaultMove("closed", IF stopRequested THEN "done" ELSE "lock")

CloseVault_Fully ==
  /\ vaultAt = "lock"
  /\ Submit(Cmd("SERVO_VAULT", 180))
  /\ vaultAt' = "loop"
  /\ UNCHANGED <<usersVars, webVars, vaultReeds, sensorVars, fingerVars>>

CloseVault ==
  /\ vaultAt = "lock"
  /\ Submit(LockVault)
  /\ vaultAt' = "loop"
  /\ UNCHANGED <<usersVars, webVars, vaultReeds, sensorVars, fingerVars>>

VaultSend == SendAlert \/ OpenVault \/ LogOpened \/ CloseVault

c_tVerifyVaultAccess ==
  \/ VaultLoop \/ DrainOne \/ Drained \/ FingerTimeout
  \/ Enrol \/ Match \/ NoMatch \/ NoAnswer
  \/ VaultSend \/ VaultDoorLoop \/ VaultDoorTimeout \/ VaultClosed

-----------------------------------------------------------------------------
(* The database daemon: the table, then the thread, then the web daemon. *)

CommandFor_AddsAlways(m) ==
  CASE m.type = "REMOVE_USER" /\ m.userId # Admin
       /\ FingerOf(m.userId) # NoFinger -> DeleteUser(FingerOf(m.userId))
    [] m.type = "MODIFY_USER" /\ m.user.finger # NoFinger -> AddUser(m.user.finger)
    [] m.type = "CREATE_USER" /\ m.user.finger # NoFinger -> AddUser(m.user.finger)
    [] OTHER -> NoCommand

CommandFor(m) ==
  CASE m.type = "CREATE_USER" /\ CreateOK(m.user)
       /\ m.user.finger # NoFinger -> AddUser(m.user.finger)
    [] m.type = "MODIFY_USER" /\ ModifyOK(m.user) /\ m.user.finger # NoFinger
       /\ FingerOf(m.user.userID) = NoFinger -> AddUser(m.user.finger)
    [] m.type = "REMOVE_USER" /\ m.userId # Admin
       /\ FingerOf(m.userId) # NoFinger -> DeleteUser(FingerOf(m.userId))
    [] OTHER -> NoCommand

handleUserCommand(m) ==
  CASE m.type = "CREATE_USER" -> handleCreateUser(m.user)
    [] m.type = "MODIFY_USER" -> handleModifyUser(m.user)
    [] m.type = "REMOVE_USER" -> handleRemoveUser(m.userId)
    [] m.type = "REGISTER_USER" -> handleRegisterUser(m.name)

VaultDbProcess ==
  /\ dbCommand = NoCommand /\ ~dbAnswers
  /\ DbTake
  /\ LET m == Head(mqToDatabase) IN
     IF m \in UserCommands
     THEN /\ handleUserCommand(m)
          /\ dbCommand' = CommandFor(m)
          /\ dbAnswers' = TRUE
     ELSE UNCHANGED <<usersVars, dbCommand, dbAnswers>>
  /\ UNCHANGED <<webReplies, webWaits, requests, doorVars, sensorVars, mqFinger>>

DbNotify ==
  /\ dbCommand # NoCommand
  /\ Len(mqFinger) < FingerCap
  /\ mqFinger' = Append(mqFinger, dbCommand)
  /\ dbCommand' = NoCommand
  /\ UNCHANGED <<vars, usersVars, webVars, doorVars, sensorVars>>

DbAnswer ==
  /\ dbCommand = NoCommand
  /\ AnswerWeb
  /\ UNCHANGED coreVars

dDatabase == VaultDbProcess \/ DbNotify \/ DbAnswer

-----------------------------------------------------------------------------
(* The web daemon. *)

WebSend(m) == WebRequest(m) /\ UNCHANGED coreVars

WebTake == WebReceive /\ UNCHANGED coreVars

-----------------------------------------------------------------------------
(* The vault's reed switch, and tSighandler, which wakes the waiter. *)

VaultDoorCloses ==
  /\ hw["SERVO_VAULT"] = 0
  /\ vaultReeds < MaxReed
  /\ vaultReeds' = vaultReeds + 1
  /\ UNCHANGED <<vars, usersVars, webVars, vaultAt, sensorVars, fingerVars>>

VaultReedSignal ==
  /\ vaultReeds > 0
  /\ vaultReeds' = vaultReeds - 1
  /\ vaultAt' = IF vaultAt = "doorWait" THEN "closed" ELSE vaultAt
  /\ UNCHANGED <<vars, usersVars, webVars, sensorVars, fingerVars>>

-----------------------------------------------------------------------------
VaultUnchanged == UNCHANGED <<webVars, coreVars>>

VaultActStep == tAct /\ VaultUnchanged
VaultStop    == RequestStop /\ VaultUnchanged
VaultDestroy == vaultAt = "done" /\ Destroy /\ VaultUnchanged

VaultNext ==
  \/ c_tVerifyVaultAccess \/ Touch
  \/ dDatabase
  \/ \E m \in UserCommands : WebSend(m)
  \/ WebTake
  \/ VaultDoorCloses \/ VaultReedSignal
  \/ VaultActStep \/ VaultStop \/ VaultDestroy

VaultSpec == VaultInit /\ [][VaultNext]_vaultVars

(* Threads and daemons are scheduled; a blocked send gets the slot the next *)
(* receive frees, and the web daemon waits 2 s at most. The vault's door    *)
(* does not stay open for ever: it is closed again until a closing finds    *)
(* the thread waiting.                                                      *)
VaultFairness ==
  /\ SF_vaultVars(c_tVerifyVaultAccess)
  /\ WF_vaultVars(dDatabase)
  /\ WF_vaultVars(WebTake)
  /\ SF_vaultVars(VaultActStep)
  /\ SF_vaultVars(vaultAt = "doorWait" /\ VaultDoorCloses)
  /\ SF_vaultVars(vaultAt = "doorWait" /\ VaultReedSignal)

FairVaultSpec == VaultSpec /\ VaultFairness

-----------------------------------------------------------------------------
(* Every variable has its type; the queues respect their capacities. *)
VaultTypeOK ==
  /\ TypeOK
  /\ UsersTypeOK
  /\ WebTypeOK
  /\ vaultAt \in Places
  /\ pendingAdd \in Fingers \union {NoFinger}
  /\ templates \subseteq {Slot(f) : f \in Fingers}
  /\ mqFinger \in Seq(FingerCommands)
  /\ Len(mqFinger) <= FingerCap
  /\ dbCommand \in FingerCommands \union {NoCommand}
  /\ dbCommand # NoCommand => dbAnswers
  /\ vaultReeds \in 0..MaxReed

VaultLockUnderWay ==
  \/ \E i \in 1..Len(mqToActuator) : mqToActuator[i] = LockVault
  \/ pc = "apply" /\ cmd = LockVault

(* Until the core is told to stop, a free vault is the thread's to lock, or *)
(* its lock command is on the way: neither an enrolment nor a deletion that *)
(* arrives meanwhile makes the thread forget the door                       *)
(* (C_tVerifyVaultAccess.cpp:66-83).                                        *)
FreeVaultIsHeld ==
  hw["SERVO_VAULT"] = 0 /\ ~stopRequested /\ "SERVO_VAULT" \notin FaultyServos
    => \/ vaultAt \in {"log", "door", "doorWait", "closed", "lock"}
       \/ VaultLockUnderWay

(* The commands the thread has yet to take, the one being sent last. *)
UnderWay ==
  IF dbCommand = NoCommand THEN mqFinger ELSE Append(mqFinger, dbCommand)

HasFinger(f) == \E i \in DOMAIN users : users[i].finger = f

(* The last command about a finger tells what the table says of it: the     *)
(* thread that has taken all commands knows every finger given and taken,   *)
(* though table and queue change in two steps and the queue may be full     *)
(* (dDatabase.cpp:1019-1030, 1113-1123, 1166-1177).                         *)
LastCommandTellsTable ==
  \A i \in 1..Len(UnderWay) :
    (\A j \in (i + 1)..Len(UnderWay) : UnderWay[j].userId # UnderWay[i].userId)
      => (UnderWay[i].command = "ADD_USER" <=> HasFinger(UnderWay[i].userId))

(* The thread drives tAct and the table as Actuation allows. *)
VaultImplementsActuation == Spec

(* The daemon waits for room in mq_finger or in mq_db_to_web, which the     *)
(* thread or the web daemon would make; one of them, or tAct on the way,    *)
(* waits for room in mq_to_db, which the daemon would.                      *)
MutualWait ==
  /\ Len(mqToDatabase) = DbCap
  /\ \/ dbCommand # NoCommand /\ Len(mqFinger) = FingerCap
     \/ dbCommand = NoCommand /\ AnswerBlocked

(* While the core runs, the thread takes every command and comes back to    *)
(* its queue, though on the way it waits for the database daemon (to log),  *)
(* for tAct (to lock) and for the door; unless the daemon waits for the     *)
(* thread or the web daemon meanwhile, and they for the daemon, for good    *)
(* (C_tVerifyVaultAccess.cpp:37-90, dDatabase.cpp:1029, 1041).              *)
CommandsAreTaken ==
  mqFinger # << >> ~> (mqFinger = << >> \/ stopRequested \/ []MutualWait)

(* Once no command is under way, the sensor knows the fingers of the table   *)
(* only: deleting a user deletes the finger (dDatabase.cpp:1139 "Delete user *)
(* and propagate fingerprint deletion if needed.").                         *)
DeletedFingersAreGone ==
  UnderWay = << >> =>
    templates \subseteq {Slot(users[i].finger) : i \in DOMAIN users}
=============================================================================
