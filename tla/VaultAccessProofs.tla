------------------------- MODULE VaultAccessProofs -------------------------
(***************************************************************************)
(* Proofs about VaultAccess and Users: the vault implements Actuation, the *)
(* rows of the Users table keep their level, a way in and fingers of their *)
(* own, the last command about a finger tells the table, and a free vault  *)
(* is held; for all user commands, fingers, sensors and capacities.        *)
(***************************************************************************)
EXTENDS VaultAccess, ActuationProofs

-----------------------------------------------------------------------------
(* The Users table. *)

LEMMA UserMsgKinds ==
  ASSUME NEW m \in UserMsgs
  PROVE  \/ m.type \in {"CREATE_USER", "MODIFY_USER"} /\ m.user \in UserData
         \/ m.type = "REMOVE_USER" /\ m.userId \in UserIds
         \/ m.type = "REGISTER_USER" /\ m.name \in Names
BY DEF UserMsgs

LEMMA UserDataFields ==
  ASSUME NEW u \in UserData
  PROVE  /\ u.userID \in UserIds /\ u.name \in Names
         /\ u.card \in Cards \union {NoCard}
         /\ u.finger \in Fingers \union {NoFinger}
BY DEF UserData

LEMMA HandledByKind ==
  ASSUME NEW m, handleUserCommand(m)
  PROVE  /\ m.type = "CREATE_USER" => handleCreateUser(m.user)
         /\ m.type = "MODIFY_USER" => handleModifyUser(m.user)
         /\ m.type = "REMOVE_USER" => handleRemoveUser(m.userId)
         /\ m.type = "REGISTER_USER" => handleRegisterUser(m.name)
BY DEF handleUserCommand

(* A finger belongs to one row only. *)
FingersUnique ==
  \A i, j \in DOMAIN users :
    users[i].finger = users[j].finger /\ users[i].finger # NoFinger => i = j

UsersInv ==
  UsersTypeOK /\ LevelTellsCredentials /\ NobodyIsLockedOut /\ FingersUnique

(* What any handler does: nothing, a row with a new UserID, a row changed,  *)
(* or a row removed. A finger given was nobody's, and once given it stays.  *)
Sound(row) ==
  /\ row \in Row
  /\ row.level = computeAccessLevel(row.card, row.finger)
  /\ row.password \/ HasCredential(row.card, row.finger)

Inserted(row) ==
  Insert(row) /\ Sound(row) /\ (row.finger # NoFinger => ~HasFinger(row.finger))

Changed(id, row) ==
  /\ id \in DOMAIN users \ {Admin}
  /\ Sound(row)
  /\ users' = [users EXCEPT ![id] = row]
  /\ UNCHANGED lastUserId
  /\ \/ row.finger = users[id].finger
     \/ /\ users[id].finger = NoFinger
        /\ row.finger # NoFinger => ~HasFinger(row.finger)

Removed(id) ==
  /\ id # Admin
  /\ users' = [i \in DOMAIN users \ {id} |-> users[i]]
  /\ UNCHANGED lastUserId

LEMMA CreateStep ==
  ASSUME UsersTypeOK, NEW u \in UserData, handleCreateUser(u), CreateOK(u),
         NEW row, row = [name |-> u.name, card |-> u.card, finger |-> u.finger,
                         level |-> computeAccessLevel(u.card, u.finger),
                         password |-> FALSE]
  PROVE  Inserted(row)
<1>1. Insert(row)
  BY DEF handleCreateUser
<1>2. computeAccessLevel(u.card, u.finger) \in {0, 1, 2}
  BY DEF computeAccessLevel
<1>3. row \in Row
  BY <1>2, UserDataFields DEF Row
<1>4. row.card = u.card /\ row.finger = u.finger
      /\ row.level = computeAccessLevel(u.card, u.finger)
  OBVIOUS
<1>5. HasCredential(u.card, u.finger)
  BY DEF CreateOK
<1>6. row.finger # NoFinger => ~HasFinger(row.finger)
  <2>1. 0 \notin DOMAIN users
    BY DEF UsersTypeOK
  <2> QED BY <1>4, <2>1 DEF CreateOK, Taken, HasFinger
<1> QED BY <1>1, <1>3, <1>4, <1>5, <1>6 DEF Inserted, Sound

LEMMA RegisterStep ==
  ASSUME NEW name \in Names, handleRegisterUser(name)
  PROVE  \/ UNCHANGED usersVars
         \/ \E row : Inserted(row) /\ row.finger = NoFinger
<1> PICK row : row = [name |-> name, card |-> NoCard, finger |-> NoFinger,
                      level |-> 0, password |-> TRUE]
  OBVIOUS
<1>1. row \in Row /\ row.card = NoCard /\ row.finger = NoFinger
      /\ row.level = 0
  BY DEF Row
<1>2. row.password
  OBVIOUS
<1>3. Sound(row)
  BY <1>1, <1>2 DEF Sound, computeAccessLevel
<1>4. UNCHANGED usersVars \/ Insert(row)
  BY DEF handleRegisterUser
<1> QED BY <1>1, <1>3, <1>4 DEF Inserted

LEMMA ModifyStep ==
  ASSUME UsersTypeOK, NEW u \in UserData, handleModifyUser(u), ModifyOK(u)
  PROVE  \E row : Changed(u.userID, row) /\ row.finger = FinalFinger(u)
<1> PICK id, old : id = u.userID /\ old = users[id]
  OBVIOUS
<1> PICK row : row = [old EXCEPT !.name = u.name, !.card = u.card,
                                 !.finger = FinalFinger(u),
                                 !.level = computeAccessLevel(u.card, FinalFinger(u))]
  OBVIOUS
<1>1. id \in DOMAIN users \ {Admin} /\ old \in Row
  BY DEF ModifyOK, UsersTypeOK
<1>2. users' = [users EXCEPT ![id] = row] /\ UNCHANGED lastUserId
  BY DEF handleModifyUser
<1>3. FinalFinger(u) = IF old.finger = NoFinger THEN u.finger ELSE old.finger
  BY <1>1 DEF FinalFinger, FingerOf
<1>4. FinalFinger(u) \in Fingers \union {NoFinger}
  BY <1>1, <1>3, UserDataFields DEF Row
<1>5. computeAccessLevel(u.card, FinalFinger(u)) \in {0, 1, 2}
  BY DEF computeAccessLevel
<1>6. row \in Row
  BY <1>1, <1>4, <1>5, UserDataFields DEF Row
<1>7. row.card = u.card /\ row.finger = FinalFinger(u)
      /\ row.level = computeAccessLevel(u.card, FinalFinger(u))
  BY <1>1 DEF Row
<1>8. HasCredential(u.card, FinalFinger(u))
  BY DEF ModifyOK
<1>9. old.finger = NoFinger /\ row.finger # NoFinger => ~HasFinger(row.finger)
  BY <1>1, <1>7 DEF ModifyOK, Taken, HasFinger
<1>10. row.finger = old.finger \/ old.finger = NoFinger
  BY <1>3, <1>7
<1> QED BY <1>1, <1>2, <1>6, <1>7, <1>8, <1>9, <1>10 DEF Changed, Sound

LEMMA RemoveStep ==
  ASSUME NEW id, handleRemoveUser(id)
  PROVE  UNCHANGED usersVars \/ Removed(id)
BY DEF handleRemoveUser, Removed, usersVars

LEMMA CommandStep ==
  ASSUME UsersTypeOK, NEW m \in UserMsgs, handleUserCommand(m)
  PROVE  \/ UNCHANGED usersVars
         \/ \E row : Inserted(row)
         \/ \E id, row : Changed(id, row)
         \/ \E id : Removed(id)
<1>1. CASE m.type = "CREATE_USER" /\ m.user \in UserData
  <2>1. handleCreateUser(m.user)
    BY <1>1, HandledByKind
  <2> QED BY <1>1, <2>1, CreateStep DEF handleCreateUser
<1>2. CASE m.type = "MODIFY_USER" /\ m.user \in UserData
  <2>1. handleModifyUser(m.user)
    BY <1>2, HandledByKind
  <2> QED BY <1>2, <2>1, ModifyStep DEF handleModifyUser
<1>3. CASE m.type = "REMOVE_USER"
  BY <1>3, HandledByKind, RemoveStep
<1>4. CASE m.type = "REGISTER_USER" /\ m.name \in Names
  BY <1>4, HandledByKind, RegisterStep
<1> QED BY <1>1, <1>2, <1>3, <1>4, UserMsgKinds

LEMMA InsertRows ==
  ASSUME UsersTypeOK, NEW row, Insert(row)
  PROVE  /\ lastUserId + 1 \notin DOMAIN users
         /\ lastUserId' = lastUserId + 1
         /\ DOMAIN users' = DOMAIN users \union {lastUserId + 1}
         /\ \A i \in DOMAIN users : users'[i] = users[i]
         /\ users'[lastUserId + 1] = row
BY DEF UsersTypeOK, Insert

LEMMA InsertKeeps ==
  ASSUME UsersInv, NEW row, Inserted(row)
  PROVE  UsersInv'
<1> PICK n : n = lastUserId + 1
  OBVIOUS
<1>1. /\ UsersTypeOK /\ LevelTellsCredentials /\ NobodyIsLockedOut
      /\ FingersUnique /\ Sound(row)
  BY DEF UsersInv, Inserted
<1>2. /\ n \notin DOMAIN users /\ lastUserId' = n
      /\ DOMAIN users' = DOMAIN users \union {n}
      /\ \A i \in DOMAIN users : users'[i] = users[i]
      /\ users'[n] = row
  BY <1>1, InsertRows DEF Inserted
<1>3. UsersTypeOK'
  BY <1>1, <1>2 DEF UsersTypeOK, Sound
<1>4. LevelTellsCredentials'
  BY <1>1, <1>2 DEF LevelTellsCredentials, Sound, computeAccessLevel
<1>5. NobodyIsLockedOut'
  BY <1>1, <1>2 DEF NobodyIsLockedOut, Sound, HasCredential
<1>6. FingersUnique'
  <2>1. \A i \in DOMAIN users : row.finger # NoFinger => users[i].finger # row.finger
    BY DEF Inserted, HasFinger
  <2> QED BY <1>1, <1>2, <2>1 DEF FingersUnique
<1> QED BY <1>3, <1>4, <1>5, <1>6 DEF UsersInv

LEMMA ChangeKeeps ==
  ASSUME UsersInv, NEW id, NEW row, Changed(id, row)
  PROVE  UsersInv'
<1>1. /\ UsersTypeOK /\ LevelTellsCredentials /\ NobodyIsLockedOut
      /\ FingersUnique /\ Sound(row)
  BY DEF UsersInv, Changed
<1>2. /\ id \in DOMAIN users /\ lastUserId' = lastUserId
      /\ DOMAIN users' = DOMAIN users
      /\ \A i \in DOMAIN users \ {id} : users'[i] = users[i]
      /\ users'[id] = row
  BY DEF Changed
<1>3. UsersTypeOK'
  BY <1>1, <1>2 DEF UsersTypeOK, Sound
<1>4. LevelTellsCredentials'
  BY <1>1, <1>2 DEF LevelTellsCredentials, Sound, computeAccessLevel
<1>5. NobodyIsLockedOut'
  BY <1>1, <1>2 DEF NobodyIsLockedOut, Sound, HasCredential
<1>6. FingersUnique'
  <2>1. \A i \in DOMAIN users \ {id} :
           row.finger # NoFinger => users[i].finger # row.finger
    BY <1>1, <1>2 DEF Changed, HasFinger, FingersUnique
  <2> QED BY <1>1, <1>2, <2>1 DEF FingersUnique
<1> QED BY <1>3, <1>4, <1>5, <1>6 DEF UsersInv

LEMMA RemoveKeeps ==
  ASSUME UsersInv, NEW id, Removed(id)
  PROVE  UsersInv'
<1>1. /\ UsersTypeOK /\ LevelTellsCredentials /\ NobodyIsLockedOut /\ FingersUnique
  BY DEF UsersInv
<1>2. /\ lastUserId' = lastUserId
      /\ DOMAIN users' = DOMAIN users \ {id}
      /\ \A i \in DOMAIN users \ {id} : users'[i] = users[i]
  BY DEF Removed
<1>3. UsersTypeOK'
  BY <1>1, <1>2 DEF UsersTypeOK
<1>4. LevelTellsCredentials'
  BY <1>1, <1>2 DEF LevelTellsCredentials, computeAccessLevel
<1>5. NobodyIsLockedOut'
  BY <1>1, <1>2 DEF NobodyIsLockedOut, HasCredential
<1>6. FingersUnique'
  BY <1>1, <1>2 DEF FingersUnique
<1> QED BY <1>3, <1>4, <1>5, <1>6 DEF UsersInv

LEMMA UsersStep ==
  ASSUME UsersInv, NEW m \in UserMsgs, handleUserCommand(m)
  PROVE  UsersInv'
<1>1. CASE UNCHANGED usersVars
  BY <1>1 DEF usersVars, UsersInv, UsersTypeOK, LevelTellsCredentials,
     NobodyIsLockedOut, FingersUnique, computeAccessLevel, HasCredential
<1> QED BY <1>1, CommandStep, InsertKeeps, ChangeKeeps, RemoveKeeps DEF UsersInv

LEMMA UsersInitSound == UsersInit => UsersInv
<1> SUFFICES ASSUME UsersInit PROVE UsersInv
  OBVIOUS
<1>1. DOMAIN users = {1} /\ users[1] = AdminRow /\ lastUserId = 1
  BY DEF UsersInit, Admin
<1>2. AdminRow \in Row
  BY UsersAssumption DEF AdminRow, Row
<1>3. AdminRow.password
  BY DEF AdminRow
<1>4. UsersTypeOK
  BY <1>1, <1>2 DEF UsersTypeOK
<1>5. LevelTellsCredentials
  BY <1>1 DEF LevelTellsCredentials, Admin
<1>6. NobodyIsLockedOut
  BY <1>1, <1>3 DEF NobodyIsLockedOut
<1>7. FingersUnique
  BY <1>1 DEF FingersUnique
<1> QED BY <1>4, <1>5, <1>6, <1>7 DEF UsersInv

-----------------------------------------------------------------------------
(* The vault implements Actuation. *)

LEMMA VaultMsgTypes ==
  /\ UserCommands \subseteq OtherMsgs
  /\ VaultLog \in OtherMsgs
  /\ FreeVault \in Requests /\ LockVault \in Requests
  /\ FreeVault \in ActuatorCmd /\ LockVault \in ActuatorCmd
BY VaultAssumption, CommandTypes DEF VaultMsgs, VaultRequests

(* The thread's steps that change nothing but where it is. *)
Steps ==
  \/ VaultLoop \/ Drained \/ FingerTimeout \/ Touch
  \/ Match \/ NoMatch \/ NoAnswer
  \/ VaultDoorLoop \/ VaultDoorTimeout \/ VaultClosed

LEMMA StepMoves ==
  ASSUME Steps
  PROVE  \E from, to \in Places :
           /\ VaultMove(from, to)
           /\ to = "done" => stopRequested
           /\ to = "enrol" => pendingAdd # NoFinger
           /\ from \in {"door", "doorWait", "closed"} =>
                \/ to \in {"door", "doorWait", "lock"}
                \/ stopRequested
           /\ from \notin {"log", "lock"}
<1> USE DEF Places
<1>1. CASE VaultLoop
  BY <1>1 DEF VaultLoop
<1>2. CASE Drained \/ FingerTimeout \/ Match \/ NoMatch \/ NoAnswer
  BY <1>2 DEF Drained, FingerTimeout, Match, NoMatch, NoAnswer
<1>3. CASE Touch
  BY <1>3 DEF Touch
<1>4. CASE VaultDoorLoop
  BY <1>4 DEF VaultDoorLoop
<1>5. CASE VaultDoorTimeout
  BY <1>5 DEF VaultDoorTimeout
<1>6. CASE VaultClosed
  BY <1>6 DEF VaultClosed
<1> QED BY <1>1, <1>2, <1>3, <1>4, <1>5, <1>6 DEF Steps

(* Every step is one of these. *)
LEMMA VaultSteps ==
  ASSUME [VaultNext]_vaultVars
  PROVE  \/ Steps
         \/ DrainOne \/ Enrol
         \/ SendAlert \/ OpenVault \/ LogOpened \/ CloseVault
         \/ VaultDbProcess \/ DbNotify \/ DbAnswer
         \/ (\E m \in UserCommands : WebSend(m)) \/ WebTake
         \/ VaultDoorCloses \/ VaultReedSignal
         \/ VaultActStep \/ VaultStop \/ VaultDestroy
         \/ UNCHANGED vaultVars
BY DEF VaultNext, c_tVerifyVaultAccess, VaultSend, dDatabase, Steps

LEMMA VaultStepImplements ==
  ASSUME [VaultNext]_vaultVars
  PROVE  [Next]_vars
<1>1. CASE Steps
  BY <1>1, StepMoves DEF VaultMove
<1>2. CASE DrainOne \/ Enrol \/ DbNotify \/ VaultDoorCloses \/ VaultReedSignal
  BY <1>2 DEF DrainOne, Enrol, DbNotify, VaultDoorCloses, VaultReedSignal
<1>3. CASE SendAlert \/ LogOpened
  BY <1>3, VaultMsgTypes DEF SendAlert, LogOpened, Next
<1>4. CASE OpenVault \/ CloseVault
  BY <1>4, VaultMsgTypes DEF OpenVault, CloseVault, Next
<1>5. CASE VaultDbProcess
  BY <1>5 DEF VaultDbProcess, Next
<1>6. CASE DbAnswer \/ WebTake
  BY <1>6 DEF DbAnswer, AnswerWeb, WebTake, WebReceive
<1>7. ASSUME NEW m \in UserCommands, WebSend(m) PROVE Next
  BY <1>7, VaultMsgTypes DEF WebSend, WebRequest, Next
<1>8. CASE VaultActStep \/ VaultStop \/ VaultDestroy
  BY <1>8 DEF VaultActStep, VaultStop, VaultDestroy, Next
<1>9. CASE UNCHANGED vaultVars
  BY <1>9 DEF vaultVars
<1> QED BY <1>1, <1>2, <1>3, <1>4, <1>5, <1>6, <1>7, <1>8, <1>9, VaultSteps

(* The thread and the daemon with its user handlers do only what Actuation  *)
(* allows its open environment.                                             *)
THEOREM VaultRefinesActuation == VaultSpec => VaultImplementsActuation
<1>1. VaultInit => Init
  BY DEF VaultInit
<1>2. [VaultNext]_vaultVars => [Next]_vars
  BY VaultStepImplements
<1> QED BY <1>1, <1>2, PTL DEF VaultSpec, Spec, VaultImplementsActuation

(* With the vault's threads, too, a sounding alarm is guarded and the       *)
(* Actuators table follows the hardware.                                    *)
THEOREM VaultAlarmAndTable ==
  VaultSpec => []AlarmGuarded /\ []TableFollowsHardware
BY VaultRefinesActuation, AlarmIsGuarded, TableIsTrue, PTL
   DEF VaultImplementsActuation

-----------------------------------------------------------------------------
(* The type invariant. *)

LEMMA FingerTypes ==
  /\ 0 \notin Fingers /\ 1 \in Fingers
  /\ \A f \in Fingers :
       /\ AddUser(f) \in FingerCommands /\ AddUser(f) # NoCommand
       /\ AddUser(f).command = "ADD_USER" /\ AddUser(f).userId = f
       /\ DeleteUser(f) \in FingerCommands /\ DeleteUser(f) # NoCommand
       /\ DeleteUser(f).command = "DELETE_USER" /\ DeleteUser(f).userId = f
  /\ NoCommand \notin FingerCommands
  /\ \A c \in FingerCommands :
       c.userId \in Fingers /\ c.command \in {"ADD_USER", "DELETE_USER"}
<1>1. 0 \notin Fingers /\ 1 \in Fingers
  BY UsersAssumption DEF AdminFinger
<1> QED BY <1>1 DEF AddUser, DeleteUser, FingerCommands, NoCommand, NoFinger

LEMMA FingerOfTyped ==
  ASSUME UsersTypeOK, NEW id
  PROVE  FingerOf(id) \in Fingers \union {NoFinger}
BY DEF UsersTypeOK, Row, FingerOf

LEMMA CommandTyped ==
  ASSUME UsersTypeOK, NEW m \in UserMsgs
  PROVE  CommandFor(m) \in FingerCommands \union {NoCommand}
<1>1. CASE m.type \in {"CREATE_USER", "MODIFY_USER"} /\ m.user \in UserData
  <2>1. m.user.finger # NoFinger => AddUser(m.user.finger) \in FingerCommands
    BY <1>1, UserDataFields, FingerTypes
  <2> QED BY <1>1, <2>1 DEF CommandFor
<1>2. CASE m.type = "REMOVE_USER"
  <2>1. FingerOf(m.userId) # NoFinger => DeleteUser(FingerOf(m.userId)) \in FingerCommands
    BY FingerOfTyped, FingerTypes
  <2> QED BY <1>2, <2>1 DEF CommandFor
<1>3. CASE m.type = "REGISTER_USER"
  BY <1>3 DEF CommandFor
<1> QED BY <1>1, <1>2, <1>3, UserMsgKinds

(* What VaultTypeOK says beyond Actuation and the Users table, and that the *)
(* thread enrols only a finger it was told.                                 *)
OwnTypeOK ==
  /\ WebTypeOK
  /\ vaultAt \in Places
  /\ pendingAdd \in Fingers \union {NoFinger}
  /\ templates \subseteq {Slot(f) : f \in Fingers}
  /\ mqFinger \in Seq(FingerCommands)
  /\ Len(mqFinger) <= FingerCap
  /\ dbCommand \in FingerCommands \union {NoCommand}
  /\ dbCommand # NoCommand => dbAnswers
  /\ vaultReeds \in 0..MaxReed
  /\ vaultAt = "enrol" => pendingAdd # NoFinger

LEMMA OwnInitTyped == VaultInit => OwnTypeOK
<1> SUFFICES ASSUME VaultInit PROVE OwnTypeOK
  OBVIOUS
<1>1. WebTypeOK
  <2>1. webReplies \in 0..WebCap /\ requests \in 0..MaxRequests
    BY WebLinkAssumption DEF VaultInit, WebInit
  <2> QED BY <2>1 DEF VaultInit, WebInit, WebTypeOK
<1>2. mqFinger \in Seq(FingerCommands) /\ Len(mqFinger) <= FingerCap
  BY EmptySeq, VaultAssumption DEF VaultInit
<1>3. templates \subseteq {Slot(f) : f \in Fingers}
  BY UsersAssumption DEF VaultInit
<1>4. vaultAt \in Places
  BY DEF VaultInit, Places
<1>5. vaultReeds \in 0..MaxReed
  BY VaultAssumption DEF VaultInit
<1> QED BY <1>1, <1>2, <1>3, <1>4, <1>5 DEF VaultInit, OwnTypeOK

LEMMA OwnNextTyped ==
  ASSUME OwnTypeOK, UsersTypeOK, [VaultNext]_vaultVars
  PROVE  OwnTypeOK'
<1> USE DEF OwnTypeOK
<1>a. UNCHANGED webVars => (WebTypeOK <=> WebTypeOK')
  BY DEF webVars, WebTypeOK
<1>b. UNCHANGED fingerVars => UNCHANGED <<mqFinger, dbCommand>>
  BY DEF fingerVars
<1>1. CASE Steps
  <2>1. PICK from, to \in Places :
           VaultMove(from, to) /\ (to = "enrol" => pendingAdd # NoFinger)
    BY <1>1, StepMoves
  <2> QED BY <2>1, <1>a, <1>b DEF VaultMove, sensorVars, webVars
<1>2. CASE DrainOne
  <2>1. /\ Head(mqFinger) \in FingerCommands
        /\ Tail(mqFinger) \in Seq(FingerCommands)
        /\ Len(Tail(mqFinger)) = Len(mqFinger) - 1
        /\ Len(mqFinger) \in Nat
    BY <1>2, TailElements DEF DrainOne
  <2>2. mqFinger' \in Seq(FingerCommands) /\ Len(mqFinger') <= FingerCap
    BY <1>2, <2>1, VaultAssumption DEF DrainOne
  <2>3. Head(mqFinger).userId \in Fingers
    BY <2>1, FingerTypes
  <2>4. /\ pendingAdd' \in Fingers \union {NoFinger}
        /\ templates' \subseteq {Slot(f) : f \in Fingers}
    BY <1>2, <2>3 DEF DrainOne, Deleted
  <2>5. UNCHANGED <<webVars, vaultAt, vaultReeds, dbCommand>> /\ vaultAt # "enrol"
    BY <1>2 DEF DrainOne, doorVars
  <2> QED BY <2>2, <2>4, <2>5, <1>a DEF webVars
<1>3. CASE Enrol
  <2>1. Slot(pendingAdd) \in {Slot(f) : f \in Fingers}
    BY <1>3 DEF Enrol
  <2>2. UNCHANGED <<webVars, vaultReeds, mqFinger, dbCommand>>
        /\ vaultAt' = "loop" /\ pendingAdd' = NoFinger
    BY <1>3 DEF Enrol, fingerVars
  <2>3. templates' \subseteq {Slot(f) : f \in Fingers}
    BY <1>3, <2>1 DEF Enrol
  <2> QED BY <2>2, <2>3, <1>a DEF Places, webVars
<1>4. CASE SendAlert \/ OpenVault \/ LogOpened \/ CloseVault
  <2>1. UNCHANGED <<webVars, vaultReeds, sensorVars, fingerVars>>
        /\ vaultAt' \in Places \ {"enrol"}
    BY <1>4 DEF SendAlert, OpenVault, LogOpened, CloseVault, Places
  <2> QED BY <2>1, <1>a, <1>b DEF sensorVars, webVars
<1>5. CASE VaultDbProcess
  <2>1. UNCHANGED <<webReplies, webWaits, requests, doorVars, sensorVars, mqFinger>>
    BY <1>5 DEF VaultDbProcess
  <2>2. \/ /\ dbCommand' \in FingerCommands \union {NoCommand}
           /\ dbAnswers' = TRUE
        \/ UNCHANGED <<dbCommand, dbAnswers>>
    BY <1>5, VaultAssumption, CommandTyped DEF VaultDbProcess
  <2> QED BY <2>1, <2>2 DEF WebTypeOK, doorVars, sensorVars
<1>6. CASE DbNotify
  <2>1. /\ dbCommand \in FingerCommands /\ Len(mqFinger) < FingerCap
        /\ mqFinger' = Append(mqFinger, dbCommand) /\ dbCommand' = NoCommand
        /\ UNCHANGED <<webVars, doorVars, sensorVars>>
    BY <1>6 DEF DbNotify
  <2>2. mqFinger' \in Seq(FingerCommands) /\ Len(mqFinger') <= FingerCap
    BY <2>1, AppendElements, LenProperties, VaultAssumption
  <2> QED BY <2>1, <2>2, <1>a DEF webVars, doorVars, sensorVars
<1>7. CASE DbAnswer
  <2>1. dbCommand = NoCommand /\ AnswerWeb /\ UNCHANGED coreVars
    BY <1>7 DEF DbAnswer
  <2>2. WebTypeOK'
    <3>1. webReplies' \in 0..WebCap
      BY <2>1, WebLinkAssumption DEF AnswerWeb, WebTypeOK
    <3> QED BY <2>1, <3>1 DEF AnswerWeb, WebTypeOK
  <2> QED BY <2>1, <2>2 DEF coreVars, doorVars, sensorVars, fingerVars
<1>8. ASSUME NEW m \in UserCommands, WebSend(m) PROVE OwnTypeOK'
  <2>1. WebRequest(m) /\ UNCHANGED coreVars
    BY <1>8 DEF WebSend
  <2>2. WebTypeOK' /\ dbAnswers' = dbAnswers
    BY <2>1, WebLinkAssumption DEF WebRequest, WebTypeOK
  <2> QED BY <2>1, <2>2 DEF coreVars, doorVars, sensorVars, fingerVars
<1>9. CASE WebTake
  <2>1. WebReceive /\ UNCHANGED coreVars
    BY <1>9 DEF WebTake
  <2>2. WebTypeOK' /\ dbAnswers' = dbAnswers
    <3>1. webReplies' \in 0..WebCap
      BY <2>1, WebLinkAssumption DEF WebReceive, WebTypeOK
    <3> QED BY <2>1, <3>1 DEF WebReceive, WebTypeOK
  <2> QED BY <2>1, <2>2 DEF coreVars, doorVars, sensorVars, fingerVars
<1>10. CASE VaultDoorCloses
  <2>1. UNCHANGED <<webVars, vaultAt, sensorVars, fingerVars>>
        /\ vaultReeds' \in 0..MaxReed
    BY <1>10, VaultAssumption DEF VaultDoorCloses
  <2> QED BY <2>1, <1>a, <1>b DEF webVars, sensorVars
<1>11. CASE VaultReedSignal
  <2>1. UNCHANGED <<webVars, sensorVars, fingerVars>>
        /\ vaultReeds' \in 0..MaxReed
    BY <1>11, VaultAssumption DEF VaultReedSignal
  <2>2. vaultAt' \in Places /\ (vaultAt' = "enrol" => vaultAt = "enrol")
    BY <1>11 DEF VaultReedSignal, Places
  <2> QED BY <2>1, <2>2, <1>a, <1>b DEF webVars, sensorVars
<1>12. CASE VaultActStep \/ VaultStop \/ VaultDestroy
  <2>1. UNCHANGED <<webVars, doorVars, sensorVars, fingerVars>>
    BY <1>12 DEF VaultActStep, VaultStop, VaultDestroy, VaultUnchanged, coreVars
  <2> QED BY <2>1, <1>a, <1>b DEF webVars, doorVars, sensorVars
<1>13. CASE UNCHANGED vaultVars
  BY <1>13, <1>a, <1>b DEF vaultVars, webVars, doorVars, sensorVars
<1> QED
  BY <1>1, <1>2, <1>3, <1>4, <1>5, <1>6, <1>7, <1>8, <1>9, <1>10, <1>11,
     <1>12, <1>13, VaultSteps

(* Only the daemon, working on a command of the web daemon, changes a row. *)
LEMMA TableChanges ==
  ASSUME [VaultNext]_vaultVars
  PROVE  \/ UNCHANGED usersVars
         \/ VaultDbProcess /\ Head(mqToDatabase) \in UserCommands
<1>1. CASE Steps
  BY <1>1, StepMoves DEF VaultMove
<1>2. CASE DrainOne \/ Enrol \/ SendAlert \/ OpenVault \/ LogOpened \/ CloseVault
           \/ DbNotify \/ VaultDoorCloses \/ VaultReedSignal
  BY <1>2 DEF DrainOne, Enrol, SendAlert, OpenVault, LogOpened, CloseVault,
     DbNotify, VaultDoorCloses, VaultReedSignal
<1>3. CASE VaultDbProcess
  BY <1>3 DEF VaultDbProcess
<1>4. CASE DbAnswer \/ WebTake \/ (\E m \in UserCommands : WebSend(m))
  BY <1>4 DEF DbAnswer, WebTake, WebSend, coreVars
<1>5. CASE VaultActStep \/ VaultStop \/ VaultDestroy
  BY <1>5 DEF VaultActStep, VaultStop, VaultDestroy, VaultUnchanged, coreVars
<1>6. CASE UNCHANGED vaultVars
  BY <1>6 DEF vaultVars
<1> QED BY <1>1, <1>2, <1>3, <1>4, <1>5, <1>6, VaultSteps

LEMMA UsersNext ==
  ASSUME UsersInv, [VaultNext]_vaultVars
  PROVE  UsersInv'
<1>1. CASE UNCHANGED usersVars
  BY <1>1 DEF usersVars, UsersInv, UsersTypeOK, LevelTellsCredentials,
     NobodyIsLockedOut, FingersUnique, computeAccessLevel, HasCredential
<1>2. CASE VaultDbProcess /\ Head(mqToDatabase) \in UserCommands
  <2>1. handleUserCommand(Head(mqToDatabase)) /\ Head(mqToDatabase) \in UserMsgs
    BY <1>2, VaultAssumption DEF VaultDbProcess
  <2> QED BY <2>1, UsersStep
<1> QED BY <1>1, <1>2, TableChanges

VaultTyped == TypeOK /\ HandOK /\ UsersInv /\ OwnTypeOK

LEMMA VaultTypedHolds == VaultSpec => []VaultTyped
<1>1. VaultInit => VaultTyped
  BY InitTyped, UsersInitSound, OwnInitTyped DEF VaultInit, VaultTyped
<1>2. VaultTyped /\ [VaultNext]_vaultVars => VaultTyped'
  BY NextTyped, VaultStepImplements, UsersNext, OwnNextTyped
     DEF VaultTyped, UsersInv
<1> QED BY <1>1, <1>2, PTL DEF VaultSpec

(* The thread, the daemon, the sensor and the table are well typed in every *)
(* reachable state, and the daemon sends the thread a command only while it *)
(* owes the web daemon an answer.                                           *)
THEOREM VaultTypeCorrect == VaultSpec => []VaultTypeOK
<1>1. VaultTyped => VaultTypeOK
  BY DEF VaultTyped, UsersInv, OwnTypeOK, VaultTypeOK
<1> QED BY <1>1, VaultTypedHolds, PTL

(* Through all changes, the level a login reads is that of the row's card   *)
(* and finger.                                                              *)
THEOREM LevelsTellCredentials == VaultSpec => []LevelTellsCredentials
<1>1. VaultTyped => LevelTellsCredentials
  BY DEF VaultTyped, UsersInv
<1> QED BY <1>1, VaultTypedHolds, PTL

(* Through all changes, every user has a password, a card or a finger.      *)
THEOREM EverybodyGetsIn == VaultSpec => []NobodyIsLockedOut
<1>1. VaultTyped => NobodyIsLockedOut
  BY DEF VaultTyped, UsersInv
<1> QED BY <1>1, VaultTypedHolds, PTL

-----------------------------------------------------------------------------
(* A free vault is held. *)

VaultHeld == vaultAt \in {"log", "door", "doorWait", "closed", "lock"}

(* Both loops end only after the stop; and while the vault is nobody's, its *)
(* servo is locked or about to be.                                          *)
VaultDoorInv ==
  /\ pc \in {"done", "destroyed"} => stopRequested
  /\ ~stopRequested /\ "SERVO_VAULT" \notin FaultyServos /\ ~VaultHeld
       => ServoSettled("SERVO_VAULT")

LEMMA VaultDoorStep ==
  ASSUME VaultTyped, VaultDoorInv, [VaultNext]_vaultVars
  PROVE  VaultDoorInv'
<1>a. TypeOK /\ HandOK
  BY DEF VaultTyped
<1>1. /\ (pc \in {"done", "destroyed"} => stopRequested)'
      /\ stopRequested => stopRequested'
  BY VaultStepImplements, StopStep DEF VaultDoorInv
<1> SUFFICES ASSUME ~stopRequested', "SERVO_VAULT" \notin FaultyServos, ~VaultHeld'
             PROVE  ServoSettled("SERVO_VAULT")'
  BY <1>1 DEF VaultDoorInv
<1>b. ~stopRequested
  BY <1>1
<1>c. ~VaultHeld => ServoSettled("SERVO_VAULT")
  BY <1>b DEF VaultDoorInv
<1>d. ASSUME UNCHANGED <<mqToActuator, pc, cmd, hw>>, ~VaultHeld
      PROVE  ServoSettled("SERVO_VAULT")'
  BY <1>c, <1>d, ServoQuiet
<1>2. CASE Steps
  <2>1. PICK from, to \in Places :
           /\ VaultMove(from, to)
           /\ from \in {"door", "doorWait", "closed"} =>
                \/ to \in {"door", "doorWait", "lock"}
                \/ stopRequested
           /\ from \notin {"log", "lock"}
    BY <1>2, StepMoves
  <2>2. vaultAt = from /\ vaultAt' = to /\ UNCHANGED vars
    BY <2>1 DEF VaultMove
  <2>3. ~VaultHeld
    BY <1>b, <2>1, <2>2 DEF VaultHeld
  <2> QED BY <1>d, <2>2, <2>3 DEF vars
<1>3. CASE DrainOne \/ Enrol \/ SendAlert
  <2>1. /\ vaultAt \in {"drain", "enrol", "alert"}
        /\ UNCHANGED <<mqToActuator, pc, cmd, hw>>
    BY <1>3 DEF DrainOne, Enrol, SendAlert, SendOther, vars
  <2> QED BY <1>d, <2>1 DEF VaultHeld
<1>4. CASE OpenVault \/ LogOpened
  BY <1>4 DEF OpenVault, LogOpened, VaultHeld
<1>5. CASE CloseVault
  <2>1. LockVault = LockOf("SERVO_VAULT")
    BY DEF LockVault, LockOf
  <2> QED BY <1>5, <1>a, <2>1, ServoPost, VaultMsgTypes DEF CloseVault, Submit
<1>6. CASE \/ VaultDbProcess \/ DbNotify \/ DbAnswer \/ WebTake
           \/ (\E m \in UserCommands : WebSend(m))
           \/ VaultDoorCloses \/ VaultStop \/ UNCHANGED vaultVars
  <2>1. UNCHANGED <<vaultAt, mqToActuator, pc, cmd, hw>>
    BY <1>6 DEF VaultDbProcess, DbTake, DbNotify, DbAnswer, AnswerWeb, WebTake,
       WebReceive, WebSend, WebRequest, SendOther, VaultDoorCloses, VaultStop,
       RequestStop, VaultUnchanged, vaultVars, coreVars, doorVars, vars
  <2> QED BY <1>d, <2>1 DEF VaultHeld
<1>7. CASE VaultReedSignal
  <2>1. UNCHANGED vars /\ ~VaultHeld
    BY <1>7 DEF VaultReedSignal, VaultHeld
  <2> QED BY <1>d, <2>1 DEF vars
<1>8. CASE VaultActStep
  <2>1. tAct /\ vaultAt' = vaultAt
    BY <1>8 DEF VaultActStep, VaultUnchanged, coreVars, doorVars
  <2>2. ServoSettled("SERVO_VAULT")
    BY <1>c, <2>1 DEF VaultHeld
  <2> QED BY <1>a, <2>1, <2>2, ServoActStep DEF Servos
<1>9. CASE VaultDestroy
  BY <1>9, <1>b DEF VaultDestroy, Destroy, VaultDoorInv
<1> QED BY <1>2, <1>3, <1>4, <1>5, <1>6, <1>7, <1>8, <1>9, VaultSteps

(* A free vault is the thread's to lock, or its lock command is under way,  *)
(* whatever commands and touches come meanwhile.                            *)
THEOREM FreeVaultIsAlwaysHeld == VaultSpec => []FreeVaultIsHeld
<1>1. VaultInit => VaultDoorInv
  <2> SUFFICES ASSUME VaultInit PROVE VaultDoorInv
    OBVIOUS
  <2>1. pc = "check" /\ ServoSettled("SERVO_VAULT")
    BY ServoInit DEF VaultInit, Init, Servos
  <2> QED BY <2>1 DEF VaultDoorInv
<1>2. VaultTyped /\ VaultDoorInv /\ [VaultNext]_vaultVars => VaultDoorInv'
  BY VaultDoorStep
<1>3. VaultDoorInv => FreeVaultIsHeld
  BY SettledIsLocking DEF VaultDoorInv, FreeVaultIsHeld, VaultHeld,
     VaultLockUnderWay, LockVault, LockOf
<1> QED BY <1>1, <1>2, <1>3, VaultTypedHolds, PTL DEF VaultSpec

-----------------------------------------------------------------------------
(* The last command about a finger tells the table. *)

(* What a command does to the table, and the command the daemon then sends: *)
(* the fingers of the table change at most by the one it tells.             *)
LEMMA CommandTells ==
  ASSUME UsersInv, NEW m \in UserMsgs, handleUserCommand(m),
         NEW c, c = CommandFor(m)
  PROVE  /\ c # NoCommand => (c.command = "ADD_USER" <=> HasFinger(c.userId)')
         /\ \A f \in Fingers :
              c = NoCommand \/ c.userId # f => (HasFinger(f)' <=> HasFinger(f))
<1>a. UsersTypeOK /\ FingersUnique /\ 0 \notin Fingers
  BY FingerTypes DEF UsersInv
<1>b. ASSUME UNCHANGED usersVars, c = NoCommand
      PROVE  /\ c # NoCommand => (c.command = "ADD_USER" <=> HasFinger(c.userId)')
             /\ \A f \in Fingers :
                  c = NoCommand \/ c.userId # f => (HasFinger(f)' <=> HasFinger(f))
  BY <1>b DEF usersVars, HasFinger
<1>c. ASSUME NEW row, Inserted(row)
      PROVE  \A f \in Fingers : HasFinger(f)' <=> HasFinger(f) \/ row.finger = f
  <2>1. Insert(row)
    BY <1>c DEF Inserted
  <2> QED BY <1>a, <2>1, InsertRows DEF HasFinger
<1>d. ASSUME NEW id, NEW row, Changed(id, row)
      PROVE  \A f \in Fingers : HasFinger(f)' <=> HasFinger(f) \/ row.finger = f
  <2>1. /\ id \in DOMAIN users /\ DOMAIN users' = DOMAIN users
        /\ \A i \in DOMAIN users \ {id} : users'[i] = users[i]
        /\ users'[id] = row
        /\ row.finger = users[id].finger \/ users[id].finger = 0
    BY <1>d DEF Changed, NoFinger
  <2> QED BY <1>a, <2>1 DEF HasFinger
<1>1. CASE m.type = "CREATE_USER" /\ m.user \in UserData
  <2> PICK u : u = m.user
    OBVIOUS
  <2>1. handleCreateUser(u) /\ u \in UserData
    BY <1>1, HandledByKind
  <2>2. CASE ~CreateOK(u)
    BY <1>1, <1>b, <2>1, <2>2 DEF handleCreateUser, CommandFor
  <2>3. CASE CreateOK(u)
    <3> PICK row : row = [name |-> u.name, card |-> u.card, finger |-> u.finger,
                          level |-> computeAccessLevel(u.card, u.finger),
                          password |-> FALSE]
      OBVIOUS
    <3>1. Inserted(row) /\ row.finger = u.finger
      BY <1>a, <2>1, <2>3, CreateStep
    <3>2. c = IF u.finger # NoFinger THEN AddUser(u.finger) ELSE NoCommand
      BY <1>1, <2>3 DEF CommandFor
    <3>3. u.finger \in Fingers \union {NoFinger}
      BY <2>1, UserDataFields
    <3> QED BY <1>a, <1>c, <3>1, <3>2, <3>3, FingerTypes DEF NoFinger
  <2> QED BY <2>2, <2>3
<1>2. CASE m.type = "MODIFY_USER" /\ m.user \in UserData
  <2> PICK u : u = m.user
    OBVIOUS
  <2>1. handleModifyUser(u) /\ u \in UserData
    BY <1>2, HandledByKind
  <2>2. CASE ~ModifyOK(u)
    BY <1>2, <1>b, <2>1, <2>2 DEF handleModifyUser, CommandFor
  <2>3. CASE ModifyOK(u)
    <3>1. PICK row : Changed(u.userID, row) /\ row.finger = FinalFinger(u)
      BY <1>a, <2>1, <2>3, ModifyStep
    <3>2. c = IF u.finger # NoFinger /\ FingerOf(u.userID) = NoFinger
              THEN AddUser(u.finger) ELSE NoCommand
      BY <1>2, <2>3 DEF CommandFor
    <3>3. u.finger \in Fingers \union {NoFinger}
      BY <2>1, UserDataFields
    <3>4. \A f \in Fingers : HasFinger(f)' <=> HasFinger(f) \/ row.finger = f
      BY <1>d, <3>1
    <3>5. CASE FingerOf(u.userID) = NoFinger
      BY <1>a, <3>1, <3>2, <3>3, <3>4, <3>5, FingerTypes DEF NoFinger, FinalFinger
    <3>6. CASE FingerOf(u.userID) # NoFinger
      <4>1. row.finger = FingerOf(u.userID) /\ HasFinger(row.finger)
        BY <2>3, <3>1, <3>6 DEF FinalFinger, FingerOf, HasFinger, ModifyOK
      <4> QED BY <3>2, <3>4, <3>6, <4>1
    <3> QED BY <3>5, <3>6
  <2> QED BY <2>2, <2>3
<1>3. CASE m.type = "REMOVE_USER"
  <2> PICK id : id = m.userId
    OBVIOUS
  <2>1. handleRemoveUser(id)
    BY <1>3, HandledByKind
  <2>2. c = IF id # Admin /\ FingerOf(id) # NoFinger
            THEN DeleteUser(FingerOf(id)) ELSE NoCommand
    BY <1>3 DEF CommandFor
  <2>3. CASE id = Admin
    BY <1>b, <2>1, <2>2, <2>3 DEF handleRemoveUser, usersVars
  <2>4. CASE id # Admin
    <3>1. /\ DOMAIN users' = DOMAIN users \ {id}
          /\ \A i \in DOMAIN users \ {id} : users'[i] = users[i]
      BY <2>1, <2>4 DEF handleRemoveUser
    <3>2. CASE FingerOf(id) = NoFinger
      <4>1. \A f \in Fingers : HasFinger(f)' <=> HasFinger(f)
        BY <1>a, <3>1, <3>2 DEF HasFinger, FingerOf, NoFinger
      <4> QED BY <2>2, <3>2, <4>1
    <3>3. CASE FingerOf(id) # NoFinger
      <4> PICK f : f = FingerOf(id)
        OBVIOUS
      <4>1. id \in DOMAIN users /\ f = users[id].finger /\ f \in Fingers
        BY <1>a, <3>3, FingerOfTyped DEF FingerOf
      <4>2. c.command = "DELETE_USER" /\ c.userId = f
        BY <2>2, <2>4, <3>3, <4>1, FingerTypes
      <4>3. ~HasFinger(f)'
        <5> SUFFICES ASSUME NEW i \in DOMAIN users', users'[i].finger = f
                     PROVE  FALSE
          BY DEF HasFinger
        <5> QED BY <1>a, <3>1, <3>3, <4>1 DEF FingersUnique
      <4>4. \A g \in Fingers \ {f} : HasFinger(g)' <=> HasFinger(g)
        BY <3>1, <4>1 DEF HasFinger
      <4>5. ~(c.command = "ADD_USER") /\ ~HasFinger(c.userId)'
        BY <4>2, <4>3
      <4>6. \A g \in Fingers : c.userId # g => (HasFinger(g)' <=> HasFinger(g))
        BY <4>2, <4>4
      <4>7. c # NoCommand
        BY <4>1, <4>2, FingerTypes DEF NoCommand
      <4> QED BY <4>5, <4>6, <4>7
    <3> QED BY <3>2, <3>3
  <2> QED BY <2>3, <2>4
<1>4. CASE m.type = "REGISTER_USER" /\ m.name \in Names
  <2>1. c = NoCommand
    BY <1>4 DEF CommandFor
  <2>2. handleRegisterUser(m.name)
    BY <1>4, HandledByKind
  <2>3. CASE UNCHANGED usersVars
    BY <1>b, <2>1, <2>3
  <2>4. ASSUME NEW row, Inserted(row), row.finger = NoFinger
        PROVE  \A f \in Fingers : HasFinger(f)' <=> HasFinger(f)
    BY <1>a, <1>c, <2>4 DEF NoFinger
  <2> QED BY <1>4, <2>1, <2>2, <2>3, <2>4, RegisterStep
<1> QED BY <1>1, <1>2, <1>3, <1>4, UserMsgKinds

(* LastCommandTellsTable of the commands q. *)
Tells(q) ==
  \A i \in 1..Len(q) :
    (\A j \in (i + 1)..Len(q) : q[j].userId # q[i].userId)
      => (q[i].command = "ADD_USER" <=> HasFinger(q[i].userId))

LEMMA TellsUnderWay == LastCommandTellsTable <=> Tells(UnderWay)
BY DEF LastCommandTellsTable, Tells

LEMMA UnderWayTyped ==
  ASSUME OwnTypeOK
  PROVE  UnderWay \in Seq(FingerCommands)
<1>1. dbCommand # NoCommand => Append(mqFinger, dbCommand) \in Seq(FingerCommands)
  BY AppendElements DEF OwnTypeOK
<1> QED BY <1>1 DEF OwnTypeOK, UnderWay

(* The thread takes a command. *)
LEMMA TellsAfterTake ==
  ASSUME NEW q \in Seq(FingerCommands), q # << >>, Tells(q), UNCHANGED users
  PROVE  Tells(Tail(q))'
<1> PICK r : r = Tail(q)
  OBVIOUS
<1>1. /\ Len(q) \in Nat \ {0} /\ Len(r) = Len(q) - 1
      /\ \A i \in 1..(Len(q) - 1) : r[i] = q[i + 1]
  BY TailElements
<1> SUFFICES ASSUME NEW i \in 1..Len(r),
                    \A j \in (i + 1)..Len(r) : r[j].userId # r[i].userId
             PROVE  r[i].command = "ADD_USER" <=> HasFinger(r[i].userId)'
  BY DEF Tells
<1>2. i + 1 \in 1..Len(q) /\ r[i] = q[i + 1]
  BY <1>1
<1>3. ASSUME NEW j \in ((i + 1) + 1)..Len(q) PROVE q[j].userId # q[i + 1].userId
  <2>1. j - 1 \in (i + 1)..Len(r) /\ j - 1 \in 1..(Len(q) - 1) /\ (j - 1) + 1 = j
    BY <1>1
  <2>2. r[j - 1] = q[j]
    BY <1>1, <2>1
  <2> QED BY <1>2, <2>1, <2>2
<1>4. q[i + 1].command = "ADD_USER" <=> HasFinger(q[i + 1].userId)
  BY <1>2, <1>3 DEF Tells
<1> QED BY <1>2, <1>4 DEF HasFinger

(* The daemon changes the table and has a command to send. *)
LEMMA TellsAfterCommand ==
  ASSUME NEW q \in Seq(FingerCommands), NEW c \in FingerCommands, Tells(q),
         c.command = "ADD_USER" <=> HasFinger(c.userId)',
         \A f \in Fingers : c.userId # f => (HasFinger(f)' <=> HasFinger(f))
  PROVE  Tells(Append(q, c))'
<1> PICK r, n : r = Append(q, c) /\ n = Len(q)
  OBVIOUS
<1>1. /\ n \in Nat /\ Len(r) = n + 1
      /\ \A i \in 1..n : r[i] = q[i]
      /\ r[n + 1] = c
  BY AppendElements, LenProperties
<1> SUFFICES ASSUME NEW i \in 1..Len(r),
                    \A j \in (i + 1)..Len(r) : r[j].userId # r[i].userId
             PROVE  r[i].command = "ADD_USER" <=> HasFinger(r[i].userId)'
  BY DEF Tells
<1>2. CASE i = n + 1
  <2>1. r[i] = c
    BY <1>1, <1>2
  <2> QED BY <2>1
<1>3. CASE i \in 1..n
  <2>1. r[i] = q[i] /\ n + 1 \in (i + 1)..Len(r)
    BY <1>1, <1>3
  <2>2. c.userId # q[i].userId
    BY <1>1, <2>1
  <2>3. q[i].userId \in Fingers
    BY <1>3, ElementOfSeq, FingerTypes
  <2>4. ASSUME NEW j \in (i + 1)..n PROVE q[j].userId # q[i].userId
    <3>1. j \in (i + 1)..Len(r) /\ j \in 1..n
      BY <1>1, <1>3
    <3> QED BY <1>1, <2>1, <3>1
  <2>5. q[i].command = "ADD_USER" <=> HasFinger(q[i].userId)
    BY <1>3, <2>4 DEF Tells
  <2>6. HasFinger(q[i].userId)' <=> HasFinger(q[i].userId)
    BY <2>2, <2>3
  <2> QED BY <2>1, <2>5, <2>6
<1> QED BY <1>1, <1>2, <1>3

(* The table changes, but no finger of a command under way. *)
LEMMA TellsAfterNone ==
  ASSUME NEW q \in Seq(FingerCommands), Tells(q),
         \A f \in Fingers : HasFinger(f)' <=> HasFinger(f)
  PROVE  Tells(q)'
<1>1. \A i \in 1..Len(q) : q[i].userId \in Fingers
  BY ElementOfSeq, FingerTypes
<1> QED BY <1>1 DEF Tells

LEMMA LastCommandStep ==
  ASSUME VaultTyped, LastCommandTellsTable, [VaultNext]_vaultVars
  PROVE  LastCommandTellsTable'
<1> PICK q, r : q = UnderWay /\ r = UnderWay'
  OBVIOUS
<1>a. q \in Seq(FingerCommands) /\ Tells(q)
  BY UnderWayTyped, TellsUnderWay DEF VaultTyped
<1> SUFFICES Tells(r)'
  BY DEF LastCommandTellsTable, Tells
<1>b. ASSUME UNCHANGED <<users, mqFinger, dbCommand>> PROVE Tells(r)'
  <2>1. r = q
    BY <1>b DEF UnderWay
  <2> QED BY <1>a, <1>b, <2>1 DEF Tells, HasFinger
<1>1. CASE Steps
  BY <1>1, <1>b, StepMoves DEF VaultMove, usersVars, fingerVars
<1>2. CASE DrainOne
  <2>1. /\ mqFinger # << >> /\ mqFinger' = Tail(mqFinger)
        /\ UNCHANGED <<users, dbCommand>>
    BY <1>2 DEF DrainOne, usersVars
  <2>2. q # << >> /\ r = Tail(q)
    <3>1. CASE dbCommand = NoCommand
      BY <2>1, <3>1 DEF UnderWay
    <3>2. CASE dbCommand # NoCommand
      BY <2>1, <3>2 DEF UnderWay, VaultTyped, OwnTypeOK
    <3> QED BY <3>1, <3>2
  <2> QED BY <1>a, <2>1, <2>2, TellsAfterTake
<1>3. CASE VaultDbProcess
  <2> PICK m, c : m = Head(mqToDatabase) /\ c = CommandFor(m)
    OBVIOUS
  <2>1. dbCommand = NoCommand /\ mqFinger' = mqFinger /\ q = mqFinger
    BY <1>3 DEF VaultDbProcess, UnderWay
  <2>2. CASE m \notin UserCommands
    BY <1>3, <1>b, <2>2 DEF VaultDbProcess, usersVars
  <2>3. CASE m \in UserCommands
    <3>1. m \in UserMsgs /\ handleUserCommand(m) /\ dbCommand' = c
      BY <1>3, <2>3, VaultAssumption DEF VaultDbProcess
    <3>2. /\ c # NoCommand => (c.command = "ADD_USER" <=> HasFinger(c.userId)')
          /\ \A f \in Fingers :
               c = NoCommand \/ c.userId # f => (HasFinger(f)' <=> HasFinger(f))
      BY <3>1, CommandTells DEF VaultTyped
    <3>3. CASE c = NoCommand
      <4>1. r = q
        BY <2>1, <3>1, <3>3 DEF UnderWay
      <4>2. \A f \in Fingers : HasFinger(f)' <=> HasFinger(f)
        BY <3>2, <3>3
      <4> QED BY <1>a, <4>1, <4>2, TellsAfterNone
    <3>4. CASE c # NoCommand
      <4>1. r = Append(q, c)
        BY <2>1, <3>1, <3>4 DEF UnderWay
      <4>2. c \in FingerCommands
        BY <3>1, <3>4, CommandTyped DEF VaultTyped, UsersInv
      <4>3. c.command = "ADD_USER" <=> HasFinger(c.userId)'
        BY <3>2, <3>4
      <4>4. \A f \in Fingers : c.userId # f => (HasFinger(f)' <=> HasFinger(f))
        BY <3>2
      <4> QED BY <1>a, <4>1, <4>2, <4>3, <4>4, TellsAfterCommand
    <3> QED BY <3>3, <3>4
  <2> QED BY <2>2, <2>3
<1>4. CASE DbNotify
  <2>1. r = q /\ UNCHANGED users
    BY <1>4 DEF DbNotify, UnderWay, usersVars
  <2> QED BY <1>a, <2>1 DEF Tells, HasFinger
<1>5. CASE \/ Enrol \/ SendAlert \/ OpenVault \/ LogOpened \/ CloseVault
           \/ VaultDoorCloses \/ VaultReedSignal
  BY <1>5, <1>b DEF Enrol, SendAlert, OpenVault, LogOpened, CloseVault,
     VaultDoorCloses, VaultReedSignal, usersVars, fingerVars
<1>6. CASE \/ DbAnswer \/ WebTake \/ (\E m \in UserCommands : WebSend(m))
           \/ VaultActStep \/ VaultStop \/ VaultDestroy \/ UNCHANGED vaultVars
  BY <1>6, <1>b DEF DbAnswer, WebTake, WebSend, VaultActStep, VaultStop,
     VaultDestroy, VaultUnchanged, vaultVars, coreVars, usersVars, fingerVars
<1> QED BY <1>1, <1>2, <1>3, <1>4, <1>5, <1>6, VaultSteps

(* A thread that has taken every command knows of each finger whether the   *)
(* table still has it, though table and queue change in two steps.          *)
THEOREM LastCommandIsTrue == VaultSpec => []LastCommandTellsTable
<1>1. VaultInit => LastCommandTellsTable
  BY EmptySeq DEF VaultInit, LastCommandTellsTable, UnderWay
<1>2. VaultTyped /\ LastCommandTellsTable /\ [VaultNext]_vaultVars
        => LastCommandTellsTable'
  BY LastCommandStep
<1> QED BY <1>1, <1>2, VaultTypedHolds, PTL DEF VaultSpec
=============================================================================
