------------------------------- MODULE Users -------------------------------
(***************************************************************************)
(* The Users table of the database daemon and the handlers that change it: *)
(* handleCreateUser, handleModifyUser, handleRemoveUser and                *)
(* handleRegisterUser. A row is a user of the web pages (with a password), *)
(* of the room (with a card), of the vault (with a finger), or several of  *)
(* these. IsInside is left to module RoomAccess, and the commands the      *)
(* handlers send to the vault thread to module VaultAccess.                *)
(***************************************************************************)
EXTENDS Naturals

CONSTANTS
  Names,      \* user names of this instance, AdminName among them
  AdminName,  \* "admin"
  Cards,      \* RFID cards
  NoCard,     \* RFID_Card IS NULL
  Fingers,    \* fingerprint IDs the web pages may ask for, 1 among them
  MaxUserId   \* bound: the last UserID a request of this instance names

NoFinger    == 0
Admin       == 1
AdminFinger == 1

UserIds == 1..MaxUserId

Row == [name : Names, card : Cards \union {NoCard},
        finger : Fingers \union {NoFinger}, level : {0, 1, 2},
        password : BOOLEAN]

(* The UserData of a request; userID matters to handleModifyUser only. *)
UserData == [userID : UserIds, name : Names, card : Cards \union {NoCard},
             finger : Fingers \union {NoFinger}]

ASSUME UsersAssumption ==
  /\ AdminName \in Names
  /\ NoCard \notin Cards
  /\ Fingers \subseteq Nat \ {0}
  /\ AdminFinger \in Fingers
  /\ MaxUserId \in Nat \ {0}

VARIABLES
  users,       \* the rows, by UserID
  lastUserId   \* AUTOINCREMENT: the last UserID ever given

usersVars == <<users, lastUserId>>

AdminRow == [name |-> AdminName, card |-> NoCard, finger |-> AdminFinger,
             level |-> 2, password |-> TRUE]

UsersInit ==
  /\ users = [i \in {Admin} |-> AdminRow]
  /\ lastUserId = Admin

-----------------------------------------------------------------------------
HasCredential(card, finger) == card # NoCard \/ finger # NoFinger

computeAccessLevel(card, finger) ==
  IF card = NoCard THEN 0 ELSE IF finger = NoFinger THEN 1 ELSE 2

(* RFID_Card and FingerprintID are UNIQUE, NULLs apart. *)
Taken(card, finger, self) ==
  \E i \in DOMAIN users \ {self} :
    \/ card # NoCard /\ users[i].card = card
    \/ finger # NoFinger /\ users[i].finger = finger

FingerOf(id) == IF id \in DOMAIN users THEN users[id].finger ELSE NoFinger

(* AUTOINCREMENT: no UserID is given twice. *)
Insert(row) ==
  /\ lastUserId' = lastUserId + 1
  /\ users' = [i \in DOMAIN users \union {lastUserId + 1} |->
                 IF i \in DOMAIN users THEN users[i] ELSE row]

(* A definition with a two-part name is a plausible bug of the one after    *)
(* it.                                                                      *)
CreateOK_NoCredentialCheck(u) == ~Taken(u.card, u.finger, 0)

CreateOK(u) ==
  HasCredential(u.card, u.finger) /\ ~Taken(u.card, u.finger, 0)

handleCreateUser(u) ==
  IF CreateOK(u)
  THEN Insert([name |-> u.name, card |-> u.card, finger |-> u.finger,
               level |-> computeAccessLevel(u.card, u.finger),
               password |-> FALSE])
  ELSE UNCHANGED usersVars

(* A finger once given is kept. *)
FinalFinger(u) ==
  IF FingerOf(u.userID) = NoFinger THEN u.finger ELSE FingerOf(u.userID)

ModifyOK(u) ==
  /\ u.userID \in DOMAIN users \ {Admin}
  /\ HasCredential(u.card, FinalFinger(u))
  /\ ~Taken(u.card, FinalFinger(u), u.userID)

handleModifyUser_KeepsLevel(u) ==
  IF ModifyOK(u)
  THEN /\ users' = [users EXCEPT ![u.userID] =
                      [@ EXCEPT !.name = u.name, !.card = u.card,
                                !.finger = FinalFinger(u)]]
       /\ UNCHANGED lastUserId
  ELSE UNCHANGED usersVars

handleModifyUser(u) ==
  IF ModifyOK(u)
  THEN /\ users' = [users EXCEPT ![u.userID] =
                      [@ EXCEPT !.name = u.name, !.card = u.card,
                                !.finger = FinalFinger(u),
                                !.level = computeAccessLevel(u.card, FinalFinger(u))]]
       /\ UNCHANGED lastUserId
  ELSE UNCHANGED usersVars

(* A DELETE of a row that is not there succeeds as well. *)
handleRemoveUser(id) ==
  /\ users' = IF id = Admin THEN users
              ELSE [i \in DOMAIN users \ {id} |-> users[i]]
  /\ UNCHANGED lastUserId

handleRegisterUser(name) ==
  IF \E i \in DOMAIN users : users[i].name = name
  THEN UNCHANGED usersVars
  ELSE Insert([name |-> name, card |-> NoCard, finger |-> NoFinger,
               level |-> 0, password |-> TRUE])

-----------------------------------------------------------------------------
(* Rows are well formed; only UserIDs once given are in use. *)
UsersTypeOK ==
  /\ DOMAIN users \subseteq 1..lastUserId
  /\ \A i \in DOMAIN users : users[i] \in Row
  /\ lastUserId \in Nat \ {0}

(* The AccessLevel a login reads from the table is the one handleGetUsers   *)
(* derives from the card and the finger, through all changes of either;     *)
(* only the seeded admin has a level of its own (dDatabase.cpp:963-965,     *)
(* 1085-1087, 552).                                                         *)
LevelTellsCredentials ==
  \A i \in DOMAIN users \ {Admin} :
    users[i].level = computeAccessLevel(users[i].card, users[i].finger)

(* No row is out of everybody's reach: a user who cannot log in has a card  *)
(* or a finger, whatever is taken from the row (dDatabase.cpp:996-1003,     *)
(* 1089-1096).                                                              *)
NobodyIsLockedOut ==
  \A i \in DOMAIN users :
    users[i].password \/ HasCredential(users[i].card, users[i].finger)
=============================================================================
