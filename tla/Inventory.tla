----------------------------- MODULE Inventory -----------------------------
(***************************************************************************)
(* The inventory of the vault: when the vault closes, the thread           *)
(* C_tInventoryScan has the tags in it read and sends them, and then a     *)
(* time-stamped log, to the database daemon. The daemon stamps the assets  *)
(* with its own clock and shows as Inside those it stamped no earlier than *)
(* the newest log, while the web pages create and remove assets. Names of  *)
(* assets and the answers to the web pages are left out.                   *)
(***************************************************************************)
EXTENDS Naturals, Sequences, FiniteSets

CONSTANTS
  Tags,     \* RFID tags
  MaxTags,  \* MAX_TAGS: how many a reading holds (4)
  DbCap,    \* capacity of mq_to_db (20)
  MaxTime   \* bound: the last second of this instance

UpdateAsset(ts)    == [type |-> "UPDATE_ASSET", tags |-> ts]
InventoryLog(time) == [type |-> "LOG_INVENTORY", timestamp |-> time]
CreateAsset(t)     == [type |-> "CREATE_ASSET", tag |-> t]
RemoveAsset(t)     == [type |-> "REMOVE_ASSET", tag |-> t]

TagLists == {ts \in SUBSET Tags : Cardinality(ts) <= MaxTags}
AssetMsgs == {CreateAsset(t) : t \in Tags} \union {RemoveAsset(t) : t \in Tags}
Msgs == AssetMsgs \union {UpdateAsset(ts) : ts \in TagLists}
        \union {InventoryLog(time) : time \in 1..MaxTime}

ASSUME InventoryAssumption ==
  /\ IsFiniteSet(Tags)
  /\ MaxTags \in Nat
  /\ DbCap \in Nat \ {0}
  /\ MaxTime \in Nat \ {0}

VARIABLES
  at,            \* where the thread is
  data,          \* the tags of the latest reading
  stamp,         \* the time in the log of the latest reading
  stopRequested, \* requestStop() has been called
  mqToDatabase,  \* messages waiting for the daemon
  assets,        \* LastRead of each asset, by tag; 0 is never
  lastScan,      \* the newest Timestamp of an inventory log; 0 is none
  clock          \* time(nullptr), the same in both processes

thread == <<at, data, stamp>>
tables == <<assets, lastScan>>
inventoryVars == <<thread, stopRequested, mqToDatabase, tables, clock>>

InventoryInit ==
  /\ at = "loop"
  /\ data = {}
  /\ stamp = 0
  /\ stopRequested = FALSE
  /\ mqToDatabase = << >>
  /\ assets = [t \in {} |-> 0]
  /\ lastScan = 0
  /\ clock = 1

-----------------------------------------------------------------------------
(* mq_send blocks while the queue is full. *)
PostDb(m) ==
  /\ Len(mqToDatabase) < DbCap
  /\ mqToDatabase' = Append(mqToDatabase, m)

Loop ==
  /\ at = "loop"
  /\ at' = IF stopRequested THEN "done" ELSE "wait"
  /\ UNCHANGED <<data, stamp, stopRequested, mqToDatabase, tables, clock>>

(* An untimed wait. A definition with a two-part name is a plausible bug of *)
(* the one after it.                                                        *)
WaitTimeout_Never == FALSE

(* The door did not close for a second, or the reader took no command. *)
WaitTimeout ==
  /\ at = "wait"
  /\ at' = "loop"
  /\ UNCHANGED <<data, stamp, stopRequested, mqToDatabase, tables, clock>>

(* The vault's door closes, and the reader returns the distinct tags it     *)
(* heard, at most MAX_TAGS: not always all that are there.                  *)
Read(ts) ==
  /\ at = "wait"
  /\ at' = "send"
  /\ data' = ts
  /\ UNCHANGED <<stamp, stopRequested, mqToDatabase, tables, clock>>

SendScan ==
  /\ at = "send"
  /\ PostDb(UpdateAsset(data))
  /\ at' = "stamp"
  /\ UNCHANGED <<data, stamp, stopRequested, tables, clock>>

(* The log's time is taken before the log is sent, which may block. *)
StampLog ==
  /\ at = "stamp"
  /\ stamp' = clock
  /\ at' = "log"
  /\ UNCHANGED <<data, stopRequested, mqToDatabase, tables, clock>>

SendLog ==
  /\ at = "log"
  /\ PostDb(InventoryLog(stamp))
  /\ at' = "loop"
  /\ UNCHANGED <<data, stamp, stopRequested, tables, clock>>

C_tInventoryScan ==
  \/ Loop \/ WaitTimeout \/ \E ts \in TagLists : Read(ts)
  \/ SendScan \/ StampLog \/ SendLog

-----------------------------------------------------------------------------
(* The database daemon. *)

handleScanInventory_StopsAtUnknown(ts) ==
  /\ assets' = [t \in DOMAIN assets \union ts |->
                  IF t \notin DOMAIN assets \/ (t \in ts /\ ts \subseteq DOMAIN assets)
                  THEN clock ELSE assets[t]]
  /\ UNCHANGED lastScan

(* One clock value for all tags; a tag without a row gets one. *)
handleScanInventory(ts) ==
  /\ assets' = [t \in DOMAIN assets \union ts |->
                  IF t \in ts THEN clock ELSE assets[t]]
  /\ UNCHANGED lastScan

handleInsertLog_OnArrival(time) ==
  /\ lastScan' = clock
  /\ UNCHANGED assets

handleInsertLog(time) ==
  /\ lastScan' = IF time > lastScan THEN time ELSE lastScan
  /\ UNCHANGED assets

(* RFID_Tag is UNIQUE: a second row for a tag is refused. *)
handleCreateAsset(t) ==
  /\ assets' = [u \in DOMAIN assets \union {t} |->
                  IF u \in DOMAIN assets THEN assets[u] ELSE 0]
  /\ UNCHANGED lastScan

handleRemoveAsset(t) ==
  /\ assets' = [u \in DOMAIN assets \ {t} |-> assets[u]]
  /\ UNCHANGED lastScan

processDbMessage ==
  /\ mqToDatabase # << >>
  /\ mqToDatabase' = Tail(mqToDatabase)
  /\ LET m == Head(mqToDatabase) IN
     CASE m.type = "UPDATE_ASSET"  -> handleScanInventory(m.tags)
       [] m.type = "LOG_INVENTORY" -> handleInsertLog(m.timestamp)
       [] m.type = "CREATE_ASSET"  -> handleCreateAsset(m.tag)
       [] m.type = "REMOVE_ASSET"  -> handleRemoveAsset(m.tag)
  /\ UNCHANGED <<thread, stopRequested, clock>>

(* What handleGetAssets shows as Inside. *)
Inside(t) == lastScan > 0 /\ assets[t] >= lastScan

-----------------------------------------------------------------------------
WebRequest(m) ==
  /\ PostDb(m)
  /\ UNCHANGED <<thread, stopRequested, tables, clock>>

RequestStop ==
  /\ ~stopRequested
  /\ stopRequested' = TRUE
  /\ UNCHANGED <<thread, mqToDatabase, tables, clock>>

Tick ==
  /\ clock < MaxTime
  /\ clock' = clock + 1
  /\ UNCHANGED <<thread, stopRequested, mqToDatabase, tables>>

InventoryNext ==
  \/ C_tInventoryScan
  \/ processDbMessage
  \/ \E m \in AssetMsgs : WebRequest(m)
  \/ RequestStop
  \/ Tick

InventorySpec == InventoryInit /\ [][InventoryNext]_inventoryVars

(* Thread and daemon are scheduled; a blocked send gets the slot the next   *)
(* receive frees. No door need ever close.                                  *)
FairInventorySpec ==
  /\ InventorySpec
  /\ WF_inventoryVars(Loop)
  /\ WF_inventoryVars(WaitTimeout)
  /\ SF_inventoryVars(SendScan)
  /\ WF_inventoryVars(StampLog)
  /\ SF_inventoryVars(SendLog)
  /\ WF_inventoryVars(processDbMessage)

-----------------------------------------------------------------------------
(* Every variable has its type; a stamp is a time gone by. *)
InventoryTypeOK ==
  /\ at \in {"loop", "wait", "send", "stamp", "log", "done"}
  /\ data \in TagLists
  /\ stamp \in 0..clock
  /\ stopRequested \in BOOLEAN
  /\ mqToDatabase \in Seq(Msgs)
  /\ Len(mqToDatabase) <= DbCap
  /\ DOMAIN assets \subseteq Tags
  /\ \A t \in DOMAIN assets : assets[t] \in 0..clock
  /\ lastScan \in 0..clock
  /\ clock \in 1..MaxTime

(* Nothing of a reading is under way. *)
Quiet ==
  /\ at \notin {"send", "stamp", "log"}
  /\ \A i \in 1..Len(mqToDatabase) : mqToDatabase[i] \in AssetMsgs

(* What the latest reading found, but for rows removed since. *)
Found == {t \in data \intersect DOMAIN assets : assets[t] # 0}

(* The latest reading is shown as a whole: the daemon compares each asset's *)
(* stamp with that of a log it got later from another process, and must     *)
(* never list some assets of the reading, or assets of an earlier one, as   *)
(* Inside without all that the reading found (dDatabase.cpp:503-530,        *)
(* 1203-1224).                                                              *)
LatestReadingIsWhole ==
  Quiet => \/ \A t \in Found : Inside(t)
           \/ \A t \in DOMAIN assets : ~Inside(t)

(* The log the list is compared with is that of the latest reading, though  *)
(* logs are sorted by their time and not by their arrival                   *)
(* (C_tInventoryScan.cpp:58; dDatabase.cpp:1206).                           *)
LatestLogCounts == Quiet => lastScan = stamp

(* The core can end while the vault stays shut or open: stop() ends the     *)
(* thread without the door's signal (C_tInventoryScan.cpp:20-24;            *)
(* C_SecureAsset.cpp:348-362).                                              *)
StopEndsInventory == stopRequested ~> at = "done"
=============================================================================
