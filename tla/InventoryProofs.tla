-------------------------- MODULE InventoryProofs --------------------------
(***************************************************************************)
(* Proofs about Inventory: its type invariant, that the log the list is    *)
(* compared with is that of the latest reading, and that this reading is   *)
(* listed as a whole, for any tags, any capacity of the queue and any      *)
(* number of seconds.                                                      *)
(***************************************************************************)
EXTENDS Inventory, SequenceTheorems, FiniteSetTheorems, TLAPS

-----------------------------------------------------------------------------
(* What the two queue operations do to the elements. *)

LEMMA AppendElements ==
  ASSUME NEW S, NEW s \in Seq(S), NEW e \in S
  PROVE  /\ Append(s, e) \in Seq(S)
         /\ Len(s) \in Nat
         /\ Len(Append(s, e)) = Len(s) + 1
         /\ \A i \in 1..Len(s) : Append(s, e)[i] = s[i]
         /\ Append(s, e)[Len(s) + 1] = e
BY AppendProperties, LenProperties

LEMMA TailElements ==
  ASSUME NEW S, NEW s \in Seq(S), s # << >>
  PROVE  /\ Head(s) \in S
         /\ Head(s) = s[1]
         /\ Len(s) \in Nat \ {0}
         /\ Tail(s) \in Seq(S)
         /\ Len(Tail(s)) = Len(s) - 1
         /\ \A i \in 1..(Len(s) - 1) : Tail(s)[i] = s[i + 1]
BY HeadTailProperties, LenProperties, EmptySeq

-----------------------------------------------------------------------------
(* The messages, by their type. *)

LEMMA MessageKinds ==
  ASSUME NEW m \in Msgs
  PROVE  \/ m.type = "UPDATE_ASSET" /\ m.tags \in TagLists
         \/ m.type = "LOG_INVENTORY" /\ m.timestamp \in 1..MaxTime
         \/ m.type = "CREATE_ASSET" /\ m.tag \in Tags
         \/ m.type = "REMOVE_ASSET" /\ m.tag \in Tags
BY DEF Msgs, AssetMsgs, UpdateAsset, InventoryLog, CreateAsset, RemoveAsset

LEMMA MessagesMade ==
  /\ \A ts \in TagLists :
       /\ UpdateAsset(ts) \in Msgs
       /\ UpdateAsset(ts).type = "UPDATE_ASSET"
       /\ UpdateAsset(ts).tags = ts
  /\ \A time \in 1..MaxTime :
       /\ InventoryLog(time) \in Msgs
       /\ InventoryLog(time).type = "LOG_INVENTORY"
       /\ InventoryLog(time).timestamp = time
  /\ \A m \in AssetMsgs :
       m \in Msgs /\ m.type \in {"CREATE_ASSET", "REMOVE_ASSET"}
<1>1. ASSUME NEW ts \in TagLists
      PROVE  /\ UpdateAsset(ts) \in Msgs
             /\ UpdateAsset(ts).type = "UPDATE_ASSET"
             /\ UpdateAsset(ts).tags = ts
  BY DEF Msgs, UpdateAsset
<1>2. ASSUME NEW time \in 1..MaxTime
      PROVE  /\ InventoryLog(time) \in Msgs
             /\ InventoryLog(time).type = "LOG_INVENTORY"
             /\ InventoryLog(time).timestamp = time
  BY DEF Msgs, InventoryLog
<1>3. ASSUME NEW m \in AssetMsgs
      PROVE  m \in Msgs /\ m.type \in {"CREATE_ASSET", "REMOVE_ASSET"}
  BY DEF Msgs, AssetMsgs, CreateAsset, RemoveAsset
<1> QED BY <1>1, <1>2, <1>3

LEMMA AssetKinds ==
  ASSUME NEW m \in Msgs
  PROVE  m \in AssetMsgs <=> m.type \notin {"UPDATE_ASSET", "LOG_INVENTORY"}
<1>1. m \in AssetMsgs => m.type \notin {"UPDATE_ASSET", "LOG_INVENTORY"}
  BY DEF AssetMsgs, CreateAsset, RemoveAsset
<1>2. m \notin AssetMsgs => m.type \in {"UPDATE_ASSET", "LOG_INVENTORY"}
  BY DEF Msgs, UpdateAsset, InventoryLog
<1> QED BY <1>1, <1>2

(* What the daemon does with a message of each kind. *)
LEMMA ProcessByKind ==
  ASSUME processDbMessage, NEW m, m = Head(mqToDatabase)
  PROVE  /\ m.type = "UPDATE_ASSET" => handleScanInventory(m.tags)
         /\ m.type = "LOG_INVENTORY" => handleInsertLog(m.timestamp)
         /\ m.type = "CREATE_ASSET" => handleCreateAsset(m.tag)
         /\ m.type = "REMOVE_ASSET" => handleRemoveAsset(m.tag)
BY DEF processDbMessage

-----------------------------------------------------------------------------
(* The inductive invariant. Every log was stamped before the latest, which  *)
(* is on its way or the newest in the table; the last scan in the queue is  *)
(* the latest reading; and once none is, all the assets of that reading     *)
(* have the time it was processed at, but for those created since, and no   *)
(* asset has a later one.                                                   *)

IsScan(i) == mqToDatabase[i].type = "UPDATE_ASSET"
IsLog(i)  == mqToDatabase[i].type = "LOG_INVENTORY"

LogsArePast ==
  /\ lastScan <= stamp
  /\ \A i \in 1..Len(mqToDatabase) :
       IsLog(i) => mqToDatabase[i].timestamp <= stamp

LatestLogKnown ==
  at # "log" =>
    \/ lastScan = stamp
    \/ \E i \in 1..Len(mqToDatabase) :
         IsLog(i) /\ mqToDatabase[i].timestamp = stamp

LastScanIsData ==
  at # "send" =>
    \A i \in 1..Len(mqToDatabase) :
      IsScan(i) /\ (\A j \in (i + 1)..Len(mqToDatabase) : ~IsScan(j))
        => mqToDatabase[i].tags = data

StampedTogether(u) ==
  \A t \in DOMAIN assets : assets[t] <= u /\ (t \in data => assets[t] \in {0, u})

ReadingStamped ==
  at # "send" /\ (\A i \in 1..Len(mqToDatabase) : ~IsScan(i)) =>
    \E u \in 0..clock : StampedTogether(u)

InventoryTyped ==
  InventoryTypeOK /\ (at = "log" => stamp # 0) /\ LogsArePast

InventoryInv ==
  InventoryTyped /\ LatestLogKnown /\ LastScanIsData /\ ReadingStamped

LEMMA InitTyped == InventoryInit => InventoryTyped
<1> SUFFICES ASSUME InventoryInit PROVE InventoryTyped
  OBVIOUS
<1>1. mqToDatabase \in Seq(Msgs) /\ Len(mqToDatabase) = 0
  BY EmptySeq DEF InventoryInit
<1>2. data \in TagLists
  <2>1. Cardinality({}) = 0
    BY FS_EmptySet
  <2> QED BY <2>1, InventoryAssumption DEF InventoryInit, TagLists
<1>3. DOMAIN assets = {}
  BY DEF InventoryInit
<1>4. Len(mqToDatabase) <= DbCap /\ clock \in 1..MaxTime
  BY <1>1, InventoryAssumption DEF InventoryInit
<1>5. at = "loop" /\ stamp = 0 /\ lastScan = 0 /\ clock = 1
  BY DEF InventoryInit
<1>6. stopRequested \in BOOLEAN
  BY DEF InventoryInit
<1>7. \A t \in DOMAIN assets : assets[t] \in 0..clock
  BY <1>3
<1>8. stamp \in 0..clock /\ lastScan \in 0..clock
  BY <1>5
<1>9. InventoryTypeOK
  BY <1>1, <1>2, <1>3, <1>4, <1>5, <1>6, <1>7, <1>8 DEF InventoryTypeOK
<1> QED BY <1>1, <1>5, <1>9 DEF InventoryTyped, LogsArePast

LEMMA PostDbTyped ==
  ASSUME InventoryTyped, NEW m \in Msgs, PostDb(m)
  PROVE  /\ mqToDatabase' \in Seq(Msgs)
         /\ Len(mqToDatabase') <= DbCap
         /\ Len(mqToDatabase) \in Nat
         /\ Len(mqToDatabase') = Len(mqToDatabase) + 1
         /\ \A i \in 1..Len(mqToDatabase) : mqToDatabase'[i] = mqToDatabase[i]
         /\ mqToDatabase'[Len(mqToDatabase) + 1] = m
BY AppendElements, InventoryAssumption
   DEF InventoryTyped, InventoryTypeOK, PostDb

LEMMA ProcessTyped ==
  ASSUME InventoryTyped, processDbMessage
  PROVE  /\ Len(mqToDatabase) \in Nat \ {0}
         /\ mqToDatabase[1] \in Msgs
         /\ Head(mqToDatabase) = mqToDatabase[1]
         /\ mqToDatabase' \in Seq(Msgs)
         /\ Len(mqToDatabase') = Len(mqToDatabase) - 1
         /\ Len(mqToDatabase') <= DbCap
         /\ \A i \in 1..(Len(mqToDatabase) - 1) :
              mqToDatabase'[i] = mqToDatabase[i + 1]
         /\ UNCHANGED <<at, data, stamp, stopRequested, clock>>
<1>1. mqToDatabase' = Tail(mqToDatabase) /\ mqToDatabase # << >>
  BY DEF processDbMessage
<1>2. UNCHANGED <<at, data, stamp, stopRequested, clock>>
  BY DEF processDbMessage, thread
<1>3. mqToDatabase \in Seq(Msgs) /\ Len(mqToDatabase) <= DbCap
  BY DEF InventoryTyped, InventoryTypeOK
<1>4. /\ Len(mqToDatabase) \in Nat \ {0}
      /\ Head(mqToDatabase) \in Msgs
      /\ Head(mqToDatabase) = mqToDatabase[1]
      /\ mqToDatabase' \in Seq(Msgs)
      /\ Len(mqToDatabase') = Len(mqToDatabase) - 1
      /\ \A i \in 1..(Len(mqToDatabase) - 1) :
           mqToDatabase'[i] = mqToDatabase[i + 1]
  BY <1>1, <1>3, TailElements
<1> QED BY <1>2, <1>3, <1>4, InventoryAssumption

(* The log of a reading is older than the clock, and so is the table's. *)
LEMMA ProcessTables ==
  ASSUME InventoryTyped, processDbMessage, NEW m \in Msgs, m = mqToDatabase[1]
  PROVE  /\ DOMAIN assets' \subseteq Tags
         /\ \A t \in DOMAIN assets' : assets'[t] \in 0..clock
         /\ lastScan' \in 0..clock
         /\ lastScan' <= stamp
<1>1. m = Head(mqToDatabase)
  BY ProcessTyped
<1>2. /\ clock \in Nat \ {0} /\ stamp \in 0..clock /\ lastScan \in 0..clock
      /\ lastScan <= stamp
      /\ DOMAIN assets \subseteq Tags
      /\ \A t \in DOMAIN assets : assets[t] \in 0..clock
  BY InventoryAssumption DEF InventoryTyped, InventoryTypeOK, LogsArePast
<1>3. CASE m.type = "UPDATE_ASSET" /\ m.tags \in TagLists
  <2>1. /\ UNCHANGED lastScan
        /\ assets' = [t \in DOMAIN assets \union m.tags |->
                        IF t \in m.tags THEN clock ELSE assets[t]]
    BY <1>1, <1>3, ProcessByKind DEF handleScanInventory
  <2>2. m.tags \subseteq Tags /\ DOMAIN assets' = DOMAIN assets \union m.tags
    BY <1>3, <2>1 DEF TagLists
  <2>3. ASSUME NEW t \in DOMAIN assets' PROVE assets'[t] \in 0..clock
    BY <1>2, <2>1, <2>2
  <2> QED BY <1>2, <2>1, <2>2, <2>3
<1>4. CASE m.type = "LOG_INVENTORY" /\ m.timestamp \in 1..MaxTime
  <2>1. m.timestamp <= stamp
    BY <1>4, ProcessTyped DEF InventoryTyped, LogsArePast, IsLog
  <2>2. /\ UNCHANGED assets
        /\ lastScan' = IF m.timestamp > lastScan THEN m.timestamp ELSE lastScan
    BY <1>1, <1>4, ProcessByKind DEF handleInsertLog
  <2> QED BY <1>2, <1>4, <2>1, <2>2
<1>5. CASE m.type = "CREATE_ASSET" /\ m.tag \in Tags
  <2>1. /\ UNCHANGED lastScan
        /\ assets' = [u \in DOMAIN assets \union {m.tag} |->
                        IF u \in DOMAIN assets THEN assets[u] ELSE 0]
    BY <1>1, <1>5, ProcessByKind DEF handleCreateAsset
  <2>2. DOMAIN assets' = DOMAIN assets \union {m.tag}
    BY <2>1
  <2>3. ASSUME NEW t \in DOMAIN assets' PROVE assets'[t] \in 0..clock
    BY <1>2, <2>1, <2>2
  <2> QED BY <1>2, <1>5, <2>1, <2>2, <2>3
<1>6. CASE m.type = "REMOVE_ASSET" /\ m.tag \in Tags
  BY <1>1, <1>2, <1>6, ProcessByKind DEF handleRemoveAsset
<1> QED BY <1>3, <1>4, <1>5, <1>6, MessageKinds

LEMMA NextTyped ==
  ASSUME InventoryTyped, [InventoryNext]_inventoryVars
  PROVE  InventoryTyped'
<1> USE DEF thread, tables
<1>a. InventoryTypeOK /\ (at = "log" => stamp # 0) /\ LogsArePast
  BY DEF InventoryTyped
<1>b. clock \in Nat \ {0} /\ stamp \in 0..clock /\ lastScan \in 0..clock
  BY <1>a, InventoryAssumption DEF InventoryTypeOK
<1>c. ASSUME NEW m \in Msgs, PostDb(m), UNCHANGED <<stamp, tables, clock>>,
             m.type = "LOG_INVENTORY" => m.timestamp = stamp
      PROVE  LogsArePast'
  <2>1. ASSUME NEW i \in 1..Len(mqToDatabase'), IsLog(i)'
        PROVE  mqToDatabase'[i].timestamp <= stamp'
    <3>1. CASE i \in 1..Len(mqToDatabase)
      BY <1>a, <1>c, <2>1, <3>1, PostDbTyped DEF LogsArePast, IsLog
    <3>2. CASE i = Len(mqToDatabase) + 1
      BY <1>b, <1>c, <2>1, <3>2, PostDbTyped DEF IsLog
    <3> QED BY <1>c, <3>1, <3>2, PostDbTyped
  <2> QED BY <1>a, <1>c, <2>1 DEF LogsArePast
<1>1. CASE Loop
  BY <1>1, <1>a DEF InventoryTypeOK, InventoryTyped, LogsArePast, IsLog, Loop
<1>2. CASE WaitTimeout
  BY <1>2, <1>a DEF InventoryTypeOK, InventoryTyped, LogsArePast, IsLog, WaitTimeout
<1>3. ASSUME NEW ts \in TagLists, Read(ts) PROVE InventoryTyped'
  BY <1>3, <1>a DEF InventoryTypeOK, InventoryTyped, LogsArePast, IsLog, Read
<1>4. CASE SendScan
  <2> PICK m : m = UpdateAsset(data)
    OBVIOUS
  <2>1. m \in Msgs /\ PostDb(m) /\ m.type = "UPDATE_ASSET"
    BY <1>4, <1>a, MessagesMade DEF SendScan, InventoryTypeOK
  <2>2. mqToDatabase' \in Seq(Msgs) /\ Len(mqToDatabase') <= DbCap
    BY <2>1, PostDbTyped
  <2>3. LogsArePast'
    BY <1>4, <1>c, <2>1 DEF SendScan
  <2> QED BY <1>4, <1>a, <2>2, <2>3 DEF InventoryTypeOK, InventoryTyped, SendScan
<1>5. CASE StampLog
  <2>1. stamp' = clock /\ at' = "log" /\ clock' = clock
    BY <1>5 DEF StampLog
  <2>2. LogsArePast'
    <3>1. ASSUME NEW i \in 1..Len(mqToDatabase), IsLog(i)
          PROVE  mqToDatabase[i].timestamp <= clock
      <4>1. mqToDatabase[i] \in Msgs
        BY <1>a, ElementOfSeq DEF InventoryTypeOK
      <4>2. mqToDatabase[i].timestamp \in Nat
        BY <3>1, <4>1, MessageKinds DEF IsLog
      <4> QED BY <1>a, <1>b, <3>1, <4>2 DEF LogsArePast
    <3> QED BY <1>5, <1>a, <1>b, <3>1 DEF StampLog, LogsArePast, IsLog
  <2>3. InventoryTypeOK'
    BY <1>5, <1>a, <1>b DEF InventoryTypeOK, StampLog
  <2> QED BY <1>b, <2>1, <2>2, <2>3 DEF InventoryTyped
<1>6. CASE SendLog
  <2> PICK m : m = InventoryLog(stamp)
    OBVIOUS
  <2>1. stamp \in 1..MaxTime
    BY <1>6, <1>a, InventoryAssumption DEF SendLog, InventoryTypeOK
  <2>2. m \in Msgs /\ PostDb(m) /\ m.timestamp = stamp
    BY <1>6, <2>1, MessagesMade DEF SendLog
  <2>3. mqToDatabase' \in Seq(Msgs) /\ Len(mqToDatabase') <= DbCap
    BY <2>2, PostDbTyped
  <2>4. LogsArePast'
    BY <1>6, <1>c, <2>2 DEF SendLog
  <2> QED BY <1>6, <1>a, <2>3, <2>4 DEF InventoryTypeOK, InventoryTyped, SendLog
<1>7. CASE processDbMessage
  <2> PICK m : m = mqToDatabase[1]
    OBVIOUS
  <2>1. /\ DOMAIN assets' \subseteq Tags
        /\ \A t \in DOMAIN assets' : assets'[t] \in 0..clock
        /\ lastScan' \in 0..clock
        /\ lastScan' <= stamp
    BY <1>7, ProcessTyped, ProcessTables
  <2>2. InventoryTypeOK'
    BY <1>7, <1>a, <2>1, ProcessTyped DEF InventoryTypeOK
  <2>3. LogsArePast'
    <3>1. ASSUME NEW i \in 1..Len(mqToDatabase'), IsLog(i)'
          PROVE  mqToDatabase'[i].timestamp <= stamp'
      <4>1. i + 1 \in 1..Len(mqToDatabase) /\ mqToDatabase'[i] = mqToDatabase[i + 1]
        BY <1>7, ProcessTyped
      <4> QED BY <1>7, <1>a, <3>1, <4>1, ProcessTyped DEF LogsArePast, IsLog
    <3> QED BY <1>7, <2>1, <3>1, ProcessTyped DEF LogsArePast
  <2> QED BY <1>7, <1>a, <2>2, <2>3, ProcessTyped DEF InventoryTyped
<1>8. ASSUME NEW m \in AssetMsgs, WebRequest(m) PROVE InventoryTyped'
  <2>1. m \in Msgs /\ PostDb(m) /\ m.type # "LOG_INVENTORY"
    BY <1>8, MessagesMade DEF WebRequest
  <2>2. mqToDatabase' \in Seq(Msgs) /\ Len(mqToDatabase') <= DbCap
    BY <2>1, PostDbTyped
  <2>3. LogsArePast'
    BY <1>8, <1>c, <2>1 DEF WebRequest
  <2> QED BY <1>8, <1>a, <2>2, <2>3 DEF InventoryTypeOK, InventoryTyped, WebRequest
<1>9. CASE RequestStop
  BY <1>9, <1>a DEF InventoryTypeOK, InventoryTyped, LogsArePast, IsLog, RequestStop
<1>10. CASE Tick
  <2>1. InventoryTypeOK'
    BY <1>10, <1>a, <1>b, InventoryAssumption DEF InventoryTypeOK, Tick
  <2> QED BY <1>10, <1>a, <2>1 DEF InventoryTyped, LogsArePast, IsLog, Tick
<1>11. CASE UNCHANGED inventoryVars
  BY <1>11, <1>a DEF InventoryTypeOK, InventoryTyped, LogsArePast, IsLog, inventoryVars
<1> QED
  BY <1>1, <1>2, <1>3, <1>4, <1>5, <1>6, <1>7, <1>8, <1>9, <1>10, <1>11
     DEF InventoryNext, C_tInventoryScan

(* Every reachable state is well typed, the queue keeps to its capacity and *)
(* no stamp lies ahead of the clock.                                        *)
THEOREM InventoryTypeCorrect == InventorySpec => []InventoryTypeOK
<1>1. InventoryInit => InventoryTyped
  BY InitTyped
<1>2. InventoryTyped /\ [InventoryNext]_inventoryVars => InventoryTyped'
  BY NextTyped
<1>3. InventoryTyped => InventoryTypeOK
  BY DEF InventoryTyped
<1> QED BY <1>1, <1>2, <1>3, PTL DEF InventorySpec

-----------------------------------------------------------------------------
(* The steps by what they do to the queue: none, a message added, one taken. *)

LEMMA StepKinds ==
  ASSUME InventoryTyped, [InventoryNext]_inventoryVars
  PROVE  \/ UNCHANGED <<mqToDatabase, tables, data>>
         \/ \E ts \in TagLists : Read(ts)
         \/ SendScan
         \/ SendLog
         \/ \E m \in AssetMsgs : WebRequest(m)
         \/ processDbMessage
BY DEF InventoryNext, C_tInventoryScan, Loop, WaitTimeout, StampLog, RequestStop,
       Tick, inventoryVars, thread, tables

(* The thread's other steps do not send; only StampLog takes a new stamp. *)
LEMMA StillSteps ==
  ASSUME [InventoryNext]_inventoryVars, UNCHANGED <<mqToDatabase, tables, data>>,
         ~(\E ts \in TagLists : Read(ts)), ~SendScan, ~SendLog, ~processDbMessage,
         ~(\E m \in AssetMsgs : WebRequest(m))
  PROVE  /\ at' = "send" <=> at = "send"
         /\ \/ at' = "log"
            \/ at # "log" /\ stamp' = stamp
         /\ clock' = clock \/ clock' = clock + 1
<1>1. CASE Loop
  BY <1>1 DEF Loop
<1>2. CASE WaitTimeout
  BY <1>2 DEF WaitTimeout
<1>3. CASE StampLog
  BY <1>3 DEF StampLog
<1>4. CASE RequestStop
  BY <1>4 DEF RequestStop, thread
<1>5. CASE Tick
  BY <1>5 DEF Tick, thread
<1>6. CASE UNCHANGED inventoryVars
  BY <1>6 DEF inventoryVars, thread
<1> QED
  BY <1>1, <1>2, <1>3, <1>4, <1>5, <1>6 DEF InventoryNext, C_tInventoryScan

(* The newest log of the table is the latest reading's, or that is queued. *)
LEMMA LogKnownStep ==
  ASSUME InventoryTyped, LatestLogKnown, [InventoryNext]_inventoryVars
  PROVE  LatestLogKnown'
<1> USE DEF thread, tables
<1>a. lastScan \in Nat /\ stamp \in Nat /\ lastScan <= stamp /\ clock \in Nat
  BY InventoryAssumption DEF InventoryTyped, InventoryTypeOK, LogsArePast
<1>b. ASSUME NEW m \in Msgs, PostDb(m), UNCHANGED <<stamp, tables>>, at # "log"
      PROVE  LatestLogKnown'
  <2>1. CASE lastScan = stamp
    BY <1>b, <2>1 DEF LatestLogKnown
  <2>2. ASSUME NEW i \in 1..Len(mqToDatabase), IsLog(i),
               mqToDatabase[i].timestamp = stamp
        PROVE  LatestLogKnown'
    <3>1. i \in 1..Len(mqToDatabase') /\ mqToDatabase'[i] = mqToDatabase[i]
      BY <1>b, PostDbTyped
    <3> QED BY <1>b, <2>2, <3>1 DEF LatestLogKnown, IsLog
  <2> QED BY <1>b, <2>1, <2>2 DEF LatestLogKnown
<1>1. ASSUME NEW ts \in TagLists, Read(ts) PROVE LatestLogKnown'
  BY <1>1 DEF Read, LatestLogKnown, IsLog
<1>2. CASE SendScan
  BY <1>2, <1>b, MessagesMade DEF SendScan, InventoryTyped, InventoryTypeOK
<1>3. CASE SendLog
  <2> PICK m : m = InventoryLog(stamp)
    OBVIOUS
  <2>1. stamp \in 1..MaxTime
    BY <1>3, InventoryAssumption DEF SendLog, InventoryTyped, InventoryTypeOK
  <2>2. m \in Msgs /\ PostDb(m) /\ m.type = "LOG_INVENTORY" /\ m.timestamp = stamp
    BY <1>3, <2>1, MessagesMade DEF SendLog
  <2>3. /\ Len(mqToDatabase) + 1 \in 1..Len(mqToDatabase')
        /\ mqToDatabase'[Len(mqToDatabase) + 1] = m
    BY <2>2, PostDbTyped
  <2> QED BY <1>3, <2>2, <2>3 DEF SendLog, LatestLogKnown, IsLog
<1>4. ASSUME NEW m \in AssetMsgs, WebRequest(m) PROVE LatestLogKnown'
  <2>1. m \in Msgs /\ PostDb(m) /\ UNCHANGED <<at, stamp, tables>>
    BY <1>4, MessagesMade DEF WebRequest
  <2>2. CASE at = "log"
    BY <2>1, <2>2 DEF LatestLogKnown
  <2> QED BY <1>b, <2>1, <2>2
<1>5. CASE processDbMessage
  <2> PICK m : m = mqToDatabase[1]
    OBVIOUS
  <2> SUFFICES ASSUME at # "log" PROVE LatestLogKnown'
    BY <1>5, ProcessTyped DEF LatestLogKnown
  <2>a. m \in Msgs /\ m = Head(mqToDatabase) /\ UNCHANGED <<at, stamp>>
    BY <1>5, ProcessTyped
  <2>b. m.type = "LOG_INVENTORY" =>
          /\ m.timestamp \in Nat /\ m.timestamp <= stamp
          /\ lastScan' = IF m.timestamp > lastScan THEN m.timestamp ELSE lastScan
    <3>1. m.type = "LOG_INVENTORY" => m.timestamp \in Nat
      BY <2>a, MessageKinds
    <3>2. m.type = "LOG_INVENTORY" => m.timestamp <= stamp
      BY <1>5, ProcessTyped DEF InventoryTyped, LogsArePast, IsLog
    <3> QED BY <1>5, <2>a, <3>1, <3>2, ProcessByKind DEF handleInsertLog
  <2>c. m.type # "LOG_INVENTORY" => UNCHANGED lastScan
    BY <1>5, <2>a, ProcessByKind, MessageKinds
       DEF handleScanInventory, handleCreateAsset, handleRemoveAsset
  <2>1. CASE lastScan = stamp
    <3>1. lastScan' = stamp
      BY <1>a, <2>b, <2>c, <2>1
    <3> QED BY <2>a, <3>1 DEF LatestLogKnown
  <2>2. ASSUME NEW i \in 1..Len(mqToDatabase), IsLog(i),
               mqToDatabase[i].timestamp = stamp
        PROVE  LatestLogKnown'
    <3>1. CASE i = 1
      <4>1. lastScan' = stamp
        BY <1>a, <2>b, <2>2, <3>1 DEF IsLog
      <4> QED BY <2>a, <4>1 DEF LatestLogKnown
    <3>2. CASE i # 1
      <4>1. /\ i - 1 \in 1..Len(mqToDatabase')
            /\ mqToDatabase'[i - 1] = mqToDatabase[i]
        <5>1. i - 1 \in 1..(Len(mqToDatabase) - 1) /\ (i - 1) + 1 = i
          BY <1>5, <3>2, ProcessTyped
        <5> QED BY <1>5, <5>1, ProcessTyped
      <4> QED BY <2>a, <2>2, <4>1 DEF LatestLogKnown, IsLog
    <3> QED BY <3>1, <3>2
  <2> QED BY <2>1, <2>2 DEF LatestLogKnown
<1>6. CASE /\ UNCHANGED <<mqToDatabase, tables, data>>
           /\ ~(\E ts \in TagLists : Read(ts)) /\ ~SendScan /\ ~SendLog
           /\ ~(\E m \in AssetMsgs : WebRequest(m)) /\ ~processDbMessage
  <2>1. at' = "log" \/ (at # "log" /\ stamp' = stamp)
    BY <1>6, StillSteps
  <2> QED BY <1>6, <2>1 DEF LatestLogKnown, IsLog
<1> QED BY <1>1, <1>2, <1>3, <1>4, <1>5, <1>6, StepKinds

(* The last scan in the queue is of the latest reading. *)
LEMMA LastScanStep ==
  ASSUME InventoryTyped, LastScanIsData, [InventoryNext]_inventoryVars
  PROVE  LastScanIsData'
<1> USE DEF thread, tables
<1>a. ASSUME NEW m \in Msgs, PostDb(m), at # "send", UNCHANGED data,
             m.type # "UPDATE_ASSET"
      PROVE  LastScanIsData'
  <2> SUFFICES ASSUME NEW i \in 1..Len(mqToDatabase'), IsScan(i)',
                      \A j \in (i + 1)..Len(mqToDatabase') : ~IsScan(j)'
               PROVE  mqToDatabase'[i].tags = data
    BY <1>a DEF LastScanIsData
  <2>1. i # Len(mqToDatabase) + 1
    BY <1>a, PostDbTyped DEF IsScan
  <2>2. i \in 1..Len(mqToDatabase) /\ mqToDatabase'[i] = mqToDatabase[i]
    BY <1>a, <2>1, PostDbTyped
  <2>3. ASSUME NEW j \in (i + 1)..Len(mqToDatabase) PROVE ~IsScan(j)
    <3>1. /\ j \in (i + 1)..Len(mqToDatabase')
          /\ mqToDatabase'[j] = mqToDatabase[j]
      BY <1>a, <2>2, PostDbTyped
    <3> QED BY <3>1 DEF IsScan
  <2> QED BY <1>a, <2>2, <2>3 DEF LastScanIsData, IsScan
<1>1. ASSUME NEW ts \in TagLists, Read(ts) PROVE LastScanIsData'
  BY <1>1 DEF Read, LastScanIsData
<1>2. CASE SendScan
  <2> PICK m : m = UpdateAsset(data)
    OBVIOUS
  <2>1. m \in Msgs /\ PostDb(m) /\ m.type = "UPDATE_ASSET" /\ m.tags = data
    BY <1>2, MessagesMade DEF SendScan, InventoryTyped, InventoryTypeOK
  <2> SUFFICES ASSUME NEW i \in 1..Len(mqToDatabase'), IsScan(i)',
                      \A j \in (i + 1)..Len(mqToDatabase') : ~IsScan(j)'
               PROVE  mqToDatabase'[i].tags = data
    BY <1>2 DEF LastScanIsData, SendScan
  <2> PICK n : n = Len(mqToDatabase) + 1
    OBVIOUS
  <2>2. i = n
    <3>1. n = Len(mqToDatabase') /\ n \in Nat /\ IsScan(n)'
      BY <2>1, PostDbTyped DEF IsScan
    <3> QED BY <3>1
  <2> QED BY <2>1, <2>2, PostDbTyped
<1>3. CASE SendLog
  <2> PICK m : m = InventoryLog(stamp)
    OBVIOUS
  <2>1. stamp \in 1..MaxTime
    BY <1>3, InventoryAssumption DEF SendLog, InventoryTyped, InventoryTypeOK
  <2>2. m \in Msgs /\ PostDb(m) /\ m.type = "LOG_INVENTORY"
    BY <1>3, <2>1, MessagesMade DEF SendLog
  <2> QED BY <1>3, <1>a, <2>2 DEF SendLog
<1>4. ASSUME NEW m \in AssetMsgs, WebRequest(m) PROVE LastScanIsData'
  <2>1. m \in Msgs /\ PostDb(m) /\ m.type # "UPDATE_ASSET" /\ UNCHANGED <<at, data>>
    BY <1>4, MessagesMade DEF WebRequest
  <2>2. CASE at = "send"
    BY <2>1, <2>2 DEF LastScanIsData
  <2> QED BY <1>a, <2>1, <2>2
<1>5. CASE processDbMessage
  <2>a. UNCHANGED <<at, data>>
    BY <1>5, ProcessTyped
  <2> SUFFICES ASSUME at # "send", NEW i \in 1..Len(mqToDatabase'), IsScan(i)',
                      \A j \in (i + 1)..Len(mqToDatabase') : ~IsScan(j)'
               PROVE  mqToDatabase'[i].tags = data
    BY <2>a DEF LastScanIsData
  <2>1. i + 1 \in 1..Len(mqToDatabase) /\ mqToDatabase'[i] = mqToDatabase[i + 1]
    BY <1>5, ProcessTyped
  <2>2. ASSUME NEW j \in ((i + 1) + 1)..Len(mqToDatabase) PROVE ~IsScan(j)
    <3>1. /\ j - 1 \in (i + 1)..Len(mqToDatabase')
          /\ j - 1 \in 1..(Len(mqToDatabase) - 1) /\ (j - 1) + 1 = j
      BY <1>5, ProcessTyped
    <3>2. mqToDatabase'[j - 1] = mqToDatabase[j]
      BY <1>5, <3>1, ProcessTyped
    <3> QED BY <3>1, <3>2 DEF IsScan
  <2> QED BY <2>1, <2>2 DEF LastScanIsData, IsScan
<1>6. CASE /\ UNCHANGED <<mqToDatabase, tables, data>>
           /\ ~(\E ts \in TagLists : Read(ts)) /\ ~SendScan /\ ~SendLog
           /\ ~(\E m \in AssetMsgs : WebRequest(m)) /\ ~processDbMessage
  <2>1. at' = "send" <=> at = "send"
    BY <1>6, StillSteps
  <2> QED BY <1>6, <2>1 DEF LastScanIsData, IsScan
<1> QED BY <1>1, <1>2, <1>3, <1>4, <1>5, <1>6, StepKinds

(* No asset is stamped later than the latest reading was processed. *)
LEMMA ReadingStampedStep ==
  ASSUME InventoryTyped, LastScanIsData, ReadingStamped,
         [InventoryNext]_inventoryVars
  PROVE  ReadingStamped'
<1> USE DEF thread, tables
<1>a. clock \in Nat /\ \A t \in DOMAIN assets : assets[t] \in 0..clock
  BY InventoryAssumption DEF InventoryTyped, InventoryTypeOK
<1>b. ASSUME NEW m \in Msgs, PostDb(m), UNCHANGED <<tables, data, clock>>,
             at' # "send" => at # "send"
      PROVE  ReadingStamped'
  <2> SUFFICES ASSUME at' # "send", \A i \in 1..Len(mqToDatabase') : ~IsScan(i)'
               PROVE  \E u \in 0..clock : StampedTogether(u)'
    BY <1>b DEF ReadingStamped
  <2>1. ASSUME NEW i \in 1..Len(mqToDatabase) PROVE ~IsScan(i)
    <3>1. i \in 1..Len(mqToDatabase') /\ mqToDatabase'[i] = mqToDatabase[i]
      BY <1>b, PostDbTyped
    <3> QED BY <3>1 DEF IsScan
  <2> QED BY <1>b, <2>1 DEF ReadingStamped, StampedTogether
<1>1. ASSUME NEW ts \in TagLists, Read(ts) PROVE ReadingStamped'
  BY <1>1 DEF Read, ReadingStamped
<1>2. CASE SendScan
  <2> PICK m, n : m = UpdateAsset(data) /\ n = Len(mqToDatabase) + 1
    OBVIOUS
  <2>1. m \in Msgs /\ PostDb(m) /\ m.type = "UPDATE_ASSET"
    BY <1>2, MessagesMade DEF SendScan, InventoryTyped, InventoryTypeOK
  <2>2. n \in 1..Len(mqToDatabase') /\ IsScan(n)'
    BY <2>1, PostDbTyped DEF IsScan
  <2> QED BY <2>2 DEF ReadingStamped
<1>3. CASE SendLog
  <2>1. stamp \in 1..MaxTime
    BY <1>3, InventoryAssumption DEF SendLog, InventoryTyped, InventoryTypeOK
  <2> QED BY <1>3, <1>b, <2>1, MessagesMade DEF SendLog
<1>4. ASSUME NEW m \in AssetMsgs, WebRequest(m) PROVE ReadingStamped'
  BY <1>4, <1>b, MessagesMade DEF WebRequest
<1>5. CASE processDbMessage
  <2> PICK m : m = mqToDatabase[1]
    OBVIOUS
  <2>a. /\ m \in Msgs /\ m = Head(mqToDatabase)
        /\ UNCHANGED <<at, data, clock>>
    BY <1>5, ProcessTyped
  <2> SUFFICES ASSUME at # "send", \A i \in 1..Len(mqToDatabase') : ~IsScan(i)'
               PROVE  \E u \in 0..clock : StampedTogether(u)'
    BY <2>a DEF ReadingStamped
  <2>b. ASSUME NEW j \in 2..Len(mqToDatabase) PROVE ~IsScan(j)
    <3>1. /\ j - 1 \in 1..Len(mqToDatabase')
          /\ j - 1 \in 1..(Len(mqToDatabase) - 1) /\ (j - 1) + 1 = j
      BY <1>5, ProcessTyped
    <3>2. mqToDatabase'[j - 1] = mqToDatabase[j]
      BY <1>5, <3>1, ProcessTyped
    <3> QED BY <3>1, <3>2 DEF IsScan
  <2>1. CASE m.type = "UPDATE_ASSET"
    <3>1. m.tags = data
      <4>1. 1 \in 1..Len(mqToDatabase) /\ IsScan(1)
        BY <1>5, <2>1, ProcessTyped DEF IsScan
      <4>2. \A j \in (1 + 1)..Len(mqToDatabase) : ~IsScan(j)
        BY <2>b
      <4> QED BY <4>1, <4>2 DEF LastScanIsData
    <3>2. assets' = [t \in DOMAIN assets \union data |->
                       IF t \in data THEN clock ELSE assets[t]]
      BY <1>5, <2>a, <2>1, <3>1, ProcessByKind DEF handleScanInventory
    <3>3. DOMAIN assets' = DOMAIN assets \union data
      BY <3>2
    <3>4. ASSUME NEW t \in DOMAIN assets'
          PROVE  assets'[t] <= clock /\ (t \in data => assets'[t] \in {0, clock})
      BY <1>a, <3>2, <3>3
    <3>5. clock \in 0..clock
      BY <1>a
    <3> QED BY <2>a, <3>4, <3>5 DEF StampedTogether
  <2>2. CASE m.type # "UPDATE_ASSET"
    <3>1. \A i \in 1..Len(mqToDatabase) : ~IsScan(i)
      <4> SUFFICES ASSUME NEW i \in 1..Len(mqToDatabase) PROVE ~IsScan(i)
        OBVIOUS
      <4>1. CASE i = 1
        BY <2>2, <4>1 DEF IsScan
      <4>2. CASE i # 1
        BY <1>5, <2>b, <4>2, ProcessTyped
      <4> QED BY <4>1, <4>2
    <3>2. PICK u \in 0..clock : StampedTogether(u)
      BY <3>1 DEF ReadingStamped
    <3>3. CASE m.type = "LOG_INVENTORY"
      <4>1. UNCHANGED assets
        BY <1>5, <2>a, <3>3, ProcessByKind DEF handleInsertLog
      <4> QED BY <2>a, <3>2, <4>1 DEF StampedTogether
    <3>4. CASE m.type = "CREATE_ASSET"
      <4>1. assets' = [v \in DOMAIN assets \union {m.tag} |->
                         IF v \in DOMAIN assets THEN assets[v] ELSE 0]
        BY <1>5, <2>a, <3>4, ProcessByKind DEF handleCreateAsset
      <4>2. DOMAIN assets' = DOMAIN assets \union {m.tag}
        BY <4>1
      <4>3. ASSUME NEW t \in DOMAIN assets'
            PROVE  assets'[t] <= u /\ (t \in data => assets'[t] \in {0, u})
        BY <3>2, <4>1, <4>2 DEF StampedTogether
      <4> QED BY <2>a, <4>3 DEF StampedTogether
    <3>5. CASE m.type = "REMOVE_ASSET"
      <4>1. assets' = [v \in DOMAIN assets \ {m.tag} |-> assets[v]]
        BY <1>5, <2>a, <3>5, ProcessByKind DEF handleRemoveAsset
      <4> QED BY <2>a, <3>2, <4>1 DEF StampedTogether
    <3> QED BY <2>a, <2>2, <3>3, <3>4, <3>5, MessageKinds
  <2> QED BY <2>1, <2>2
<1>6. CASE /\ UNCHANGED <<mqToDatabase, tables, data>>
           /\ ~(\E ts \in TagLists : Read(ts)) /\ ~SendScan /\ ~SendLog
           /\ ~(\E m \in AssetMsgs : WebRequest(m)) /\ ~processDbMessage
  <2>1. (at' = "send" <=> at = "send") /\ (clock' = clock \/ clock' = clock + 1)
    BY <1>6, StillSteps
  <2>2. \A u \in 0..clock : u \in 0..clock'
    BY <1>a, <2>1
  <2> QED BY <1>6, <2>1, <2>2 DEF ReadingStamped, StampedTogether, IsScan
<1> QED BY <1>1, <1>2, <1>3, <1>4, <1>5, <1>6, StepKinds

LEMMA InvariantHolds == InventorySpec => []InventoryInv
<1>1. InventoryInit => InventoryInv
  <2> SUFFICES ASSUME InventoryInit PROVE InventoryInv
    OBVIOUS
  <2>1. Len(mqToDatabase) = 0 /\ DOMAIN assets = {}
    BY EmptySeq DEF InventoryInit
  <2>2. LatestLogKnown
    BY DEF InventoryInit, LatestLogKnown
  <2>3. LastScanIsData
    BY <2>1 DEF LastScanIsData
  <2>4. 0 \in 0..clock /\ StampedTogether(0)
    BY <2>1 DEF InventoryInit, StampedTogether
  <2> QED BY <2>2, <2>3, <2>4, InitTyped DEF InventoryInv, ReadingStamped
<1>2. InventoryInv /\ [InventoryNext]_inventoryVars => InventoryInv'
  BY NextTyped, LogKnownStep, LastScanStep, ReadingStampedStep DEF InventoryInv
<1> QED BY <1>1, <1>2, PTL DEF InventorySpec

LEMMA QuietCounts ==
  ASSUME InventoryInv, Quiet
  PROVE  lastScan = stamp /\ (\A i \in 1..Len(mqToDatabase) : ~IsScan(i))
<1>1. ASSUME NEW i \in 1..Len(mqToDatabase) PROVE ~IsScan(i) /\ ~IsLog(i)
  <2>1. mqToDatabase[i] \in Msgs
    BY ElementOfSeq DEF InventoryInv, InventoryTyped, InventoryTypeOK
  <2>2. mqToDatabase[i] \in AssetMsgs
    BY DEF Quiet
  <2> QED BY <2>1, <2>2, AssetKinds DEF IsScan, IsLog
<1> QED BY <1>1 DEF InventoryInv, LatestLogKnown, Quiet

(* Once nothing of a reading is under way, the newest log in the table is   *)
(* the latest reading's, in whatever order sends, receives and the clock    *)
(* went.                                                                    *)
THEOREM NewestLogIsTheLatest == InventorySpec => []LatestLogCounts
<1>1. InventoryInv => LatestLogCounts
  BY QuietCounts DEF LatestLogCounts
<1> QED BY <1>1, InvariantHolds, PTL

(* The latest reading is listed as Inside as a whole or not at all, though  *)
(* its assets and its log get their times from two processes.               *)
THEOREM ReadingIsListedWhole == InventorySpec => []LatestReadingIsWhole
<1>1. InventoryInv => LatestReadingIsWhole
  <2> SUFFICES ASSUME InventoryInv, Quiet
               PROVE  \/ \A t \in Found : Inside(t)
                      \/ \A t \in DOMAIN assets : ~Inside(t)
    BY DEF LatestReadingIsWhole
  <2>1. PICK u \in 0..clock : StampedTogether(u)
    BY QuietCounts DEF InventoryInv, ReadingStamped, Quiet
  <2>2. /\ clock \in Nat /\ lastScan \in Nat /\ u \in Nat
        /\ \A t \in DOMAIN assets : assets[t] \in Nat
    BY InventoryAssumption DEF InventoryInv, InventoryTyped, InventoryTypeOK
  <2>3. CASE lastScan > 0 /\ u >= lastScan
    BY <2>1, <2>2, <2>3 DEF StampedTogether, Found, Inside
  <2>4. CASE ~(lastScan > 0 /\ u >= lastScan)
    BY <2>1, <2>2, <2>4 DEF StampedTogether, Inside
  <2> QED BY <2>3, <2>4
<1> QED BY <1>1, InvariantHolds, PTL
=============================================================================
