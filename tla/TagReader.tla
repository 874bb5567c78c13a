----------------------------- MODULE TagReader -----------------------------
(***************************************************************************)
(* The driver of the YRM1001, which lists the tags in the vault, and the   *)
(* module itself.  A scan powers the module on, sets and reads back its    *)
(* power, starts an inventory, collects the tags the module reports, and   *)
(* powers it off.  What is left of an earlier scan in the serial port is   *)
(* discarded by two bounded flushes; a checksum that is wrong is only      *)
(* warned of.  A frame is three symbols: head (with type and length), body *)
(* and tail.                                                               *)
(***************************************************************************)
EXTENDS Uart, FiniteSets

CONSTANTS
  Tags,       \* the tags in the vault
  MAX_TAGS,   \* entries of tagList
  FlushMax,   \* symbols that one flush discards: 10 reads of 64 bytes
  RxCap,      \* bound: symbols that wait in the port
  MaxScans,   \* bound: scans
  MaxGlitches \* bound: disturbances on the line

(* A flush discards 640 bytes.  That no more than two of them wait says that *)
(* the driver is never held up for more than 110 ms in the middle of a scan. *)
ASSUME TagReaderAssumption ==
  /\ IsFiniteSet(Tags) /\ {"reply", "phantom"} \intersect Tags = {}
  /\ MAX_TAGS \in Nat \ {0}
  /\ FlushMax \in Nat /\ RxCap \in 0..(2 * FlushMax)
  /\ MaxScans \in Nat /\ MaxGlitches \in Nat

VARIABLES
  trAt,      \* where read() is; "off" before and after it
  rawBuffer, \* m_rawBuffer: the symbols of the frame being read
  tagList,   \* the tags of this scan, each with the scan it was reported in
  scan,      \* scans begun
  module,    \* the module: "off", "on", or "inventory"
  trOut,     \* what the module has yet to send
  trIn,      \* what has come in
  glitches   \* disturbances so far

scanVars == <<rawBuffer, tagList, scan>>
lineVars == <<module, trOut, trIn, glitches>>
trVars   == <<trAt, scanVars, lineVars>>

(* A report of a tag, or the reply to setPower or getPower; a glitch leaves *)
(* bytes that look like a body, for no checksum is needed, and like no body *)
(* before: a phantom has the number of its glitch for that of a scan.       *)
Frames   == [tag : Tags \union {"reply"}, scan : 1..MaxScans]
Phantoms == [tag : {"phantom"}, scan : 1..MaxGlitches]
Glitch(n) == [part |-> "body", of |-> [tag |-> "phantom", scan |-> n]]
Symbols  == [part : {"head", "body", "tail"}, of : Frames]
              \union [part : {"body"}, of : Phantoms]

FrameOf(f) == [i \in 1..3 |-> [part |-> <<"head", "body", "tail">>[i], of |-> f]]

TagReaderInit ==
  /\ trAt = "off" /\ rawBuffer = << >> /\ tagList = << >> /\ scan = 0
  /\ module = "off" /\ trOut = << >> /\ trIn = << >> /\ glitches = 0

-----------------------------------------------------------------------------
(* The driver.  A definition with a two-part name is a plausible bug of the *)
(* one after it.                                                            *)

flushUART_Not(q) == q
flushUART(q) == Left(q, FlushMax)

(* read(): power, the first flush, and the second, of setPower(). *)
powerOn ==
  /\ trAt = "off" /\ scan < MaxScans
  /\ trAt' = "setPower" /\ scan' = scan + 1 /\ tagList' = << >>
  /\ module' = "on" /\ trIn' = flushUART(trIn)
  /\ UNCHANGED <<rawBuffer, trOut, glitches>>

Ask(next) ==
  /\ trAt' = next /\ rawBuffer' = << >>
  /\ trIn' = flushUART(trIn)
  /\ trOut' = trOut \o FrameOf([tag |-> "reply", scan |-> scan])
  /\ UNCHANGED <<tagList, scan, module, glitches>>

setPower == trAt = "setPower" /\ Ask("setReply")
getPower == trAt = "getPower" /\ Ask("getReply")

(* What setPower() returns is ignored: the inventory starts. *)
StartInventory ==
  /\ trAt = "start"
  /\ trAt' = "scan" /\ module' = "inventory" /\ rawBuffer' = << >>
  /\ UNCHANGED <<tagList, scan, trOut, trIn, glitches>>

(* START cannot be sent: read() returns false. *)
StartFails ==
  /\ trAt = "start"
  /\ trAt' = "off" /\ module' = "off" /\ trOut' = << >>
  /\ UNCHANGED <<scanVars, trIn, glitches>>

(* readFrame() fails, which ends setPower() or is ignored by the scan. *)
Failed ==
  /\ trAt' = IF trAt = "scan" THEN "scan" ELSE "start"
  /\ rawBuffer' = << >>
  /\ UNCHANGED <<tagList, scan, module, trOut, glitches>>

Reading ==
  /\ trAt \in {"setReply", "getReply", "scan"} /\ Len(rawBuffer) < 3
  /\ Len(tagList) < MAX_TAGS

Wanted == IF rawBuffer = << >> THEN 1 ELSE 3 - Len(rawBuffer)

ReadSymbol ==
  /\ Reading /\ Readable(trIn)
  /\ trIn' = Left(trIn, Wanted)
  /\ IF rawBuffer = << >> /\ trIn[1].part # "head"
     THEN Failed
     ELSE /\ rawBuffer' = rawBuffer \o Taken(trIn, Wanted)
          /\ UNCHANGED <<trAt, tagList, scan, module, trOut, glitches>>

(* 100 ms without a byte.  The scan polls before it calls readFrame(). *)
FrameTimesOut ==
  /\ Reading /\ ~Readable(trIn) /\ (trAt = "scan" => rawBuffer # << >>)
  /\ Failed /\ UNCHANGED trIn

SameEpc(f, g) == f.tag = g.tag /\ (f.tag = "phantom" => f.scan = g.scan)

isTagSeen_Last(f) == tagList # << >> /\ SameEpc(tagList[Len(tagList)], f)
isTagSeen(f) == \E i \in DOMAIN tagList : SameEpc(tagList[i], f)

(* parseFrame(): the notification of a tag, and not a reply. *)
NewTag ==
  /\ rawBuffer[1].of.tag # "reply" /\ rawBuffer[2].of.tag # "reply"
  /\ ~isTagSeen(rawBuffer[2].of)

(* A frame without its tail is ignored.  The module may refuse the power.   *)
FrameRead ==
  /\ Len(rawBuffer) = 3 /\ rawBuffer' = << >>
  /\ LET whole == rawBuffer[3].part = "tail" IN
     \/ /\ trAt = "scan"
        /\ tagList' = IF whole /\ NewTag THEN Append(tagList, rawBuffer[2].of) ELSE tagList
        /\ UNCHANGED trAt
     \/ /\ trAt = "setReply" /\ whole /\ rawBuffer[1].of.tag = "reply"
        /\ trAt' = "getPower" /\ UNCHANGED tagList
     \/ /\ trAt \in {"setReply", "getReply"}
        /\ trAt' = "start" /\ UNCHANGED tagList
  /\ UNCHANGED <<scan, lineVars>>

(* The list is full, 3 s have passed, or 0.5 s without a new tag: the module *)
(* is stopped and powered off, and what it had not sent is not sent.         *)
powerOff ==
  /\ trAt = "scan" /\ rawBuffer = << >>
  /\ trAt' = "off" /\ module' = "off" /\ trOut' = << >>
  /\ UNCHANGED <<scanVars, trIn, glitches>>

-----------------------------------------------------------------------------
(* The module and the line.  It reports a tag as often as it reads it. *)

ReportTag ==
  /\ module = "inventory" /\ trOut = << >>
  /\ \E t \in Tags : trOut' = FrameOf([tag |-> t, scan |-> scan])
  /\ UNCHANGED <<trAt, scanVars, module, trIn, glitches>>

(* A symbol comes in.  The port holds RxCap of them: see the assumption. *)
SymbolArrives ==
  /\ trOut # << >> /\ Len(trIn) < RxCap
  /\ trOut' = Tail(trOut) /\ trIn' = Append(trIn, trOut[1])
  /\ UNCHANGED <<trAt, scanVars, module, glitches>>

LineGlitch ==
  /\ glitches < MaxGlitches /\ glitches' = glitches + 1
  /\ \/ Len(trIn) < RxCap /\ trIn' = Append(trIn, Glitch(glitches')) /\ UNCHANGED trOut
     \/ trOut # << >> /\ trOut' = Tail(trOut) /\ UNCHANGED trIn
     \/ /\ trOut # << >> /\ trOut[1].part = "body"
        /\ trOut' = [trOut EXCEPT ![1] = Glitch(glitches')] /\ UNCHANGED trIn
  /\ UNCHANGED <<trAt, scanVars, module>>

readFrame == ReadSymbol \/ FrameTimesOut \/ FrameRead

TagReaderNext ==
  \/ powerOn \/ setPower \/ getPower \/ StartInventory \/ StartFails
  \/ readFrame \/ powerOff
  \/ ReportTag \/ SymbolArrives \/ LineGlitch

TagReaderSpec == TagReaderInit /\ [][TagReaderNext]_trVars

-----------------------------------------------------------------------------
(* Every variable has its type; the port holds no more than its bound. *)
TagReaderTypeOK ==
  /\ trAt \in {"off", "setPower", "setReply", "getPower", "getReply", "start", "scan"}
  /\ rawBuffer \in Seq(Symbols) /\ Len(rawBuffer) <= 3
  /\ tagList \in Seq(Frames \union Phantoms) /\ Len(tagList) <= MAX_TAGS
  /\ scan \in 0..MaxScans
  /\ module \in {"off", "on", "inventory"}
  /\ trOut \in Seq(Symbols) /\ trIn \in Seq(Symbols) /\ Len(trIn) <= RxCap
  /\ glitches \in 0..MaxGlitches

(* No tag of an earlier scan is listed in a later one, whatever was left in *)
(* the port: one taken out of the vault since would be an item "confirmed"  *)
(* (C_YRM1001.cpp:80-90, 341-445).                                          *)
TagsAreOfThisScan ==
  \A i \in DOMAIN tagList : tagList[i].tag # "phantom" => tagList[i].scan = scan

(* No more tags are counted than there are, but for one for each           *)
(* disturbance of the line, though the module reports a tag many times and *)
(* the driver does not insist on the checksum (C_YRM1001.cpp:217-223,      *)
(* 330-338): this is the number that the inventory log states.             *)
CountIsHonest == Len(tagList) <= Cardinality(Tags) + glitches
=============================================================================
