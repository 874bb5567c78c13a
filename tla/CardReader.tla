---------------------------- MODULE CardReader -----------------------------
(***************************************************************************)
(* The driver of an RDM6300, the reader of cards at the door, and the      *)
(* reader, which sends a frame again and again while a card is near.       *)
(* read() takes one frame and drops whatever follows it.  A frame is three *)
(* symbols: STX, the body (ten digits and their checksum) and ETX.         *)
(***************************************************************************)
EXTENDS Uart

CONSTANTS
  CardCap,      \* bound: symbols that wait in the port
  MaxReads,     \* bound: calls of read()
  MaxCardNoise  \* bound: disturbances on the line

ASSUME CardReaderAssumption ==
  CardCap \in Nat /\ MaxReads \in Nat /\ MaxCardNoise \in Nat

VARIABLES
  crAt,     \* where read() is; "idle" before it and "done" at its return
  crBuffer, \* m_rawBuffer
  success,  \* what the last read() returned
  reads,    \* calls of read() that have returned
  crOut,    \* what the reader has yet to send
  crIn,     \* what has come in, each symbol with the reads ended by then
  crNoise   \* disturbances so far

crVars == <<crAt, crBuffer, success, reads, crOut, crIn, crNoise>>

Parts == {"STX", "body", "ETX"}
Come  == [part : Parts \union {"noise"}, after : 0..MaxReads]

CardReaderInit ==
  /\ crAt = "idle" /\ crBuffer = << >> /\ success = FALSE /\ reads = 0
  /\ crOut = << >> /\ crIn = << >> /\ crNoise = 0

-----------------------------------------------------------------------------
(* The driver.  A definition with a two-part name is a plausible bug of the *)
(* one after it.                                                            *)

CardReturns(s) ==
  /\ crAt' = "done" /\ success' = s /\ reads' = reads + 1
  /\ UNCHANGED <<crOut, crNoise>>

(* The thread calls read() when the monitor says that a card is there. *)
CallRead ==
  /\ crAt \in {"idle", "done"} /\ reads < MaxReads
  /\ crAt' = "header" /\ crBuffer' = << >>
  /\ UNCHANGED <<success, reads, crOut, crIn, crNoise>>

(* waitForData(1000) or waitForData(100) in the middle of a frame. *)
CardTimesOut ==
  /\ crAt \in {"header", "rest"} /\ Len(crBuffer) < 3 /\ ~Readable(crIn)
  /\ CardReturns(FALSE) /\ UNCHANGED <<crBuffer, crIn>>

ReadHeader ==
  /\ crAt = "header" /\ Readable(crIn) /\ crIn[1].part = "STX"
  /\ crAt' = "rest" /\ crBuffer' = Taken(crIn, 1) /\ crIn' = Left(crIn, 1)
  /\ UNCHANGED <<success, reads, crOut, crNoise>>

(* Not the start of a frame: it is dropped with all that waits. *)
DropNoise ==
  /\ crAt = "header" /\ Readable(crIn) /\ crIn[1].part # "STX"
  /\ crIn' = << >> /\ UNCHANGED crBuffer
  /\ CardReturns(FALSE)

Unread == 3 - Len(crBuffer)

ReadRest ==
  /\ crAt = "rest" /\ Len(crBuffer) < 3 /\ Readable(crIn)
  /\ crBuffer' = crBuffer \o Taken(crIn, Unread) /\ crIn' = Left(crIn, Unread)
  /\ UNCHANGED <<crAt, success, reads, crOut, crNoise>>

FlushTrailing_Not(q) == q
FlushTrailing(q) == << >>

(* ETX in its place, and the checksum of the body. *)
Finished ==
  /\ crAt = "rest" /\ Len(crBuffer) = 3
  /\ crIn' = FlushTrailing(crIn) /\ UNCHANGED crBuffer
  /\ CardReturns(crBuffer[2].part = "body" /\ crBuffer[3].part = "ETX")

-----------------------------------------------------------------------------
(* The reader and the line. *)

SendCard ==
  /\ crOut = << >> /\ crOut' = <<"STX", "body", "ETX">>
  /\ UNCHANGED <<crAt, crBuffer, success, reads, crIn, crNoise>>

Arrival(part) == Append(crIn, [part |-> part, after |-> reads])

CardArrives ==
  /\ crOut # << >> /\ crOut' = Tail(crOut)
  /\ crIn' = IF Len(crIn) < CardCap THEN Arrival(crOut[1]) ELSE crIn
  /\ UNCHANGED <<crAt, crBuffer, success, reads, crNoise>>

(* A symbol is lost on the way, or comes in as something else. *)
CardGarbled ==
  /\ crOut # << >> /\ crOut' = Tail(crOut)
  /\ crNoise < MaxCardNoise /\ crNoise' = crNoise + 1
  /\ \/ UNCHANGED crIn
     \/ Len(crIn) < CardCap /\ crIn' = Arrival("noise")
  /\ UNCHANGED <<crAt, crBuffer, success, reads>>

readCard == CallRead \/ CardTimesOut \/ ReadHeader \/ DropNoise \/ ReadRest \/ Finished

CardReaderNext == readCard \/ SendCard \/ CardArrives \/ CardGarbled

CardReaderSpec == CardReaderInit /\ [][CardReaderNext]_crVars

-----------------------------------------------------------------------------
(* Every variable has its type; the port holds no more than its bound. *)
CardReaderTypeOK ==
  /\ crAt \in {"idle", "header", "rest", "done"}
  /\ crBuffer \in Seq(Come) /\ Len(crBuffer) <= 3
  /\ success \in BOOLEAN /\ reads \in 0..MaxReads
  /\ crOut \in Seq(Parts)
  /\ crIn \in Seq(Come) /\ Len(crIn) <= CardCap
  /\ crNoise \in 0..MaxCardNoise

(* A card that is read came in after the read before it had returned: one  *)
(* frame, or what followed it then, never opens the door a second time     *)
(* (C_RDM6300.cpp:34-86).  It may have come in long before the read that   *)
(* takes it: nothing is dropped at the start, so a card shown while the    *)
(* thread still served the one before it is taken next.                    *)
CardIsFresh ==
  crAt = "done" /\ success =>
    \A i \in 1..3 : crBuffer[i].after = reads - 1
=============================================================================
