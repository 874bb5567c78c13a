---------------------------- MODULE Fingerprint ----------------------------
(***************************************************************************)
(* The driver of the fingerprint sensor, and the sensor: commands and      *)
(* answers of eight bytes over a serial port.  The driver waits some       *)
(* seconds for an answer and gives up; an answer says which command it is  *)
(* for, but the driver does not look.  That it never takes the answer to   *)
(* one command for that to another rests on the flush before a command and *)
(* on the reset line, which it lowers after each call.                     *)
(***************************************************************************)
EXTENDS Uart

CONSTANTS
  Slots,        \* places for templates, by the 16 bits of their ID
  MaxCommands,  \* bound: commands sent to the sensor
  MaxNoise      \* bound: disturbances on the line

(* The 16 bits of an ID that reach the sensor. *)
FingerIds == 0..65535

ASSUME FingerprintAssumption ==
  /\ Slots # {} /\ Slots \subseteq FingerIds
  /\ MaxCommands \in Nat
  /\ MaxNoise \in Nat

VARIABLES
  fpAt,       \* where the driver is; "idle" outside wakeUp() ... sleep()
  call,       \* the call: read, addUser or deleteUser, and the slot
  command,    \* its command: 1 to 3 for CMD_ADD_1 to CMD_ADD_3, else 1
  fpGot,      \* rx: what of the answer has been read
  status,     \* what the last executeCommand returned
  serial,     \* commands sent so far
  doing,      \* the command the sensor works on, by its serial; 0 if none
  enrolled,   \* how many of the three ADD commands it has accepted
  templates,  \* the slots that hold a finger
  fpOut,      \* what the sensor has yet to send
  fpIn,       \* what has come in
  fpNoise     \* disturbances so far

driverVars == <<fpAt, call, command, fpGot, status, serial>>
sensorVars == <<doing, enrolled, templates, fpOut>>
fpVars     == <<driverVars, sensorVars, fpIn, fpNoise>>

Calls == [kind : {"read", "addUser", "deleteUser"}, slot : Slots]

(* Q3 of an answer; "match" is one of the permissions 1, 2 and 3, "broken"  *)
(* the 0xFF of a frame that fails the checks, and "timeout" no answer.      *)
Statuses == {"success", "match", "refused", "broken", "timeout"}

Answers == [serial : 1..MaxCommands, status : Statuses, slot : Slots]
Halves  == [half : {1, 2}, of : Answers]
Disturbance == [half |-> 0]

FingerprintInit ==
  /\ fpAt = "idle" /\ call = [kind |-> "read", slot |-> CHOOSE s \in Slots : TRUE] /\ command = 1 /\ fpGot = << >>
  /\ status = "timeout" /\ serial = 0
  /\ doing = 0 /\ enrolled = 0 /\ templates \in SUBSET Slots /\ fpOut = << >>
  /\ fpIn = << >> /\ fpNoise = 0

-----------------------------------------------------------------------------
(* The driver.  A definition with a two-part name is a plausible bug of the *)
(* one after it.                                                            *)

wakeUp(c) ==
  /\ fpAt = "idle"
  /\ fpAt' = "flush" /\ call' = c /\ command' = 1
  /\ UNCHANGED <<fpGot, status, serial, sensorVars, fpIn, fpNoise>>

Flush_Not ==
  /\ fpAt = "flush"
  /\ fpAt' = "send"
  /\ UNCHANGED <<call, command, fpGot, status, serial, sensorVars, fpIn, fpNoise>>

(* Eleven reads of 64 bytes: more than a late answer leaves. *)
Flush ==
  /\ fpAt = "flush"
  /\ fpAt' = "send" /\ fpIn' = << >>
  /\ UNCHANGED <<call, command, fpGot, status, serial, sensorVars, fpNoise>>

Send ==
  /\ fpAt = "send" /\ serial < MaxCommands
  /\ fpAt' = "await" /\ fpGot' = << >>
  /\ serial' = serial + 1 /\ doing' = serial'
  /\ UNCHANGED <<call, command, status, enrolled, templates, fpOut, fpIn, fpNoise>>

Missing == 2 - Len(fpGot)

Receive ==
  /\ fpAt = "await" /\ Len(fpGot) < 2 /\ Readable(fpIn)
  /\ fpGot' = fpGot \o Taken(fpIn, Missing) /\ fpIn' = Left(fpIn, Missing)
  /\ UNCHANGED <<fpAt, call, command, status, serial, sensorVars, fpNoise>>

(* ICRNL, which configPort leaves set, turns a byte 13 into a 10, and the   *)
(* checksum is then wrong.  The answer to CMD_MATCH holds the slot in two   *)
(* bytes, the permission, which is 1 for all that addUser enrols, and their *)
(* checksum with CMD_MATCH: 13 when the bytes of the slot are equal.        *)
Legible(a) ==
  a.status = "match" => LET low == a.slot % 256  high == a.slot \div 256 IN
                        13 \notin {low, high} /\ low # high

(* Head, tail and checksum are right: both halves are of one answer. *)
Whole ==
  /\ fpGot[1].half = 1 /\ fpGot[2].half = 2 /\ fpGot[1].of = fpGot[2].of
  /\ Legible(fpGot[1].of)

(* A call of addUser goes on after a success; any other call is over. *)
Returned(s) ==
  /\ status' = s
  /\ IF call.kind = "addUser" /\ s = "success" /\ command < 3
     THEN fpAt' = "flush" /\ command' = command + 1
     ELSE fpAt' = "over" /\ UNCHANGED command

Complete ==
  /\ fpAt = "await" /\ Len(fpGot) = 2
  /\ Returned(IF Whole THEN fpGot[1].of.status ELSE "broken")
  /\ UNCHANGED <<call, fpGot, serial, sensorVars, fpIn, fpNoise>>

Timeout ==
  /\ fpAt = "await" /\ Len(fpGot) < 2 /\ ~Readable(fpIn)
  /\ Returned("timeout")
  /\ UNCHANGED <<call, fpGot, serial, sensorVars, fpIn, fpNoise>>

sleep_StaysOn ==
  /\ fpAt = "over"
  /\ fpAt' = "idle"
  /\ UNCHANGED <<call, command, fpGot, status, serial, sensorVars, fpIn, fpNoise>>

(* The reset line is low: the sensor forgets what it was doing. *)
sleep ==
  /\ fpAt = "over"
  /\ fpAt' = "idle"
  /\ doing' = 0 /\ enrolled' = 0 /\ fpOut' = << >>
  /\ UNCHANGED <<call, command, fpGot, status, serial, templates, fpIn, fpNoise>>

-----------------------------------------------------------------------------
(* The sensor. *)

Answer(s, slot) ==
  LET a == [serial |-> doing, status |-> s, slot |-> slot] IN
  /\ doing' = 0
  /\ fpOut' = fpOut \o <<[half |-> 1, of |-> a], [half |-> 2, of |-> a]>>
  /\ UNCHANGED <<driverVars, fpIn, fpNoise>>

(* By its statuses for it: a refusal of CMD_MATCH with ACK_FAIL, which is 1, *)
(* would be read as a match of permission 1.                                 *)
Refuse == doing # 0 /\ Answer("refused", call.slot) /\ UNCHANGED <<enrolled, templates>>

MatchFinger(slot) ==
  /\ doing # 0 /\ call.kind = "read" /\ slot \in templates
  /\ Answer("match", slot)
  /\ UNCHANGED <<enrolled, templates>>

AcceptAdd ==
  /\ doing # 0 /\ call.kind = "addUser" /\ command = enrolled + 1
  /\ Answer("success", call.slot)
  /\ enrolled' = enrolled + 1
  /\ templates' = IF enrolled' = 3 THEN templates \union {call.slot} ELSE templates

Delete ==
  /\ doing # 0 /\ call.kind = "deleteUser"
  /\ Answer("success", call.slot)
  /\ templates' = templates \ {call.slot}
  /\ UNCHANGED enrolled

Transmit ==
  /\ fpOut # << >>
  /\ fpIn' = Append(fpIn, Head(fpOut)) /\ fpOut' = Tail(fpOut)
  /\ UNCHANGED <<driverVars, doing, enrolled, templates, fpNoise>>

(* A byte that nobody sent comes in, or one that was sent does not. *)
Disturb ==
  /\ fpNoise < MaxNoise /\ fpNoise' = fpNoise + 1
  /\ \/ fpIn' = Append(fpIn, Disturbance) /\ UNCHANGED fpOut
     \/ fpOut # << >> /\ fpOut' = Tail(fpOut) /\ UNCHANGED fpIn
  /\ UNCHANGED <<driverVars, doing, enrolled, templates>>

executeCommand == Flush \/ Send \/ Receive \/ Complete \/ Timeout

Sensor ==
  \/ Refuse \/ AcceptAdd \/ Delete \/ Transmit
  \/ \E slot \in Slots : MatchFinger(slot)

FingerprintNext ==
  \/ \E c \in Calls : wakeUp(c)
  \/ executeCommand \/ sleep
  \/ Sensor \/ Disturb

FingerprintSpec == FingerprintInit /\ [][FingerprintNext]_fpVars

-----------------------------------------------------------------------------
(* Every variable has its type. *)
FingerprintTypeOK ==
  /\ fpAt \in {"idle", "flush", "send", "await", "over"}
  /\ call \in Calls /\ command \in 1..3
  /\ fpGot \in Seq(Halves \union {Disturbance}) /\ Len(fpGot) <= 2
  /\ status \in Statuses /\ serial \in 0..MaxCommands
  /\ doing \in 0..serial /\ enrolled \in 0..3 /\ templates \subseteq Slots
  /\ fpOut \in Seq(Halves)
  /\ fpIn \in Seq(Halves \union {Disturbance})
  /\ fpNoise \in 0..MaxNoise

(* A whole answer is the answer to the command last sent: neither a late    *)
(* one, nor one that noise has shifted, passes for it, though executeCommand *)
(* does not compare rx[1] (C_Fingerprint.cpp:93-104, 151-169).              *)
AnswerIsOfThisCommand ==
  fpAt = "await" /\ Len(fpGot) = 2 /\ Whole => fpGot[1].of.serial = serial

(* What a call returns is true of the sensor when it returns: a user said   *)
(* to be enrolled is, one said to be deleted is not there, and whoever is   *)
(* verified has a template (C_Fingerprint.cpp:35-86).  Not the converse: a  *)
(* finger may be enrolled, or deleted, and the answer be lost.              *)
ResultTellsTemplates ==
  fpAt = "over" =>
    /\ call.kind = "addUser" /\ status = "success" => call.slot \in templates
    /\ call.kind = "deleteUser" /\ status = "success" => call.slot \notin templates
    /\ call.kind = "read" /\ status = "match" => fpGot[1].of.slot \in templates

(* Callers may take a call for one step that is done or not: nothing but the *)
(* call that is open ever changes the templates, so a command that was       *)
(* given up on never acts in a later call, and success means done           *)
(* (C_Fingerprint.cpp:27-86; C_tVerifyVaultAccess.cpp:42-83).                *)
Phase ==
  CASE fpAt = "idle" -> "idle"
    [] fpAt = "over" -> IF status \in {"success", "match"} THEN status ELSE "failed"
    [] OTHER         -> "open"

Found == IF Phase = "match" THEN fpGot[1].of.slot ELSE call.slot

Store == INSTANCE FingerStore WITH phase <- Phase, found <- Found

ImplementsFingerStore == Store!Spec
=============================================================================
