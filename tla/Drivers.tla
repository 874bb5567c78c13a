------------------------------ MODULE Drivers ------------------------------
(***************************************************************************)
(* The drivers of the devices.  They share nothing: every behaviour is     *)
(* that of one of them, chosen at the start, and the others stay as they   *)
(* are.                                                                    *)
(***************************************************************************)
EXTENDS Fingerprint, TagReader, CardReader, Servo, Sht30

VARIABLE driver   \* the driver whose behaviour this is

vars == <<driver, fpVars, trVars, crVars, servoVars, thVars>>

Init ==
  /\ driver \in {"fingerprint", "tags", "card", "servo", "climate"}
  /\ FingerprintInit /\ TagReaderInit /\ CardReaderInit /\ ServoInit /\ Sht30Init
  /\ driver = "fingerprint" \/ templates = {}   \* the others do without

Next ==
  \/ /\ driver = "fingerprint" /\ FingerprintNext
     /\ UNCHANGED <<driver, trVars, crVars, servoVars, thVars>>
  \/ /\ driver = "tags" /\ TagReaderNext
     /\ UNCHANGED <<driver, fpVars, crVars, servoVars, thVars>>
  \/ /\ driver = "card" /\ CardReaderNext
     /\ UNCHANGED <<driver, fpVars, trVars, servoVars, thVars>>
  \/ /\ driver = "servo" /\ ServoNext
     /\ UNCHANGED <<driver, fpVars, trVars, crVars, thVars>>
  \/ /\ driver = "climate" /\ Sht30Next
     /\ UNCHANGED <<driver, fpVars, trVars, crVars, servoVars>>

Spec == Init /\ [][Next]_vars
=============================================================================
