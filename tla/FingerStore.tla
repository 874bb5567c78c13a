---------------------------- MODULE FingerStore ----------------------------
(***************************************************************************)
(* What a call of the fingerprint driver promises the vault thread, without *)
(* commands, answers, noise and time-outs: while a call is open the sensor *)
(* may do what the call asks, and nothing else changes it; a call that     *)
(* reports success has been done; one that fails may have been done or     *)
(* not; and once the call is over nothing of it is left.  Fingerprint      *)
(* implements this specification.                                          *)
(***************************************************************************)
CONSTANT Slots

Calls == [kind : {"read", "addUser", "deleteUser"}, slot : Slots]

VARIABLES
  templates,  \* the slots that hold a finger
  call,       \* the call, or the last one
  phase,      \* "idle", "open", or how the call ended
  found       \* the slot it returns: for a match that of the finger

storeVars == <<templates, call, phase, found>>

Init ==
  /\ templates \in SUBSET Slots
  /\ call \in Calls
  /\ phase = "idle"
  /\ found = call.slot

Begin(c) ==
  /\ phase = "idle"
  /\ phase' = "open" /\ call' = c /\ found' = c.slot
  /\ UNCHANGED templates

(* What the call asks for, done. *)
Done ==
  CASE call.kind = "addUser"    -> templates \union {call.slot}
    [] call.kind = "deleteUser" -> templates \ {call.slot}
    [] OTHER                    -> templates

(* The sensor may still do it when the driver has given up. *)
TakeEffect ==
  /\ phase \in {"open", "failed"}
  /\ templates' = Done
  /\ UNCHANGED <<call, phase, found>>

Succeed ==
  /\ phase = "open"
  /\ call.kind # "read" /\ templates = Done
  /\ phase' = "success"
  /\ UNCHANGED <<templates, call, found>>

MatchSlot(s) ==
  /\ phase = "open"
  /\ call.kind = "read" /\ s \in templates
  /\ phase' = "match" /\ found' = s
  /\ UNCHANGED <<templates, call>>

Fail ==
  /\ phase = "open"
  /\ phase' = "failed"
  /\ UNCHANGED <<templates, call, found>>

End ==
  /\ phase \in {"success", "match", "failed"}
  /\ phase' = "idle" /\ found' = call.slot
  /\ UNCHANGED <<templates, call>>

Next ==
  \/ \E c \in Calls : Begin(c)
  \/ TakeEffect
  \/ Succeed \/ Fail \/ \E s \in Slots : MatchSlot(s)
  \/ End

Spec == Init /\ [][Next]_storeVars
=============================================================================
