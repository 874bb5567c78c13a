------------------------------- MODULE Servo -------------------------------
(***************************************************************************)
(* The servo of a door and the PWM channel it is driven through.  The      *)
(* channel is files of the kernel: it keeps its state when the core dies,  *)
(* and a write to it may fail.                                             *)
(***************************************************************************)
EXTENDS Integers

CONSTANTS
  Angles,       \* what set_value() is given
  MaxCalls,     \* bound: calls of set_value()
  MaxFailures,  \* bound: writes that fail
  MaxDeaths     \* bound: ends of the core without its destructors

ASSUME ServoAssumption ==
  /\ Angles \subseteq 0..255
  /\ MaxCalls \in Nat /\ MaxFailures \in Nat /\ MaxDeaths \in Nat

VARIABLES
  svAt,       \* where the driver is; "down" when there is no core
  angle,      \* the angle of the call
  returned,   \* what the last set_value() returned; FALSE before the first
  unheeded,   \* the write of stop() failed, which nobody is told
  exported,   \* the channel: whether it is there,
  enabled,    \*   whether it is on, and
  pulse,      \*   duty_cycle, in nanoseconds
  calls, failures, deaths

channel  == <<exported, enabled, pulse>>
servoVars == <<svAt, angle, returned, unheeded, channel, calls, failures, deaths>>

DUTY_MIN == 5
DUTY_MAX == 10
PERIOD   == 20000000

ServoInit ==
  /\ svAt = "down" /\ angle = 0 /\ returned = FALSE /\ unheeded = FALSE
  /\ exported = FALSE /\ enabled = FALSE /\ pulse = 0
  /\ calls = 0 /\ failures = 0 /\ deaths = 0

-----------------------------------------------------------------------------
(* A definition with a two-part name is a plausible bug of the one after    *)
(* it.                                                                      *)

angleToDutyCycle_Full(a) == DUTY_MIN + ((a * DUTY_MAX) \div 180)
angleToDutyCycle(a) == DUTY_MIN + ((a * (DUTY_MAX - DUTY_MIN)) \div 180)

(* setDutyCycle: the product is of 32 bits, as TLC's own are. *)
PulseOf(duty) == (PERIOD * (IF duty > 100 THEN 100 ELSE duty)) \div 100

(* One write to the channel: it takes effect, or fails. *)
Write(effect, after, onFailure) ==
  \/ effect /\ after /\ UNCHANGED <<failures, unheeded>>
  \/ /\ failures < MaxFailures /\ failures' = failures + 1
     /\ onFailure /\ UNCHANGED channel

SetEnable(on) == enabled' = on /\ UNCHANGED <<exported, pulse>>
SetDuty(duty) == pulse' = PulseOf(duty) /\ UNCHANGED <<exported, enabled>>

GoTo(place) == svAt' = place /\ UNCHANGED returned
Return(r)   == svAt' = "ready" /\ returned' = r
GiveUp      == GoTo("failed") /\ UNCHANGED unheeded

(* C_PWM::init: a channel left behind by an earlier core is taken over, one *)
(* that is not there may fail to be made.                                   *)
Export ==
  /\ svAt = "down" /\ returned' = FALSE /\ unheeded' = FALSE
  /\ \/ exported' = TRUE /\ svAt' = "period" /\ UNCHANGED failures
     \/ /\ ~exported /\ failures < MaxFailures /\ failures' = failures + 1
        /\ svAt' = "failed" /\ UNCHANGED exported
  /\ UNCHANGED <<angle, enabled, pulse, calls, deaths>>

SetPeriod ==
  /\ svAt = "period" /\ Write(UNCHANGED channel, GoTo("enable"), GiveUp)
  /\ UNCHANGED <<angle, calls, deaths>>

FirstEnable ==
  /\ svAt = "enable" /\ Write(SetEnable(TRUE), GoTo("first"), GiveUp)
  /\ UNCHANGED <<angle, calls, deaths>>

(* 90 is a duty cycle here, though the doors are told 90 as an angle. *)
FirstDuty ==
  /\ svAt = "first" /\ Write(SetDuty(90), GoTo("ready"), GiveUp)
  /\ UNCHANGED <<angle, calls, deaths>>

set_value(a) ==
  /\ svAt = "ready" /\ calls < MaxCalls /\ calls' = calls + 1
  /\ svAt' = "wake" /\ angle' = a /\ returned' = FALSE /\ unheeded' = FALSE
  /\ UNCHANGED <<channel, failures, deaths>>

Wake_Not == svAt = "wake" /\ GoTo("move") /\ UNCHANGED <<angle, unheeded, channel, calls, failures, deaths>>
Wake ==
  /\ svAt = "wake"
  /\ Write(SetEnable(TRUE), GoTo("move"), Return(FALSE) /\ UNCHANGED unheeded)
  /\ UNCHANGED <<angle, calls, deaths>>

(* 0 stops the pulses and never fails; another angle is limited to 180. *)
Release ==
  /\ svAt = "move" /\ angle = 0
  /\ Write(SetEnable(FALSE), Return(TRUE), Return(TRUE) /\ unheeded' = TRUE)
  /\ UNCHANGED <<angle, calls, deaths>>

Move ==
  /\ svAt = "move" /\ angle # 0
  /\ LET a == IF angle > 180 THEN 180 ELSE angle IN
     Write(SetDuty(angleToDutyCycle(a)), Return(TRUE), Return(FALSE) /\ UNCHANGED unheeded)
  /\ UNCHANGED <<angle, calls, deaths>>

(* The destructors of the servo and of the channel, which is given back. *)
Destroy ==
  /\ svAt \in {"ready", "failed"}
  /\ svAt' = "down" /\ exported' = FALSE /\ enabled' = FALSE
  /\ UNCHANGED <<angle, returned, unheeded, pulse, calls, failures, deaths>>

(* The core is killed: nothing is undone. *)
Die ==
  /\ svAt # "down" /\ deaths < MaxDeaths /\ deaths' = deaths + 1
  /\ GoTo("down") /\ UNCHANGED <<angle, unheeded, channel, calls, failures>>

init == Export \/ SetPeriod \/ FirstEnable \/ FirstDuty

ServoNext ==
  \/ init \/ Wake \/ Release \/ Move \/ Destroy \/ Die
  \/ \E a \in Angles : set_value(a)

ServoSpec == ServoInit /\ [][ServoNext]_servoVars

-----------------------------------------------------------------------------
(* When set_value() has returned true, the channel does what it was told,  *)
(* whatever failed or died before: for 0 it is off, unless the write of    *)
(* stop() failed; for any other angle it is on, with a pulse of 1 to 2 ms, *)
(* the longest from 180 degrees on (C_ServoMG996R.cpp:22-26, 54-85;        *)
(* C_PWM.cpp:92-142).                                                      *)
ToldIsDone ==
  svAt = "ready" /\ returned =>
    IF angle = 0 THEN enabled => unheeded
    ELSE /\ exported /\ enabled
         /\ pulse \in PulseOf(DUTY_MIN)..PulseOf(DUTY_MAX)
         /\ angle >= 180 => pulse = PulseOf(DUTY_MAX)
=============================================================================
