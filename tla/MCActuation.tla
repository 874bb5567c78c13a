---------------------------- MODULE MCActuation ----------------------------
(* Model values and small sets for model-checking Actuation. *)
EXTENDS Actuation

CONSTANT other   \* any message to the database that is not an actuator log

MCOtherMsgs == {other}

(* The alarm with both doors. *)
DoorAndAlarm == {Cmd("SERVO_ROOM", 0), Cmd("SERVO_ROOM", 90),
                 Cmd("SERVO_VAULT", 90), AlarmOn}
=============================================================================
