\* The alarm and two doors, the vault's servo faulty.
SPECIFICATION FairSpec
CONSTANTS
  ActCap = 2
  DbCap = 1
  MaxCallbacks = 2
  other = other
  Requests <- DoorAndAlarm
  OtherMsgs <- MCOtherMsgs
  FaultyServos = {"SERVO_VAULT"}
INVARIANTS
  AlarmGuarded
  TableFollowsHardware
PROPERTY AlarmEnds
CHECK_DEADLOCK FALSE
