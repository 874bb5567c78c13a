\* Movement seen of a user marked outside for whom the door is not free yet.
SPECIFICATION LeaverSpec
CONSTANTS
  known = known
  stranger = stranger
  NoCard = NoCard
  Cards <- MCCards
  Registered <- MCRegistered
  Requests <- RoomRequests
  OtherMsgs <- RoomMsgs
  Threads = {"exit", "pir", "entry"}
  MaxAttempts = 3
  ReplyCap = 2
  MaxReed = 1
  ActCap = 1
  DbCap = 1
  FaultyServos = {}
  MaxCallbacks = 0
PROPERTY NoAlarmForLeavingUser
CHECK_DEADLOCK FALSE
