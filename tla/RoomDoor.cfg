\* The two card threads, the door and the alarm; queues of one message.
SPECIFICATION RoomSpec
CONSTANTS
  known = known
  stranger = stranger
  NoCard = NoCard
  Cards <- MCCards
  Registered <- MCRegistered
  Requests <- RoomRequests
  OtherMsgs <- RoomMsgs
  Threads = {"entry", "exit"}
  MaxAttempts = 2
  ReplyCap = 1
  MaxReed = 1
  ActCap = 1
  DbCap = 1
  FaultyServos = {}
  MaxCallbacks = 1
INVARIANTS
  RoomTypeOK
  ReplyIsMine
  OnlyRegisteredPass
  FreeDoorIsHeld
PROPERTY ImplementsActuation
CHECK_DEADLOCK FALSE
