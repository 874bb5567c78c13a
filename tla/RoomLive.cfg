\* The entry thread with its three attempts and the PIR thread, under fairness; queues of one message.
SPECIFICATION FairRoomSpec
CONSTANTS
  known = known
  stranger = stranger
  NoCard = NoCard
  Cards <- MCCards
  Registered <- MCRegistered
  Requests <- RoomRequests
  OtherMsgs <- RoomMsgs
  Threads = {"entry","pir"}
  MaxAttempts = 3
  ReplyCap = 1
  MaxReed = 1
  ActCap = 1
  DbCap = 1
  FaultyServos = {}
  MaxCallbacks = 0
PROPERTIES ThirdDenialSoundsAlarm EveryRequestIsAnswered ImplementsAccessControl
CHECK_DEADLOCK FALSE
