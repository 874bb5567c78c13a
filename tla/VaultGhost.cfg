\* A user is deleted before the finger is enrolled.
SPECIFICATION VaultSpec
CONSTANTS
  ana = ana
  c1 = c1
  AdminName = AdminName
  NoCard = NoCard
  Names <- MCNames
  Cards <- MCCards
  Fingers <- MCFingers
  MaxUserId = 4
  UserCommands <- MCFingerCommands
  Slots = 100
  SensorFails = FALSE
  FingerCap = 2
  WebCap = 2
  MaxRequests = 2
  MaxReed = 1
  Requests <- VaultRequests
  OtherMsgs <- VaultMsgs
  ActCap = 1
  DbCap = 1
  FaultyServos = {}
  MaxCallbacks = 0
INVARIANT DeletedFingersAreGone
CHECK_DEADLOCK FALSE
