\* Users come and go while the vault opens and closes.
SPECIFICATION FairVaultSpec
CONSTANTS
  ana = ana
  c1 = c1
  AdminName = AdminName
  NoCard = NoCard
  Names <- MCNames
  Cards <- MCCards
  Fingers <- MCFingers
  MaxUserId = 4
  UserCommands <- MCCommands
  Slots = 1
  SensorFails = TRUE
  FingerCap = 1
  WebCap = 1
  MaxRequests = 2
  MaxReed = 1
  Requests <- VaultRequests
  OtherMsgs <- VaultMsgs
  ActCap = 1
  DbCap = 1
  FaultyServos = {}
  MaxCallbacks = 0
INVARIANTS
  FreeVaultIsHeld
  LastCommandTellsTable
  LevelTellsCredentials
  NobodyIsLockedOut
PROPERTIES VaultImplementsActuation CommandsAreTaken
CHECK_DEADLOCK FALSE
