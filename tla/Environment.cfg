\* Every queue holds one message, and every send to it blocks at times.
SPECIFICATION FairEnvSpec
CONSTANTS
  Temps <- MCTemps
  Chosen <- MCChosen
  SeedSettings <- MCSeed
  CoreDefaults <- MCDefaults
  Requests <- EnvRequests
  OtherMsgs <- EnvMsgs
  FaultyServos = {}
  MaxCallbacks = 0
  WebCap = 1
  MaxRequests = 2
  EnvCap = 1
  ActCap = 1
  DbCap = 1
INVARIANTS FanTellsLastState SettingsAreCurrentOrDefault
PROPERTY StopReachesEnv
CHECK_DEADLOCK FALSE
