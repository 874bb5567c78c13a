SPECIFICATION Spec
CONSTANTS
  MaxStarts = 2
  MaxSignals = 1
  MaxCrashes = 1
  MaxLogs = 1
INVARIANTS
  StopsInOrder
  OneSetOfQueues
  QueuesOutliveFailuresOnly
  AlarmEndsWithCore
  TableTellsAlarm
PROPERTY
  StopIsHeeded
CHECK_DEADLOCK FALSE
