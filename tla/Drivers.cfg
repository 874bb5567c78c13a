\* The drivers of the devices.  Slot 13 is the ID that ICRNL spoils; the port of
\* the tag reader holds what two flushes discard, a flush one frame.
CONSTANTS
  Slots = {1, 13}
  MaxCommands = 4
  MaxNoise = 2
  Tags = {t1, t2}
  MAX_TAGS = 4
  FlushMax = 3
  RxCap = 6
  MaxScans = 2
  MaxGlitches = 2
  CardCap = 5
  MaxReads = 3
  MaxCardNoise = 2
  Angles = {0, 1, 90, 180, 255}
  MaxCalls = 3
  MaxFailures = 2
  MaxDeaths = 1
  Bytes = {{}, {1, 2, 5, 6}}
SPECIFICATION Spec
INVARIANTS
  AnswerIsOfThisCommand
  TagsAreOfThisScan
  CountIsHonest
  CardIsFresh
  ToldIsDone
  ReadingIsMeasured
PROPERTY ImplementsFingerStore
\* The bounded commands, scans and reads end.
CHECK_DEADLOCK FALSE
