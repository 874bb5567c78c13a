\* Queues smaller than the requests that may be given up: every send blocks
\* at times.
SPECIFICATION FairWebSpec
CONSTANTS
  ana = ana
  admin = admin
  NoOne = NoOne
  People <- MCPeople
  Level <- MCLevel
  DbCap = 1
  WebCap = 1
  MaxRequests = 4
INVARIANTS AnswersInOrder SessionsWereProved
PROPERTIES LateForGood StopEndsServer
CHECK_DEADLOCK FALSE
