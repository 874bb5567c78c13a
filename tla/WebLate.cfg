SPECIFICATION WebSpec
CONSTANTS
  ana = ana
  admin = admin
  NoOne = NoOne
  People <- MCPeople
  Level <- MCLevel
  DbCap = 2
  WebCap = 2
  MaxRequests = 2
PROPERTY AnswersAreMine
CHECK_DEADLOCK FALSE
