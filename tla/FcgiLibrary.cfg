CONSTANTS
  HeaderSize = 2
  BeginSize = 2
  InSize = 2
  OutSize = 1
  Scripts <- MCScripts
  MaxConns = 1
  MaxPuts = 2
SPECIFICATION LibrarySpec
INVARIANTS RequestArrives AnswerIntact NextRequestFound
CHECK_DEADLOCK FALSE
