CONSTANTS
  Requests <- McRequests
  Documents <- McDocuments
  Names = {"params", "name"}
  MaxCalls = 7
  MaxNest = 2
  DocumentRoot <- McRoot
  Kind <- McKind
  Hash <- McHash
  KeyLength = 24
  KeyBytes = 16
  Known <- McKnown
SPECIFICATION EndpointsSpec
INVARIANTS DocumentsUnderstood AnswerFramed StaysInside AppExchange
CHECK_DEADLOCK FALSE
