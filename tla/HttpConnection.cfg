CONSTANTS
  Requests <- AllRequests
  MaxRequests = 2
SPECIFICATION FairSpec
INVARIANTS RequestsInStep
PROPERTIES AnswersInOrder TimeoutHasCause WorkerReturns
\* The server may die of SIGPIPE.
CHECK_DEADLOCK FALSE
