CONSTANTS
  p1 = p1
  p2 = p2
  c1 = c1
  c2 = c2
  None = None
  Processes <- McProcesses
  Clients <- McClients
  Kinds <- McKinds
  MaxRequests = 2
  MaxSignals = 2
SPECIFICATION FairSpec
INVARIANTS AtMostOneMore Restartable
PROPERTIES ClientsServed ShutdownEnds
CHECK_DEADLOCK FALSE
