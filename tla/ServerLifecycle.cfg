CONSTANTS
  Workers = {w1, w2}
  Main = main
  MaxClients = 3
  MaxSignals = 2
  MaxErrors = 1
SPECIFICATION FairSpec
INVARIANTS ThreadsJoined QuietShutdown SuccessFindsListener
PROPERTIES ServerResponds
CHECK_DEADLOCK FALSE
