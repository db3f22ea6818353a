CONSTANTS
  Threads = {t1, t2}
  MaxRequests = 3
  MaxFaults = 1
SPECIFICATION Spec
INVARIANTS RequestsIsolated NothingLeft NobodyStuck
CHECK_DEADLOCK FALSE
