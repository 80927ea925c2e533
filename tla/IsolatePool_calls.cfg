\* Two callers, failing and endless tasks, and destroy.
SPECIFICATION FairSpec
CONSTANTS
  Client = {c1, c2}
  MinIsolates = 0
  MaxIsolates = 1
  MaxWorker = 2
  MaxCalls = 2
INVARIANTS
  TypeOK
  Exclusive
  MetricsAgree
PROPERTIES
  EveryCallReturns
  DestroyedThreadsEnd
CHECK_DEADLOCK FALSE
