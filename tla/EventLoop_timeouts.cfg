\* Timeouts cleared, unref'd, refreshed and delayed over two executions and a drop.
SPECIFICATION FairSpec
CONSTANTS
  Thread = {t1}
  MaxTimer = 2
  Delay = {0, 1}
  Capacity = 1
  Forever = 3
  DrainLimit = 3
  MaxCalls = 4
  MaxFires = 0
  MaxRuns = 2
  Ops = {"timeout", "timeout0", "clear", "unref", "refresh", "delay", "drop"}
INVARIANTS
  ReturnsWhenDrained
PROPERTIES
  OneShotRunsOnce
  TimeoutRuns
CHECK_DEADLOCK FALSE
