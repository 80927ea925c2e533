\* Intervals, immediates, ticks and microtasks under a finite drain limit.
SPECIFICATION FairSpec
CONSTANTS
  Thread = {t1}
  MaxTimer = 2
  Delay = {0, 1}
  Capacity = 1
  Forever = 3
  DrainLimit = 1
  MaxCalls = 4
  MaxFires = 1
  MaxRuns = 2
  Ops = {"interval", "immediate", "tick", "micro", "clear", "delay"}
PROPERTIES
  ImmediateRuns
  
CHECK_DEADLOCK FALSE
