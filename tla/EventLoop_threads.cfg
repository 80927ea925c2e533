\* Two runtimes that share the registries, the manager and fired_timers.
SPECIFICATION Spec
CONSTANTS
  Thread = {t1, t2}
  MaxTimer = 2
  Delay = {1}
  Capacity = 1
  Forever = 3
  DrainLimit = 3
  MaxCalls = 3
  MaxFires = 1
  MaxRuns = 1
  Ops = {"timeout", "timeout0", "interval", "clear"}
INVARIANT
  RegisteredIsTracked
PROPERTY
  ClearedNeverRuns
CHECK_DEADLOCK FALSE
