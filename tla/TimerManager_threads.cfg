\* Two callers with one-shot timers, ways to cancel, clear and stop, and what must finally happen.
SPECIFICATION FairSpec
CONSTANTS
  Thread = {t1, t2}
  TimerId = {1, 2}
  Delay = {1}
  Repeat = {0}
  CommandQueueSize = 1
  U32Max = 3
  MaxTime = 2
  MaxSequence = 2
  MaxFired = 1
  Ops = {"timeout", "cancel", "cancelAck", "clear", "clearFired", "shutdown", "shutdownAck"}
INVARIANTS
  CancelAckFinal
PROPERTIES
  ShutdownFinal
  EveryTimeoutResolved
  EveryCallReturns
CHECK_DEADLOCK FALSE
