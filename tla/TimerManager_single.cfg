\* One caller with every kind of timer, a channel that fills up and a shutdown, and
\* the service the manager implements.
SPECIFICATION Spec
CONSTANTS
  Thread = {t1}
  TimerId = {1, 2}
  Delay = {1, 2}
  Repeat = {0, 2}
  CommandQueueSize = 2
  U32Max = 3
  MaxTime = 3
  MaxSequence = 2
  MaxFired = 1
  Ops = {"timeout", "interval", "cancelAck", "clearAck", "mark", "poll", "wait", "shutdown"}
INVARIANTS
  TypeOK
  HeapMatchesMap
  CountExact
  NoLostWakeup
PROPERTIES
  FiresInOrder
  ImplementsService
CHECK_DEADLOCK FALSE
