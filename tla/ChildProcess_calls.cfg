\* A job and a fork: the child connects, sends, is cut off, exits or dies at any moment.
SPECIFICATION FairSpec
CONSTANTS
  Runtime = {r1}
  MaxJobs = 1
  MaxForks = 1
  MaxSends = 1
  MaxFrames = 2
INVARIANTS
  NoneLeftBehind
  ExitAfterMessages
PROPERTIES
  JobCallsBack
  ExitReported
  DisconnectEnds
CHECK_DEADLOCK FALSE
