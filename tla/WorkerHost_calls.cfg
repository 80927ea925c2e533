\* A worker that is posted to, unref'd and terminated while it starts, fails, sends and exits.
SPECIFICATION FairSpec
CONSTANTS
  Runtime = {r1}
  MaxWorker = 1
  MaxPosts = 2
  MaxSends = 2
  MaxTurns = 1
  Tries = 2
  Faults = {"thread", "setup"}
INVARIANTS
  NoneLeftBehind
PROPERTIES
  ImplementsStream
  EndedReleases
CHECK_DEADLOCK FALSE
