\* A socket that is paused, resumed, read, ended and destroyed while its peer sends.
SPECIFICATION FairSpec
CONSTANTS
  Socket = {s1}
  MaxChunks = 2
  MaxResumes = 2
  QueueLimit = 2
  PumpLimit = 1
INVARIANTS
  InOrder
  NothingLost
PROPERTY
  Released
CHECK_DEADLOCK FALSE
