\* One store over crashes, restarts, expiries, compactions, failing writes and renames.
SPECIFICATION Spec
CONSTANTS
  Store = {s1}
  Key = {a, b}
  Text = Text
  Half = 1
  Ttl = {1}
  MaxTime = 1
  MaxOps = 3
  MaxInode = 3
  Ops = {"get", "set", "delete", "incr", "batch", "clear", "prune", "compact", "crash"}
  Faults = {"newline", "write", "temp", "rename"}
SYMMETRY KeySymmetry
INVARIANTS
  AckedIsDurable
  ReadsLatest
CHECK_DEADLOCK FALSE
