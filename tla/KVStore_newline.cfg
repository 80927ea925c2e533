\* The process dies between a record and the end of its line.
SPECIFICATION Spec
CONSTANTS
  Store = {s1}
  Key = {a, b}
  Text = Text
  Half = 1
  Ttl = {1}
  MaxTime = 0
  MaxOps = 2
  MaxInode = 2
  Ops = {"set", "crash"}
  Faults = {"newline"}
INVARIANT
  LogIsDurable
CHECK_DEADLOCK FALSE
