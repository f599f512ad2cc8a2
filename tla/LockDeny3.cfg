SPECIFICATION Spec
CONSTANTS
  Procs = {p1, p2, p3}
  Multi = "deny"
  Inetd = FALSE
  MaxFaults = 0
  InitFiles = {NoFile}
  NoFile = NoFile
  Empty = Empty
  Broken = Broken
  Old = Old
  p1 = p1
  p2 = p2
  p3 = p3
CHECK_DEADLOCK FALSE
INVARIANT OneSession
