SPECIFICATION FairSpec
CONSTANTS
  Procs = {p1, p2, p3}
  Multi = "kill"
  Inetd = FALSE
  MaxFaults = 2
  InitFiles = {NoFile, Empty, Broken, Old}
  NoFile = NoFile
  Empty = Empty
  Broken = Broken
  Old = Old
  p1 = p1
  p2 = p2
  p3 = p3
CHECK_DEADLOCK FALSE
INVARIANTS TargetsHeldTheLock TwoSessionsOnlyAfterTheft 
PROPERTIES FirstTheftFromStaleRead KillOldAdmits DeadLockRecovered
