SPECIFICATION FairSpec
CONSTANTS
  Modes = {0, 1, 2}
  VtunPersist = FALSE
  Udp = TRUE
  Signals = {"TERM", "HUP"}
  MaxSignals = 3
  MaxFaults = 2
  MaxSockets = 3
INVARIANTS PersistentEnds SocketsClosed SleepsBetweenAttempts 
PROPERTIES KeepsInterface TermEndsSession HupReconnects
CHECK_DEADLOCK FALSE
