SPECIFICATION FairSpec
CONSTANTS
  Links <- MCLinks
  Room = 1
  MaxFlight = 2
  MaxFaults = 1
INVARIANTS StreamWhole InStepUnlessLoss 
PROPERTIES KeepsPromise HackedOneConnects Delivered CloseSpreads SignalEnds
CHECK_DEADLOCK FALSE
