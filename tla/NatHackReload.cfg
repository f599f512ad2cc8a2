SPECIFICATION Spec
CONSTANTS
  Files <- MCFiles
  CmdLine <- MCCmdLine
  StackSize = 4
  MaxLoads = 2
  Host = "lion"
INVARIANT OtherSideIgnored
CHECK_DEADLOCK FALSE
