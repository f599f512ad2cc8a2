SPECIFICATION Spec
CONSTANTS
  Files <- MCFiles
  CmdLine <- MCCmdLine
  StackSize = 4
  MaxLoads = 3
  Host = "lion"
INVARIANTS HostsAsWritten WithdrawnStayOut FoundAsWritten OptionsAsGiven HeapSound OwnDevices
PROPERTY ListenerSurvives
CHECK_DEADLOCK FALSE
