SPECIFICATION FairSpec
CONSTANTS
  KaFlag = TRUE
  StatFlag = TRUE
  ka_interval = 1
  ka_maxfail = 2
  STAT_IVAL = 5
  Networks = {TRUE, FALSE}
  MaxSilence = 18
  MaxSessions = 2
INVARIANTS GivesUpInTime StatsOnTime ProbesBeforeGivingUp
PROPERTY DeadPeerNoticed
CHECK_DEADLOCK FALSE
