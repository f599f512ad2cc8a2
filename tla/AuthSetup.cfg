SPECIFICATION FairSpec
CONSTANTS
  Own <- MCOwn
  Configs <- MCConfigs
  Passwords <- MCPasswords
  Passwd = 1
  CHAL_SIZE = 1
  Crypt <- MCCrypt
  Challenges <- MCChallenges
  MaxAttempts = 2
  MaxFaults = 2
INVARIANTS FlagsAgree SessionNeedsPassword RefusedForCause PairConnected
PROPERTIES SetupEnds
CHECK_DEADLOCK FALSE
