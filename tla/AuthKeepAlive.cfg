SPECIFICATION Spec
CONSTANTS
  Own <- MCOwn
  Configs <- MCConfigs
  Passwords <- MCPasswords
  Passwd = 1
  CHAL_SIZE = 1
  Crypt <- MCCrypt
  Challenges <- MCChallenges
  MaxAttempts = 2
  MaxFaults = 2
INVARIANT KeepAliveOwn
CHECK_DEADLOCK FALSE
