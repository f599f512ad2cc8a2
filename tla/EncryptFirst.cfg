SPECIFICATION Spec
CONSTANTS
  Tokens = {1, 2, 3, 4, 5, 6, 7, 8}
  None = None
  Lost = Lost
  Ciphers = {TRUE}
  MAX_GIBBERISH = 3
  Faults = {"lose"}
  MaxFaults = 1
  MaxData = 2
  MaxChan = 2
INVARIANT NeverWithoutCipher
CHECK_DEADLOCK FALSE
