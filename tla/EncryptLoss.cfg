SPECIFICATION FairSpec
CONSTANTS
  Tokens = {1, 2, 3, 4, 5, 6, 7, 8}
  None = None
  Lost = Lost
  Ciphers = {TRUE, FALSE}
  MAX_GIBBERISH = 3
  Faults = {"lose", "swap", "duplicate"}
  MaxFaults = 2
  MaxData = 1
  MaxChan = 2
INVARIANTS DecryptorReady InStepUntilLoss
PROPERTY Delivers
CHECK_DEADLOCK FALSE
