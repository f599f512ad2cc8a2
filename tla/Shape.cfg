SPECIFICATION FairSpec
CONSTANTS
  Sec = 5
  max_speed = 6
  Sizes = {0, 1, 4}
  Word = 64
  MaxAge = 25
  MaxBack = 4
  MaxBytes = 20
INVARIANTS RateBound NoOverflow
PROPERTY AcceptsAgain
CHECK_DEADLOCK FALSE
