SPECIFICATION LiveSpec
CONSTANTS
  c1 = c1
  c2 = c2
  Client = {c1, c2}
  Window = 2
  Threshold = 3
CHECK_DEADLOCK FALSE
INVARIANTS
  LockIsEarned
  GuessesLimited
PROPERTIES
  LockoutEnds
