SPECIFICATION Spec
CONSTANTS
  s1 = s1
  r1 = r1
  r2 = r2
  w1 = w1
  Switch = {s1}
  Request = {r1, r2}
  Sweeper = {w1}
  Owner = Owner
  None = None
  Timer = 1
  MaxTime = 2
  MaxActive = 1
  SweepLimit = 1
  MaxFaults = 0
SYMMETRY Symmetry
CHECK_DEADLOCK FALSE
INVARIANTS
  TypeOK
  CheckinHonoured
  AtMostOneRelease
