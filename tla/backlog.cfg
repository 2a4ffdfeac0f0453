SPECIFICATION FairSpec
CONSTANTS
  s1 = s1
  s2 = s2
  w1 = w1
  Switch = {s1, s2}
  Request = {}
  Sweeper = {w1}
  Owner = Owner
  None = None
  Timer = 1
  MaxTime = 2
  MaxActive = 2
  SweepLimit = 1
  MaxFaults = 1
CHECK_DEADLOCK FALSE
PROPERTIES
  ArmedEnds
