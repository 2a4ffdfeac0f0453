SPECIFICATION FairSpec
CONSTANTS
  s1 = s1
  r1 = r1
  w1 = w1
  Switch = {s1}
  Request = {r1}
  Sweeper = {w1}
  Owner = Owner
  None = None
  Timer = 1
  MaxTime = 2
  MaxActive = 1
  SweepLimit = 1
  MaxFaults = 1
CHECK_DEADLOCK FALSE
PROPERTIES
  ArmedEnds
  ReleaseCompletes
