SPECIFICATION Spec
CONSTANTS
  s1 = s1
  r1 = r1
  Switch = {s1}
  Request = {r1}
  Sweeper = {}
  Owner = Owner
  None = None
  Timer = 1
  MaxTime = 2
  MaxActive = 1
  SweepLimit = 1
  MaxFaults = 0
CHECK_DEADLOCK FALSE
PROPERTIES
  ReleaseHonoursExpiry
