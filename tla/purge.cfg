SPECIFICATION Spec
CONSTANTS
  s1 = s1
  r1 = r1
  r2 = r2
  Switch = {s1}
  Request = {r1, r2}
  Sweeper = {}
  Owner = Owner
  None = None
  Timer = 1
  MaxTime = 2
  MaxActive = 1
  SweepLimit = 1
  MaxFaults = 1
SYMMETRY Symmetry
CHECK_DEADLOCK FALSE
INVARIANTS
  PurgedPayloadGone
  DuressNoticeTrue
  ArmedCanDeliver
  LogCausality
  TimerCovers
