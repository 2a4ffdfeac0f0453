SPECIFICATION StatusSpec
CONSTANTS
  c1 = c1
  c2 = c2
  w1 = w1
  p1 = p1
  k1 = k1
  a = a
  e = e
  release = release
  Caller = {c1, c2}
  Subject = {a}
  Event = {e, release}
  Genesis = Genesis
  NoCaller = NoCaller
  PageSize = 1
  MaxTime = 1
  Sweep = {w1}
  Poll = {p1}
  Checkpoint = {k1}
  MaxVisits = 1
  Dispatch = {release}
  Never = Never
  OkAge = 0
  DegradedAge = 1
SYMMETRY Symmetry
CHECK_DEADLOCK FALSE
INVARIANTS
  ChainLinear
  MirrorUnbroken
  SweeperTold
  PanelsAgree
  CheckpointHolds
  DisplaysTrue
PROPERTIES
  AppendsAreAtomic
