SPECIFICATION Spec
CONSTANTS
  c1 = c1
  p1 = p1
  p2 = p2
  k1 = k1
  k2 = k2
  s1 = s1
  r1 = r1
  r2 = r2
  Contact = {c1}
  Tab = {p1, p2}
  Call = {k1, k2}
  None = None
  MaxInvites = 2
  Switch = {s1}
  Reader = {r1, r2}
  Bits = {1, 2}
  Key <- MCKey
  ShareA <- MCShareA
  MaxFaults = 1
SYMMETRY Symmetry
CHECK_DEADLOCK FALSE
INVARIANTS
  EnvelopeOpens
  MessageReachable
  PinsDistinguished
PROPERTIES
  KeyFinal
  DownloadIsTicket
