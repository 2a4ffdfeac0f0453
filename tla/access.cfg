SPECIFICATION LiveSpec
CONSTANTS
  b1 = b1
  b2 = b2
  l1 = l1
  l2 = l2
  t1 = t1
  t2 = t2
  k1 = k1
  Browser = {b1, b2}
  Link = {l1, l2}
  Session = {t1, t2}
  Key = {k1}
  None = None
  MaxUsers = 2
CHECK_DEADLOCK FALSE
INVARIANTS
  NoOrphans
  SessionsAccounted
PROPERTIES
  EndedSessionLeaves
  LinkIsTicket
