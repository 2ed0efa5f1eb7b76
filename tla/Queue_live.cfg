SPECIFICATION FairSpec

CONSTANTS
  p1 = p1
  p2 = p2
  c1 = c1
  w1 = w1
  s1 = s1
  o = o
  nobody = nobody
  MaxSize = 1
  Pushers = {p1, p2}
  Poppers = {c1}
  Waiters = {w1}
  Signalers = {s1}
  Owner = o
  Nobody = nobody
  UrgentGarbage = {FALSE}
  LeftoverReopen = FALSE
  MaxPushes = 2
  MaxSignals = 0
  MaxOpens = 1
  MaxSpurious = 1

PROPERTIES
  PushersReleased
  Drained
  WaitReturns

CHECK_DEADLOCK FALSE
