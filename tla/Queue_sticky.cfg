SPECIFICATION Spec

CONSTANTS
  p1 = p1
  c1 = c1
  s1 = s1
  o = o
  nobody = nobody
  MaxSize = 2
  Pushers = {p1}
  Poppers = {c1}
  Waiters = {}
  Signalers = {s1}
  Owner = o
  Nobody = nobody
  UrgentGarbage = {FALSE}
  LeftoverReopen = FALSE
  MaxPushes = 2
  MaxSignals = 1
  MaxOpens = 2
  MaxSpurious = 1

INVARIANTS
  SentAwayOnlyIfClosed

CHECK_DEADLOCK FALSE
