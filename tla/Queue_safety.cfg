SPECIFICATION Spec

CONSTANTS
  p1 = p1
  p2 = p2
  c1 = c1
  c2 = c2
  s1 = s1
  o = o
  nobody = nobody
  MaxSize = 2
  Pushers = {p1, p2}
  Poppers = {c1, c2}
  Waiters = {}
  Signalers = {s1}
  Owner = o
  Nobody = nobody
  UrgentGarbage = {FALSE}
  LeftoverReopen = FALSE
  MaxPushes = 3
  MaxSignals = 1
  MaxOpens = 2
  MaxSpurious = 0

SYMMETRY Interchangeable

INVARIANTS
  TypeOK
  RoomToStore
  Fifo
  PushToldTruth
  PlainCloseDrains

PROPERTIES
  ImplementsChannel

CHECK_DEADLOCK FALSE
