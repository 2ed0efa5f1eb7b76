SPECIFICATION Spec

CONSTANTS
  QueueSize = 1
  OutSize = 0
  MaxThreads = 2
  SizeT = 8
  EarlyPush = TRUE
  SpuriousPlaces = {"wait_busy"}
  MaxTasks = 1
  MaxCreated = 4
  MaxFailures = 0
  MaxSpurious = 1
  MaxSessions = 1

INVARIANTS
  NoThreadLeft

CHECK_DEADLOCK FALSE
