SPECIFICATION Spec

CONSTANTS
  QueueSize = 1
  OutSize = 0
  MaxThreads = 2
  SizeT = 8
  EarlyPush = FALSE
  SpuriousPlaces = {"wait_idle", "wait_busy"}
  MaxTasks = 4
  MaxCreated = 4
  MaxFailures = 0
  MaxSpurious = 1
  MaxSessions = 1

INVARIANTS
  ThreadGotIdle

CHECK_DEADLOCK FALSE
