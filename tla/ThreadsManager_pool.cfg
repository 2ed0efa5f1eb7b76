SPECIFICATION FairSpec

CONSTANTS
  QueueSize = 1
  OutSize = 1
  MaxThreads = 2
  SizeT = 8
  EarlyPush = FALSE
  SpuriousPlaces = {"pop_asleep", "wait_busy"}
  MaxTasks = 3
  MaxCreated = 3
  MaxFailures = 1
  MaxSpurious = 1
  MaxSessions = 2

INVARIANTS
  TypeOK
  WorkersAccountedFor
  RunsOnce
  StopFinishesWork
  NoThreadLeft

PROPERTIES
  StopReturns
  IdleIsReported

CHECK_DEADLOCK FALSE
