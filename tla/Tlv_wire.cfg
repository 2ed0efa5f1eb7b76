\* Messages over a connection that may be cut at any byte.
SPECIFICATION Spec
CONSTANTS
  MaxConnections = 2
  MaxRefused = 1
  MaxTrouble = 1
  MaxGarbage = 1
  Garbage = Garbage
  MaxLength = 2
  DataTags <- MCTags
  Misread <- MCMisread
  Scripts <- MCScripts
  Brittle <- MCBrittle
  Capacity = 3
  Chains = {1, 2}
  MaxSends = 2
  MaxCalls = 2
  MaxReceives = 2
INVARIANTS
  TypeOK
  CompleteIsFaithful
  SentIsRearmed
  LogsArrive
  Owned
  NeverStuck
PROPERTIES
  OkMeansWritten
CHECK_DEADLOCK FALSE
