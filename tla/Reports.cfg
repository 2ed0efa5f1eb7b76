\* The outputs of a report: terminal, log files and levels.
SPECIFICATION Spec
CONSTANTS
  Prefix <- MCPrefix
  Widths = {0, 1, 3}
  MaxMessages = 4
  MaxLines = 1
  Backups = {0, 1, 2}
  MaxGenerations = 4
  MaxSetbacks = 2
  MaxFailures = 1
  Levels = {0, 1, 2}
  Info = 1
  Chosen = {1, 2}
  Conditions <- MCConditions
  Messages <- MCMessages
  MaxConditions = 2
  MaxObserving = 2
INVARIANTS
  LineIsClean
  InOrder
  Kept
  Mirrored
  Heard
CHECK_DEADLOCK FALSE
