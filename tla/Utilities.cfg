\* The parts that stand alone.
SPECIFICATION Spec
CONSTANTS
  Chars = {"a", "r", "n"}
  Delimiters <- MCDelimiters
  NoChar = NoChar
  BufferSize = 3
  MaxText = 5
  MaxPieces = 2
  Base = 2
  HashLength = 4
  MaxObjects = 3
  Processes = {p1, p2, p3}
  Nobody = Nobody
  LastBytes = {b0, b1}
  Requests <- MCRequests
  NoShare = NoShare
  MaxMounts = 2
  Keywords <- MCKeywords
  Syntax <- MCSyntax
  RawLines <- MCRawLines
  FlagSets <- MCFlagSets
  MaxLines = 3
  MaxReads = 2
INVARIANTS
  LinesAreWhole
  TreeInOrder
  HolderBelieved
  PointBelieved
  ReadTold
  Rewritten
CHECK_DEADLOCK FALSE
