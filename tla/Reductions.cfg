CONSTANTS
  Warps = {1, 2, 3}
  Cells = {1, 2}
  MaxLaunches = 2
  CodeBits = 3
  IndexBits = 2
  MaxLeaves = 4
  N = 3
  Neighbours <- Triangle
  EdgeCaps = {0, 1, 2}
  TermCaps <- TerminalPairs
  relabel_every = 2
  RopeCalls <- Calls
  MaxExtent = 4
SPECIFICATION ReductionsSpec
INVARIANTS
  ReductionsTypeOK
  SumsWholeAndScratchClean
  BoxesEnclose
  CutIsMinimum
  RotatedOnce
PROPERTIES
  Finishes
CHECK_DEADLOCK FALSE
