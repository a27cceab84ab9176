SPECIFICATION Spec
CONSTANTS
  Word = 4
  Hash = 2
  MinCut = 8
  PktLengths = {6, 12, 23}
  CutLengths = {5, 10, 20}
  MaxPackets = 3
  MaxOps = 1
  Depth = 1
INVARIANTS CutAsConfigured ClaimTruthful BoundariesKept
PROPERTY Drains
CHECK_DEADLOCK FALSE
