SPECIFICATION Spec
CONSTANTS
  Word = 4
  Hash = 2
  MinCut = 8
  PktLengths = {6, 9, 12, 13}
  CutLengths = {4, 5, 8, 9, 10}
  MaxPackets = 3
  MaxOps = 2
  Depth = 2
INVARIANTS NeverJoined NeverTwice
PROPERTY DisabledIsOff
CHECK_DEADLOCK FALSE
