CONSTANTS
  Packets = 3
  Lengths = {2, 4}
  FifoDepth = 5
  LookupStages = 2
  TupleStages = 1
  Controls <- ClearDrop
SPECIFICATION Spec
INVARIANTS WholePackets
CHECK_DEADLOCK FALSE
