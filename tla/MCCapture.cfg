CONSTANTS
  Packets = 3
  Lengths = {2, 4}
  FifoDepth = 5
  LookupStages = 2
  TupleStages = 1
  Controls <- SetDrop
SPECIFICATION FairSpec
INVARIANTS InStep OnlySelected NeverFlushed RoomForDecisions
PROPERTIES CaptureCompletes
CHECK_DEADLOCK FALSE
