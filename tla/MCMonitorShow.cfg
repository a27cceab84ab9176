\* The filter after a call that only shows statistics.
CONSTANTS
  Programs = {"cli"}
  Scripts <- LoadThenShow
  Entries = 2
  Columns <- TwoColumns
  Rules = {"a", "b"}
  Width = 4
  PacketBytes = 3
  MaxPackets = 0
SPECIFICATION Spec
CHECK_DEADLOCK FALSE
INVARIANT FilterIsWanted
