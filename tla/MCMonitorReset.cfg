\* The display after the counters are reset.
CONSTANTS
  Programs = {"gui"}
  Scripts <- ResetBetweenRefreshes
  Entries = 2
  Columns <- TwoColumns
  Rules = {"a", "b"}
  Width = 4
  PacketBytes = 3
  MaxPackets = 3
SPECIFICATION Spec
CHECK_DEADLOCK FALSE
PROPERTY RateRight
