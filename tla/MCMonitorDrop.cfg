\* The table while a filter is loaded.
CONSTANTS
  Programs = {"cli"}
  Scripts <- OneAfterAnother
  Entries = 2
  Columns <- TwoColumns
  Rules = {"a", "b"}
  Width = 4
  PacketBytes = 3
  MaxPackets = 0
SPECIFICATION Spec
CHECK_DEADLOCK FALSE
INVARIANT DropWhileUpdating
