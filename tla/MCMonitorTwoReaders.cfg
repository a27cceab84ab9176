\* Two programs that read the statistics, with no access refused.
CONSTANTS
  Programs <- TwoPrograms
  Scripts <- LoadWhileDisplaying
  Entries = 2
  Columns <- TwoColumns
  Rules = {"a", "b"}
  Width = 2
  PacketBytes = 3
  MaxPackets = 2
SPECIFICATION Spec
CHECK_DEADLOCK FALSE
INVARIANT SnapshotUnlessRefused
