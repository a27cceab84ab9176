\* One program at a time, or two.  The scripts end.
CONSTANTS
  Programs <- TwoPrograms
  Scripts <- AllScripts
  Entries = 2
  Columns <- TwoColumns
  Rules = {"a", "b"}
  Width = 2
  PacketBytes = 3
  MaxPackets = 2
SPECIFICATION Spec
CHECK_DEADLOCK FALSE
INVARIANTS FilterIsWanted SnapshotConsistent
PROPERTIES NoRuleSwappedLive RateRight
