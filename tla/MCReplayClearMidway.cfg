CONSTANTS
  Queues = {"nf0"}
  Ports <- OnePort
  MemSize = 6
  FifoDepth = 2
  Scripts <- ClearMidwayScripts
  Drops = FALSE
SPECIFICATION FairSpec
INVARIANT PacketsIntact
CHECK_DEADLOCK FALSE
