CONSTANTS
  Queues = {"nf0"}
  Ports <- OnePort
  MemSize = 4
  FifoDepth = 2
  Scripts <- OverflowScripts
  Drops = FALSE
SPECIFICATION FairSpec
INVARIANT ReplayExact
CHECK_DEADLOCK FALSE
