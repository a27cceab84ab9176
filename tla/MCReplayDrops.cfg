CONSTANTS
  Queues = {"nf0"}
  Ports <- OnePort
  MemSize = 6
  FifoDepth = 2
  Scripts <- PlainScripts
  Drops = TRUE
SPECIFICATION FairSpec
INVARIANT ReplayExact
CHECK_DEADLOCK FALSE
