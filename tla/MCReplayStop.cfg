CONSTANTS
  Queues = {"nf0"}
  Ports <- OnePort
  MemSize = 6
  FifoDepth = 2
  Scripts <- StopScripts
  Drops = FALSE
SPECIFICATION FairSpec
INVARIANT NothingSent
CHECK_DEADLOCK FALSE
