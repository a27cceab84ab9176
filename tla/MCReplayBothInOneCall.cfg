CONSTANTS
  Queues = {"nf0", "nf1"}
  Ports <- TwoPorts
  MemSize = 6
  FifoDepth = 2
  Scripts <- BothInOneCallScripts
  Drops = FALSE
SPECIFICATION FairSpec
INVARIANT OwnTraceOnly
CHECK_DEADLOCK FALSE
