CONSTANTS
  Queues = {"nf0", "nf1"}
  Ports <- TwoPorts
  MemSize = 5
  FifoDepth = 2
  Scripts <- AllScripts
  Drops = FALSE
SPECIFICATION FairSpec
INVARIANTS OwnTraceOnly ReplayExact
PROPERTIES StartTaken ReplayCompletes
CHECK_DEADLOCK FALSE
