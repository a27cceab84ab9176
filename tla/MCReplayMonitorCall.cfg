CONSTANTS
  Queues = {"nf0"}
  Ports <- OnePort
  MemSize = 6
  FifoDepth = 2
  Scripts <- MonitorCallScripts
  Drops = FALSE
SPECIFICATION FairSpec
PROPERTY ReplayCompletes
CHECK_DEADLOCK FALSE
