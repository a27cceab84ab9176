CONSTANTS
  Procs = {p1, p2}
  MaxTag = 4
  Patient = TRUE
  QuickAnswer = TRUE
SPECIFICATION FairSpec
INVARIANTS OneAtATime WriteDone
PROPERTIES BufferStable CallsReturn ChannelFreed
CHECK_DEADLOCK FALSE
