CONSTANTS
  Procs = {p1}
  MaxTag = 3
  Patient = FALSE
  QuickAnswer = TRUE
SPECIFICATION FairSpec
PROPERTIES ChannelFreed
CHECK_DEADLOCK FALSE
