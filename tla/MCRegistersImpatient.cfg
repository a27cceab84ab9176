CONSTANTS
  Procs = {p1, p2}
  MaxTag = 2
  Patient = FALSE
  QuickAnswer = FALSE
SPECIFICATION FairSpec
INVARIANT TimelyAnswer
PROPERTIES CallsReturn
CHECK_DEADLOCK FALSE
