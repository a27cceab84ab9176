CONSTANTS
  Procs = {p1, p2}
  MaxTag = 4
  Patient = TRUE
  QuickAnswer = FALSE
SPECIFICATION FairSpec
INVARIANTS OwnAnswer
PROPERTIES CallsReturn
CHECK_DEADLOCK FALSE
