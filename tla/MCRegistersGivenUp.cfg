CONSTANTS
  Procs = {p1}
  MaxTag = 3
  Patient = FALSE
  QuickAnswer = TRUE
SPECIFICATION FairSpec
INVARIANTS OwnAnswer WriteDone
CHECK_DEADLOCK FALSE
