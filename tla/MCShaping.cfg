SPECIFICATION Spec
CONSTANTS
  Traces <- MCTraces
  Stamped = {TRUE}
  OneSecond = 4
  Rates = {1}
  Delays = {3}
  MaxOps = 2
  Depth = 2
INVARIANTS EachWordOnce OvertakenOnlyIfStranded GapAsShown
PROPERTIES DelayKept Drains
CHECK_DEADLOCK FALSE
