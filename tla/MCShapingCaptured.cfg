SPECIFICATION Spec
CONSTANTS
  Traces <- MCTraces
  Stamped = {TRUE}
  OneSecond = 4
  Rates = {1}
  Delays = {3}
  MaxOps = 0
  Depth = 2
PROPERTY SpacedAsCaptured
CHECK_DEADLOCK FALSE
