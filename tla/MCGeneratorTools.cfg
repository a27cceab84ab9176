SPECIFICATION Spec
CONSTANTS
  Ports <- MCPorts
  TraceWords <- MCTraceWords
  Calls <- MCCalls
  Rates <- MCRates
  Counts <- MCCounts
  Positions <- MCPositions
  Delays <- MCDelays
  TextValues <- MCTextValues
  Plans <- MCPlans
INVARIANTS LabelsTruthful EngineReleased CallAsAsked TimedIffStamped
PROPERTY RefreshHarmless
\* The user may stop.
CHECK_DEADLOCK FALSE
