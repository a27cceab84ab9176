SPECIFICATION Spec
CONSTANTS
  Ports <- MCPorts
  TraceWords <- MCTraceWords
  Calls <- MCCalls
  Rates <- MCRates
  Counts <- MCCounts
  Positions <- MCPositions
  Delays <- MCDelays
  TextValues <- MCTextValues
  Plans <- MCPlans
INVARIANT NoTraceMisplayed
\* The user may stop.
CHECK_DEADLOCK FALSE
