SPECIFICATION Spec
CONSTANTS
  pkt_no = 3
  Traffics <- MCTraffics
  MaxMissed = 3
INVARIANTS AverageBetween LpnPackets
\* The measurement ends, or waits for packets that never come.
CHECK_DEADLOCK FALSE
