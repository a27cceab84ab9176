CONSTANTS
  Data = {0, 1}
  Zero = 0
  MAX_DEPTH = 4
  MaxPushed = 8
SPECIFICATION FairSpec
INVARIANTS InOrder NothingLost
PROPERTIES ImplementsQueue FallsThrough
