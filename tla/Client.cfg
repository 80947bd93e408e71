SPECIFICATION FairSpec
CONSTANTS
  Names = {"query", "getIndexes"}
  MaxCalls = 4
INVARIANT ClosedStaysClosed
INVARIANT OneConnection
PROPERTY EveryCallSettles
CHECK_DEADLOCK FALSE
