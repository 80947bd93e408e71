SPECIFICATION FairSpec
CONSTANTS
  Kinds <- AllKinds
  Lobs = {TRUE, FALSE}
  MaxCalls = 3
  MaxStreams = 2
  MaxRows = 2
PROPERTY EveryCallSettles
PROPERTY EveryReadSettles
CHECK_DEADLOCK FALSE
