SPECIFICATION Spec
CONSTANTS
  Kinds <- AllKinds
  Lobs = {FALSE}
  MaxCalls = 2
  MaxStreams = 1
  MaxRows = 2
INVARIANT FailedReadEndsTransaction
CHECK_DEADLOCK FALSE
