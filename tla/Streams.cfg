SPECIFICATION Spec
CONSTANTS
  Kinds <- AllKinds
  Lobs = {TRUE, FALSE}
  MaxCalls = 4
  MaxStreams = 2
  MaxRows = 3
INVARIANT TypeOK
INVARIANT RowsInOrder
INVARIANT RefusedNeverRuns
INVARIANT EndedMeansReleased
INVARIANT FailureIsSeen
INVARIANT NothingLeftOpen
PROPERTY RefusedBehindIdleConsumer
CHECK_DEADLOCK FALSE
