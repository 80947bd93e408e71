SPECIFICATION FairSpec
CONSTANTS
  MaxQueries = 3
INVARIANT EndsAfterStatements
INVARIANT NoUnseenFailureCommitted
INVARIANT OneFailureReported
INVARIANT OutcomeIsTrue
PROPERTY SeenFailuresForgiven
PROPERTY Settles
CHECK_DEADLOCK FALSE
