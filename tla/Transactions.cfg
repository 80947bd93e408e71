SPECIFICATION Spec
CONSTANTS
  Workloads <- SeparateWorkloads
  Ids = {}
  EndsUnasked = TRUE
INVARIANT TypeOK
INVARIANT AllOrNothing
INVARIANT OutcomeIsTrue
INVARIANT OneSession
INVARIANT AutocommitIsDurable
INVARIANT NotBehindUnknown
PROPERTY CommittedAsAsked
CHECK_DEADLOCK FALSE
