SPECIFICATION Spec
CONSTANTS
  Workloads <- MixedWorkloads
  Ids = {1, 2}
  EndsUnasked = FALSE
INVARIANT EscapedForItsSession
INVARIANT TrueInsertId
CHECK_DEADLOCK FALSE
