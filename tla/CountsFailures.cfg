SPECIFICATION Spec
CONSTANTS
  Operations = {"connect", "sendAndRecv"}
  Functions = {"STATEMENT"}
  Parameters = {"isolation", "timeout"}
  Values = {1, 2}
  Default = 0
  ParameterLists <- NoLists
  Retries = 0
  ReadTimeouts = {FALSE}
  Ssl = FALSE
  MaxCalls = 2
  MaxFaults = 1
PROPERTIES
  CountsOnlyUnknownOutcomes
CHECK_DEADLOCK FALSE
