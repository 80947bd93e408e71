SPECIFICATION FairSpec
CONSTANTS
  Operations = {"setSessionParameters", "ensureSession", "sendAndRecv", "releaseOnSession", "close"}
  Functions = {"STATEMENT"}
  Parameters = {"isolation", "timeout"}
  Values = {1, 2}
  Default = 0
  ParameterLists <- OneList
  Retries = 1
  ReadTimeouts = {TRUE, FALSE}
  Ssl = TRUE
  MaxCalls = 2
  MaxFaults = 1
PROPERTIES
  EveryCallSettles
CHECK_DEADLOCK FALSE
