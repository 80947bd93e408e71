SPECIFICATION MCSpec
CONSTANTS
  Operations = {"sendAndRecv", "sendAndRecvOnSession", "releaseOnSession", "connect",
                "discardSession", "close", "setSessionParameters", "ensureSession"}
  Functions = {"STATEMENT", "END_TRAN"}
  Parameters = {"isolation", "timeout"}
  Values = {1, 2}
  Default = 0
  ParameterLists <- AllLists
  Retries = 0
  ReadTimeouts = {TRUE, FALSE}
  Ssl = FALSE
  MaxCalls = 4
  MaxFaults = 2
INVARIANTS
  TypeOK
  AnsweredExactlyOnce
  NothingInFlight
  HeldForRequest
  OnOwnSession
  OnlyDeadIfGone
  SessionHoldsParameters
PROPERTIES
  NeverDroppedSilently
  KeepsPromise
CHECK_DEADLOCK FALSE
