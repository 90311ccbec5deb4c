\* A pause that overwrites completed_at and the resume after it.
SPECIFICATION FairSpec
CONSTANTS
  e1 = e1
  c1 = c1
  Executor = {e1}
  Client = {c1}
  MaxRetries = 3
  Total = 1
  Overruns = FALSE
  HandlerFails = FALSE
  MaxCopies = 4
  MaxRetryCount = 4
  MaxCommands = 3
  MaxFaults = 0
CHECK_DEADLOCK FALSE
PROPERTIES
  BroadcastSettles
