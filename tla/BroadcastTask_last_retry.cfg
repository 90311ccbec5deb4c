\* A task with retries left behind a broadcast marked failed.
SPECIFICATION Spec
CONSTANTS
  e1 = e1
  e2 = e2
  c1 = c1
  Executor = {e1, e2}
  Client = {c1}
  MaxRetries = 1
  Total = 2
  Overruns = FALSE
  HandlerFails = FALSE
  MaxCopies = 2
  MaxRetryCount = 4
  MaxCommands = 1
  MaxFaults = 2
CHECK_DEADLOCK FALSE
SYMMETRY Symmetry
PROPERTIES
  FailedIsFinal
