\* A resume checked before a cancellation commits.
SPECIFICATION Spec
CONSTANTS
  e1 = e1
  c1 = c1
  c2 = c2
  Executor = {e1}
  Client = {c1, c2}
  MaxRetries = 3
  Total = 1
  Overruns = FALSE
  HandlerFails = FALSE
  MaxCopies = 2
  MaxRetryCount = 4
  MaxCommands = 4
  MaxFaults = 0
CHECK_DEADLOCK FALSE
SYMMETRY Symmetry
PROPERTIES
  CancelIsFinal
