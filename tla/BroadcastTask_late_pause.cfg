\* A pause decided before a resume and carried out after it.
SPECIFICATION Spec
CONSTANTS
  e1 = e1
  c1 = c1
  Executor = {e1}
  Client = {c1}
  MaxRetries = 3
  Total = 2
  Overruns = FALSE
  HandlerFails = FALSE
  MaxCopies = 2
  MaxRetryCount = 4
  MaxCommands = 3
  MaxFaults = 0
CHECK_DEADLOCK FALSE
SYMMETRY Symmetry
INVARIANTS
  NoStrandedPause
