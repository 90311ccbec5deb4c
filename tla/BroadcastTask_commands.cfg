\* Two executions, one user, every call and every kind of fault once.
SPECIFICATION Spec
CONSTANTS
  e1 = e1
  e2 = e2
  c1 = c1
  Executor = {e1, e2}
  Client = {c1}
  MaxRetries = 1
  Total = 2
  Overruns = FALSE
  HandlerFails = TRUE
  MaxCopies = 2
  MaxRetryCount = 4
  MaxCommands = 3
  MaxFaults = 1
CHECK_DEADLOCK FALSE
SYMMETRY Symmetry
INVARIANTS
  TypeOK
  AudienceCovered
  CursorSound
