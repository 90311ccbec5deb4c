\* A batch enqueued between DeleteBySourceTx and the commit of the cancellation.
SPECIFICATION Spec
CONSTANTS
  e1 = e1
  e2 = e2
  c1 = c1
  Executor = {e1, e2}
  Client = {c1}
  MaxRetries = 3
  Total = 2
  Overruns = FALSE
  HandlerFails = FALSE
  MaxCopies = 2
  MaxRetryCount = 4
  MaxCommands = 3
  MaxFaults = 0
CHECK_DEADLOCK FALSE
SYMMETRY Symmetry
INVARIANTS
  CancelEmptiesQueue
