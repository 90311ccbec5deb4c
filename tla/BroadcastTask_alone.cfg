\* One schedule call and nobody to interfere: crashes and failures only.
SPECIFICATION FairSpec
CONSTANTS
  e1 = e1
  e2 = e2
  c1 = c1
  Executor = {e1, e2}
  Client = {c1}
  MaxRetries = 2
  Total = 3
  Overruns = FALSE
  HandlerFails = FALSE
  MaxCopies = 5
  MaxRetryCount = 4
  MaxCommands = 1
  MaxFaults = 3
CHECK_DEADLOCK FALSE
INVARIANTS
  AtMostOneRunner
  EnqueuedOncePerFault
  RetriesAreUsed
  SendingHasTask
PROPERTIES
  CompletedIsFinal
  BroadcastSettles
