\* One instance: the breaker opens on the second failure, one fault.
SPECIFICATION FairSpec
CONSTANTS
  e1 = e1
  e2 = e2
  w1 = w1
  none = none
  b = b
  Entry = {e1, e2}
  NoEntry = none
  Source = {b}
  SourceOf <- OneSource
  Worker = {w1}
  MaxAttempts = 2
  BatchSize = 2
  Threshold = 2
  SlowSends = FALSE
  MaxFaults = 1
CHECK_DEADLOCK FALSE
INVARIANTS
  TypeOK
  NoStrandedRow
  HistoryMatchesOutcome
  BreakerGuardsProvider
PROPERTIES
  CancelStopsDelivery
  EveryRowSettles
