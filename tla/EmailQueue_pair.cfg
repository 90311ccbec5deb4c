\* Two instances racing for one row; the breaker's threshold is out of reach.
SPECIFICATION Spec
CONSTANTS
  e1 = e1
  w1 = w1
  w2 = w2
  none = none
  b = b
  Entry = {e1}
  NoEntry = none
  Source = {b}
  SourceOf <- OneSource
  Worker = {w1, w2}
  MaxAttempts = 2
  BatchSize = 1
  Threshold = 9
  SlowSends = FALSE
  MaxFaults = 2
CHECK_DEADLOCK FALSE
SYMMETRY Workers
INVARIANTS
  NoSilentLoss
  DuplicatesNeedFaults
  SingleSender
PROPERTIES
  HaltStopsDelivery
  ImplementsDelivery
