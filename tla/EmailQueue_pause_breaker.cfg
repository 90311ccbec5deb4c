\* One instance whose breaker opens while its batch is being paused.
SPECIFICATION Spec
CONSTANTS
  e1 = e1
  e2 = e2
  w1 = w1
  none = none
  b = b
  Entry = {e1, e2}
  NoEntry = none
  Source = {b}
  SourceOf <- OneSource
  Worker = {w1}
  MaxAttempts = 2
  BatchSize = 2
  Threshold = 1
  SlowSends = FALSE
  MaxFaults = 0
CHECK_DEADLOCK FALSE
PROPERTIES
  HaltStopsDelivery
