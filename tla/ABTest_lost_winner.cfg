\* A winner selected by hand while the test completes, no faults.
SPECIFICATION Spec
CONSTANTS
  e1 = e1
  e2 = e2
  u1 = u1
  ta = ta
  tb = tb
  None = None
  Executor = {e1}
  User = {u1}
  Template = {ta, tb}
  MaxRetries = 2
  Total = 3
  Percentage = 50
  BatchSize = 2
  MaxPicks = 1
  MaxFaults = 0
CHECK_DEADLOCK FALSE
PROPERTIES
  WinnerIsKept
