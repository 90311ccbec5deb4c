\* The daily build of a segment with relative dates.
SPECIFICATION Spec
CONSTANTS
  ta = ta
  tb = tb
  u1 = u1
  p1 = p1
  none = none
  notree = notree
  Contact = {1, 2}
  Tree = {ta, tb}
  NoTree = notree
  Relative = {tb}
  Profile = {{}, {tb}}
  User = {u1}
  MaxBuilds = 2
  MaxVersion = 1
  MaxChanges = 2
  MaxFaults = 0
  Worker = {p1}
  NoContact = none
  BatchSize = 1
  MaxRetries = 1
CHECK_DEADLOCK FALSE
INVARIANTS
  RefreshIsExact
