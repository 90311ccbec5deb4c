\* A segment is edited to a tree nobody meets.
SPECIFICATION Spec
CONSTANTS
  ta = ta
  tb = tb
  u1 = u1
  p1 = p1
  none = none
  notree = notree
  Contact = {1}
  Tree = {ta, tb}
  NoTree = notree
  Relative = {}
  Profile = {{ta}}
  User = {u1}
  MaxBuilds = 2
  MaxVersion = 2
  MaxChanges = 1
  MaxFaults = 0
  Worker = {p1}
  NoContact = none
  BatchSize = 1
  MaxRetries = 1
CHECK_DEADLOCK FALSE
INVARIANTS
  NoMatchNoMembers
