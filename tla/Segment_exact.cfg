\* One user, one queue worker, two contacts, two builds.
SPECIFICATION Spec
CONSTANTS
  ta = ta
  tb = tb
  u1 = u1
  p1 = p1
  none = none
  notree = notree
  Contact = {1, 2}
  Tree = {ta, tb}
  NoTree = notree
  Relative = {}
  Profile = {{ta}, {tb}}
  User = {u1}
  MaxBuilds = 2
  MaxVersion = 2
  MaxChanges = 1
  MaxFaults = 1
  Worker = {p1}
  NoContact = none
  BatchSize = 1
  MaxRetries = 1
SYMMETRY Trees
CHECK_DEADLOCK FALSE
INVARIANTS
  TypeOK
  BuildIsExact
