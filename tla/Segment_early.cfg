\* One user, one queue worker, two contacts, relative dates, no faults: the first
\* build of a version.
SPECIFICATION Spec
CONSTANTS
  ta = ta
  tb = tb
  u1 = u1
  p1 = p1
  none = none
  notree = notree
  Contact = {1, 2}
  Tree = {ta, tb}
  NoTree = notree
  Relative = {ta, tb}
  Profile = {{ta}, {tb}}
  User = {u1}
  MaxBuilds = 2
  MaxVersion = 2
  MaxChanges = 2
  MaxFaults = 0
  Worker = {p1}
  NoContact = none
  BatchSize = 2
  MaxRetries = 1
SYMMETRY Trees
CHECK_DEADLOCK FALSE
INVARIANTS
  FirstIsExact
