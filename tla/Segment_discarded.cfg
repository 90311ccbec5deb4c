\* A contact changes while the first build of the segment runs.
SPECIFICATION Spec
CONSTANTS
  ta = ta
  p1 = p1
  none = none
  notree = notree
  Contact = {1}
  Tree = {ta}
  NoTree = notree
  Relative = {}
  Profile = {{ta}, {}}
  User = {}
  MaxBuilds = 1
  MaxVersion = 1
  MaxChanges = 1
  MaxFaults = 0
  Worker = {p1}
  NoContact = none
  BatchSize = 1
  MaxRetries = 1
CHECK_DEADLOCK FALSE
INVARIANTS
  DiscardsAreHarmless
