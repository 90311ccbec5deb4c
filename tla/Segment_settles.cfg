\* Two queue workers, one contact, a tree with relative dates; one fault.
SPECIFICATION FairSpec
CONSTANTS
  ta = ta
  u1 = u1
  p1 = p1
  p2 = p2
  none = none
  notree = notree
  Contact = {1}
  Tree = {ta}
  NoTree = notree
  Relative = {ta}
  Profile = {{ta}}
  User = {u1}
  MaxBuilds = 2
  MaxVersion = 1
  MaxChanges = 2
  MaxFaults = 1
  Worker = {p1, p2}
  NoContact = none
  BatchSize = 1
  MaxRetries = 1
CHECK_DEADLOCK FALSE
INVARIANTS
  NoLostRecompute
PROPERTIES
  BuildsEnd
  ChangesAreSeen
