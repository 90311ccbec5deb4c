\* Two events of one contact in concurrent transactions.
SPECIFICATION Spec
CONSTANTS
  j1 = j1
  j2 = j2
  c = c
  t = t
  e = e
  d = d
  f = f
  none = none
  u1 = u1
  w1 = w1
  Journey = {j1, j2}
  Contact = {c}
  ContactOf <- OneContact
  Node = {t, e, f}
  NoNode = none
  Root = t
  Drafts <- Fixed
  User = {u1}
  Once = TRUE
  MaxFaults = 0
  Scheduler = {}
  NoJourney = none
  Kind <- Emails
  Succ <- Straight
  Exits = {}
  MaxRetries = 2
  MaxNodesPerTick = 4
  BatchSize = 1
CHECK_DEADLOCK FALSE
INVARIANTS
  EnrolledOnce
