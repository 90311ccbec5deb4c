\* A crash between two nodes.
SPECIFICATION FairSpec
CONSTANTS
  j1 = j1
  c = c
  t = t
  e = e
  d = d
  f = f
  none = none
  u1 = u1
  w1 = w1
  Journey = {j1}
  Contact = {c}
  ContactOf <- OneContact
  Node = {t, e, f}
  NoNode = none
  Root = t
  Drafts <- Fixed
  User = {u1}
  Once = TRUE
  MaxFaults = 1
  Scheduler = {w1}
  NoJourney = none
  Kind <- Emails
  Succ <- Straight
  Exits = {}
  MaxRetries = 2
  MaxNodesPerTick = 4
  BatchSize = 1
CHECK_DEADLOCK FALSE
PROPERTIES
  JourneysRecover
