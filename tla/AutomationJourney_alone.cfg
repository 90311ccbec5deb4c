\* One scheduler, one user, one contact's journey, one fault.
SPECIFICATION FairSpec
CONSTANTS
  j1 = j1
  c = c
  t = t
  e = e
  d = d
  f = f
  none = none
  u1 = u1
  w1 = w1
  Journey = {j1}
  Contact = {c}
  ContactOf <- OneContact
  Node = {t, e, d, f}
  NoNode = none
  Root = t
  Drafts <- Pruned
  User = {u1}
  Once = TRUE
  MaxFaults = 1
  Scheduler = {w1}
  NoJourney = none
  Kind <- Kinds
  Succ <- Path
  Exits = {e}
  MaxRetries = 2
  MaxNodesPerTick = 4
  BatchSize = 1
INVARIANTS
  TypeOK
  RepeatsNeedFaults
  OneEndEvent
  FailedIsExhausted
PROPERTIES
  PauseFreezesJourneys
  EnrolsWhileLive
  JourneysEnd
