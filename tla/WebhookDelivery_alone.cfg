\* One worker, one event for two subscriptions; a batch has room for every row.
SPECIFICATION FairSpec
CONSTANTS
  e1 = e1
  e2 = e2
  s1 = s1
  s2 = s2
  u1 = u1
  u2 = u2
  w1 = w1
  w2 = w2
  Event = {e1}
  Subscription = {s1, s2}
  User = {u1}
  Worker = {w1}
  MaxAttempts = 2
  BatchSize = 2
  MaxCommands = 2
  MaxFaults = 1
CHECK_DEADLOCK FALSE
INVARIANTS
  TypeOK
  GivenUpIsExhausted
  AcceptedOncePerFault
PROPERTIES
  DisabledIsLeftAlone
  DeliveriesSettle
