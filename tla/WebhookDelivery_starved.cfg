\* A batch is full of rows of disabled subscriptions.
SPECIFICATION FairSpec
CONSTANTS
  e1 = e1
  e2 = e2
  s1 = s1
  s2 = s2
  u1 = u1
  u2 = u2
  w1 = w1
  w2 = w2
  Event = {e1}
  Subscription = {s1, s2}
  User = {u1}
  Worker = {w1}
  MaxAttempts = 2
  BatchSize = 1
  MaxCommands = 1
  MaxFaults = 0
CHECK_DEADLOCK FALSE
PROPERTIES
  DeliveriesSettle
