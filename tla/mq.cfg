\* A broker with nothing to deliver waits; a panicked one is gone.
CHECK_DEADLOCK FALSE
CONSTANTS
  c1 = c1
  c2 = c2
  c3 = c3
  shared = shared
  other = other
  Consumers = {c1, c2, c3}
  Groups = {shared, other}
  GroupOf <- TwoInOneGroup
  Messages = {m1}
  Nil = Nil
  MaxRetries = 1
  DLQCap = 1
  MaxFails = 2
  Carried = {0, 1}
  MaxCancels = 1
SPECIFICATION FairSpec
PROPERTY EventuallySettled
INVARIANT AtLeastOnce
INVARIANT StatsBalance
INVARIANT DeadAfterRetries
