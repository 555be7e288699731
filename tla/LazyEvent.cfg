SPECIFICATION EventSpec
CONSTANTS
  s1 = s1
  s2 = s2
  w1 = w1
  w2 = w2
  w3 = w3
  None = None
  Setters <- MCSetters
  Waiters <- MCWaiters
INVARIANTS ReturnsOnlyAfterSet OneSharedEvent
CHECK_DEADLOCK FALSE
