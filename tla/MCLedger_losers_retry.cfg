SPECIFICATION Spec
CONSTANTS
  p1 = p1
  p2 = p2
  d1 = d1
  Torn = Torn
  Proc = {p1, p2}
  Details = {d1}
  MaxAttempts = 2
  MaxCalls = 1
  MaxFaults = 0
INVARIANTS
  LosersRetry
CHECK_DEADLOCK FALSE
