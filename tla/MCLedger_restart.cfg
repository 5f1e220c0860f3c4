SPECIFICATION Spec
CONSTANTS
  p1 = p1
  d1 = d1
  Torn = Torn
  Proc = {p1}
  Details = {d1}
  MaxAttempts = 2
  MaxCalls = 1
  MaxFaults = 1
INVARIANTS
  RestartReopens
CHECK_DEADLOCK FALSE
