SPECIFICATION Spec
CONSTANTS
  p1 = p1
  p2 = p2
  alice = alice
  bob = bob
  svc = svc
  bot = bot
  k1 = k1
  key1 = key1
  a1 = a1
  a2 = a2
  n1 = n1
  n2 = n2
  t1 = t1
  i1 = i1
  i2 = i2
  None = None
  Blank = Blank
  ShortNonce = ShortNonce
  Unparsable = Unparsable
  Ambiguous = Ambiguous
  Torn = Torn
  Proc = {p1, p2}
  Calls <- RaceCalls
  Times = {1}
  MaxAttempts = 2
  MaxCalls = 2
  MaxConsumes = 1
  MaxFaults = 0
INVARIANTS
  ConsumptionsAreRecorded
CHECK_DEADLOCK FALSE
