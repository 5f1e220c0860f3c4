SPECIFICATION FairSpec
CONSTANTS
  p1 = p1
  p2 = p2
  p3 = p3
  alice = alice
  k1 = k1
  n1 = n1
  n2 = n2
  a1 = a1
  a2 = a2
  Torn = Torn
  Proc = {p1, p2, p3}
  SignedApprovals <- MCSignedApprovals
  MaxConsumes = 2
INVARIANTS
  ConsumedOnce
  ReplaysNameTheClaim
PROPERTIES
  AbandonedClaimFailsClosed
  ImplementsApprovalConsumption
  ConsumesEnd
CHECK_DEADLOCK FALSE
