SPECIFICATION FairSpec
CONSTANTS
  p1 = p1
  p2 = p2
  d1 = d1
  Torn = Torn
  Proc = {p1, p2}
  Details = {d1}
  MaxAttempts = 2
  MaxCalls = 2
  MaxFaults = 2
INVARIANTS
  ChainIntact
  AnswersAreThePrefix
  ReceiptsVerify
  RecordedOnce
  CallsSeeThePast
  LostAttemptsAreOthersEvents
PROPERTIES
  AppendOnly
  RefusedAppendRecordsNothing
  ImplementsAuditLog
  AbandonedFileEndsTheLedger
  CallsEnd
CHECK_DEADLOCK FALSE
