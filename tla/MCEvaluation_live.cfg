SPECIFICATION FairSpec
CONSTANTS
  None = None
  Blank = Blank
  ShortNonce = ShortNonce
  Unparsable = Unparsable
  Ambiguous = Ambiguous
  StudyOptions <- EveryStudy
  Payloads <- EveryBody
  Settings = {"missing", "blank", "set"}
INVARIANTS
  TypeOK
  CountedCallsWereMade
  FailuresStayFailures
  TextsComeFromCleanBodies
PROPERTIES
  ImplementsProvider
  EvaluationEnds
CHECK_DEADLOCK FALSE
