SPECIFICATION Spec
CONSTANTS
  Studies = {s1}
  Options <- LongStudy
  Answers <- EveryAnswer
  Altering = {}
  Altered = {}
  Others = {}
  MaxFaults = 1
INVARIANTS
  ObjectivesAreBounded
CHECK_DEADLOCK FALSE
