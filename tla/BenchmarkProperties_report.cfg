SPECIFICATION Spec
CONSTANTS
  None = None
  Blank = Blank
  ShortNonce = ShortNonce
  Unparsable = Unparsable
  Ambiguous = Ambiguous
  MaxRegressions = 2
INVARIANTS
  ScenariosHold
  RegressionsAreReported
CHECK_DEADLOCK FALSE
