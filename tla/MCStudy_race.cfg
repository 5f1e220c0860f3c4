SPECIFICATION FairSpec
CONSTANTS
  Studies = {s1, s2}
  Options <- EveryStudy
  Answers <- EveryAnswer
  Altering = {s2}
  Altered <- OneProvider
  Others = {a1}
  MaxFaults = 1
INVARIANTS
  TypeOK
  EventsBracketProviders
  ProvidersSeeCleanText
  EvidenceMatchesAnswers
  
  ResultsAreEvidenced
PROPERTIES
  StudiesEndOnceAnswered
CHECK_DEADLOCK FALSE
