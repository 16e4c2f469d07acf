SPECIFICATION FairSpec
CONSTANTS
  MinPercent = 5
  MaxPercent = 10
  StepPercent = 5
  Timeouts <- MCOneTimeout
  Default <- MCDefault
  ForeignValues <- MCForeign
  MaxFaults = 2
INVARIANTS
  TypeOK
  SavedMeansStoredUnlessUnverified
PROPERTIES
  EditsSettle
