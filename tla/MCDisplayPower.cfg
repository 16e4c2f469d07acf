SPECIFICATION FairSpec
CONSTANTS
  MinPercent = 5
  MaxPercent = 10
  StepPercent = 5
  Timeouts <- MCTimeouts
  Default <- MCDefault
  QCap = 2
  MaxFaults = 2
INVARIANTS
  PowerTold
  CountsDown
  LevelTold
  DimmedByPolicy
PROPERTIES
  DimsAtLast
