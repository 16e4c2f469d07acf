SPECIFICATION Spec
CONSTANTS
  Percents <- MCPercents
  Segments = 3
  Window = 5
  MinCoverage = 2
  MaxGap = 3
  Scale = 100
  Hour = 10
  MaxRate = 12
  MaxElapsed = 4
INVARIANTS
  RateIsPace
  ReadyMeansRate
  StreakIsTrue
PROPERTIES
  Implements
