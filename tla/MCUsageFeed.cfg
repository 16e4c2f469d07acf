SPECIFICATION FairSpec
CONSTANTS
  QCap = 2
  AirCap = 1
  RecvCap = 2
  FreshFor = 2
  MaintEvery = 1
  MaxAge = 4
INVARIANTS
  TypeOK
  LiveMeansCurrentOrLeftOver
PROPERTIES
  NewestWins
  Implements
  GoesOffline
