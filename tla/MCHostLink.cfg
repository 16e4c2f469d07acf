SPECIFICATION FairSpec
CONSTANTS
  g1 = g1
  g2 = g2
  Gens <- MCGens
  QCap = 2
  AirCap = 1
  MaxFaults = 1
INVARIANTS
  OnePump
  ActiveIsServed
  ConnectFindsDown
  ClockSentMeansSent
PROPERTIES
  Implements
  DeadLinkNoticed
  Settles
