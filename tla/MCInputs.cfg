SPECIFICATION FairSpec
CONSTANTS
  TouchCap = 1
  MaxFaults = 1
INVARIANTS
  AsleepReleased
PROPERTIES
  OnlyReadIsCleared
  ButtonFollows
  UsbTold
  PressAnswered
CHECK_DEADLOCK FALSE
