SPECIFICATION Spec
CONSTANTS
  Full = 2
  Reported <- MCReported
  Resets <- MCResets
  FreshFor = 1
  MaintEvery = 1
  MaxAge = 3
  Capacity = 2
  Window = 2
  MaxGap = 1
  MinCoverage = 2
  UnchangedLong = 2
  Minute = 2
  MinutesAnHour = 2
  RtcEvery = 1
INVARIANTS
  NoAlarmFromUnknown
