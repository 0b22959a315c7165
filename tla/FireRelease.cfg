CONSTANTS
  SecsPerHour = 2
  HoursPerDay = 3
  DaysPerYear = 2
  DATE_ENTRIES = 2
  ClockChanges <- NoChanges
  MaxLag = 1
  MaxCrashes = 0
  CountdownFloor <- Floor
  DeviceConfigs <- DailyConfigs
SPECIFICATION FairSpec
PROPERTY RelayReleased
