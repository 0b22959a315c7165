CONSTANTS
  SecsPerHour = 3
  HoursPerDay = 3
  DaysPerYear = 3
  DATE_ENTRIES = 2
  ClockChanges <- NoChanges
  MaxLag = 2
  MaxCrashes = 1
  CountdownFloor <- Floor
  DeviceConfigs <- LiveConfigs
SPECIFICATION FairSpec
PROPERTIES
  EveryEntryStarts
  TimersRecur
  OpensAtStart
