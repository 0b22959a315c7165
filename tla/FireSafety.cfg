CONSTANTS
  SecsPerHour = 3
  HoursPerDay = 2
  DaysPerYear = 3
  DATE_ENTRIES = 2
  ClockChanges <- AnHour
  MaxLag = 2
  MaxCrashes = 2
  CountdownFloor <- Floor
  DeviceConfigs <- SafetyConfigs
SPECIFICATION Spec
INVARIANTS
  TypeOK
  OnTimeBudget
  MatchIsLatest
PROPERTIES
  NotTooSoon
  RoundSpec
