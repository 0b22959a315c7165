CONSTANTS
  REGISTER_COUNT = 1
  DeviceConfigs <- ActiveDevices
  Levels <- OnOff
  Junk <- Stray
  MaxFaults = 1
  MaxCrashes = 1
SPECIFICATION FairSpec
INVARIANTS
  TypeOK
  RowsFollowSamples
  EveryPeriod
PROPERTIES
  ValuesSettle
  RowsSettle
