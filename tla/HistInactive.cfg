CONSTANTS
  REGISTER_COUNT = 1
  DeviceConfigs <- InactiveDevices
  Levels <- OnOff
  Junk <- Stray
  MaxFaults = 0
  MaxCrashes = 0
SPECIFICATION FairSpec
PROPERTY ValuesSettle
