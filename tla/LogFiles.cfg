CONSTANTS
  main = main
  core = core
  Threads <- Both
  Signals <- Kinds
  maxBackupFiles = 2
  maxFileSize = 2
  MaxMessages = 4
  MaxSignals = 2
  MaxFaults = 1
  MaxCrashes = 1
SPECIFICATION FairSpec
INVARIANTS
  TypeOK
  InOrder
  NoGap
  BackupSizes
PROPERTIES
  SignalEnds
  RollingSpec
CHECK_DEADLOCK FALSE
