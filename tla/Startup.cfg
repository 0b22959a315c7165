CONSTANTS
  MAX_VARS = 3
  MAX_VAR_SIZE = 3
  MAX_DEVICES = 2
  BASE <- A
  PORT <- B
  MODBUS <- A
  DB <- B
  Char <- Chars
  ConfFiles <- AllConfs
  Edits <- Curated
  XmlFiles <- Xmls
  Absent = Absent
  LongIds <- Long
  MaxEdits = 1
  MaxFaults = 1
SPECIFICATION FairSpec
INVARIANTS
  TypeOK
  ConfigRead
  ServesConfigured
  ListedAreServed
PROPERTY ComesUp
CHECK_DEADLOCK FALSE
