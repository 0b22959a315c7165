CONSTANTS
  MAX_DEVICES = 2
  Relays <- Second
  Analyzers <- Both
  Historified <- Both
  Fired <- Second
  FdLimit = 4
  Stray = 7
  MaxCrashes = 1
  MaxFaults = 1
SPECIFICATION FairSpec
INVARIANTS
  TypeOK
  StarvedByLeaks
  EmptyOnlyTorn
PROPERTIES
  ShowsActual
  SwitchShown
