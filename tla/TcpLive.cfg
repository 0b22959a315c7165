CONSTANTS
  c1 = c1
  c2 = c2
  lamp = lamp
  meter = meter
  stranger = stranger
  Nobody = Nobody
  Clients = {c1, c2}
  Requests <- LiveRequests
  Devices = {lamp, meter}
  Relays = {lamp}
  BACKLOG = 1
  MESSAGE_SIZE = 3
  FileSizes = {2}
  FdLimit = 3
  MaxRequestParts = 1
  MaxAnswerParts = 1
  MaxAborts = 1
  MaxCrashes = 1
SPECIFICATION FairSpec
PROPERTIES
  EveryRequestAnswered
  EveryConnectionServed
CHECK_DEADLOCK FALSE
