CONSTANTS
  c1 = c1
  c2 = c2
  lamp = lamp
  meter = meter
  stranger = stranger
  Nobody = Nobody
  Clients = {c1, c2}
  Requests <- PollRequests
  Devices = {lamp, meter}
  Relays = {lamp}
  BACKLOG = 1
  MESSAGE_SIZE = 3
  FileSizes = {2}
  FdLimit = 3
  MaxRequestParts = 2
  MaxAnswerParts = 1
  MaxAborts = 0
  MaxCrashes = 0
SPECIFICATION FairSpec
PROPERTY EveryRequestAnswered
CHECK_DEADLOCK FALSE
