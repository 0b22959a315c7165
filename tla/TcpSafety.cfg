CONSTANTS
  c1 = c1
  c2 = c2
  lamp = lamp
  meter = meter
  stranger = stranger
  Nobody = Nobody
  Clients = {c1, c2}
  Requests <- AllRequests
  Devices = {lamp, meter}
  Relays = {lamp}
  BACKLOG = 0
  MESSAGE_SIZE = 3
  FileSizes = {0, 4}
  FdLimit = 3
  MaxRequestParts = 2
  MaxAnswerParts = 2
  MaxAborts = 1
  MaxCrashes = 0
SYMMETRY AnyClient
SPECIFICATION Spec
INVARIANTS
  TypeOK
  AnswerIsOwn
  NoAnswerLost
PROPERTY RpcSpec
CHECK_DEADLOCK FALSE
