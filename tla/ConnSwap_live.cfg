CONSTANTS
  N = 3
  Conns = {c1, c2}
  NoConn = NoConn
  MaxClients = 2
  NoticeCap = 2
  ReadFail = FALSE
  AllocFail = TRUE
SPECIFICATION FairSpec
INVARIANTS
  NoticesMatchUnits
PROPERTIES
  HopFinishes
  SocketServed
