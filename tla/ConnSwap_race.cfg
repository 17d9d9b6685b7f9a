CONSTANTS
  N = 2
  Conns = {c1, c2}
  NoConn = NoConn
  MaxClients = 2
  NoticeCap = 2
  ReadFail = FALSE
  AllocFail = FALSE
SPECIFICATION Spec
INVARIANTS
  AnnouncedIsLive
