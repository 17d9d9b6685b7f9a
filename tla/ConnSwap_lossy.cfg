CONSTANTS
  N = 2
  Conns = {c1, c2, c3}
  NoConn = NoConn
  MaxClients = 2
  NoticeCap = 1
  ReadFail = TRUE
  AllocFail = TRUE
SPECIFICATION Spec
INVARIANTS
  OneOwner
  RoutedByCuridx
  CounterCoversOpen
PROPERTIES
  ImplementsOwner
