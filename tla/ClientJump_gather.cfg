CONSTANTS
  N = 3
  c1 = c1
  c2 = c2
  c3 = c3
  Conns = {c1, c2}
  NoConn = NoConn
  Cmds <- Gather
  MaxCmds = 3
  MaxId = 1
  EventFail = TRUE
SPECIFICATION Spec
SYMMETRY ConnSymmetry
INVARIANTS
  RepliesInOrder
  RepliesArmed
  GatheredOnce
CHECK_DEADLOCK FALSE
