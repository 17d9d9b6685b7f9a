CONSTANTS
  N = 2
  c1 = c1
  c2 = c2
  c3 = c3
  Conns = {c1, c2}
  NoConn = NoConn
  Cmds <- Kills
  MaxCmds = 2
  MaxId = 1
  EventFail = FALSE
SPECIFICATION FairSpec
INVARIANTS
  KilledAll
PROPERTIES
  NothingAfterClose
  JumpAnswered
  RepliesSent
CHECK_DEADLOCK FALSE
