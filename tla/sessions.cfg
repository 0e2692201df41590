CONSTANTS
  Slots = {s0, s1}
  Conns = {1, 2}
  Workers = {w1, w2}
  Users = {alice}
  Testers = {}
  Registered = {alice}
  Buffers <- SixBuffers
  SendsFail = FALSE
  SqlFails = FALSE
  NoSlot = NoSlot
  NoConn = NoConn
  NoUser = NoUser
  NoName = NoName
SPECIFICATION FairSpec
INVARIANT UserPlaysOnce
PROPERTIES LoginIsAnswered LeftIsFreed
CHECK_DEADLOCK FALSE
