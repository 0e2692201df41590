CONSTANTS
  Slots = {s0}
  Conns = {1, 2}
  Workers = {w1, w2}
  Users = {alice, bob, carol}
  Testers = {carol}
  Registered = {alice}
  Buffers <- SixBuffers
  SendsFail = TRUE
  SqlFails = TRUE
  NoSlot = NoSlot
  NoConn = NoConn
  NoUser = NoUser
  NoName = NoName
SPECIFICATION Spec
INVARIANTS OneHandler NoGhosts NamesHaveOneOwner RowsKeepTheirOwner
SYMMETRY SlotsAndWorkersAlike
CHECK_DEADLOCK FALSE
