CONSTANTS
  Packets = 6
  Start <- Starts
  Value <- Values
  Base = 16
  Stale <- ZeroOrOne
  BUF_SIZE = 8
SPECIFICATION Streams
INVARIANTS RecvHasRoom NothingWaits
PROPERTIES ImplementsFifo AllHandled ClientImplementsFifo ClientHandlesAll
CHECK_DEADLOCK FALSE
