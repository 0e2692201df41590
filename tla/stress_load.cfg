CONSTANTS
  Workers = {w1}
  Test = test
  MAX_TEST = 4
  MAX_CLIENTS = 5
  Reserve = 2
  MAXINT = 1000
  Frail = {0, 1}
SPECIFICATION FairSpec
INVARIANTS CountIsExact ClosedOnce
PROPERTIES CloserOverruns LoadBacksOff
CHECK_DEADLOCK FALSE
