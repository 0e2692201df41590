CONSTANTS
  Reader = reader
  Npcs = {n1}
  Timer = timer
  PerLevel = 1
  KillExp = 1
  Blow = 1
  Part = 1
  MaxLevel = 2
SPECIFICATION FairSpec
PROPERTY StatsConverge
CHECK_DEADLOCK FALSE
