CONSTANTS
  Players = {p1, p2}
  Npcs = {n1}
  Workers = {w1}
  Db = db
  Slot0 = p1
  Length = 3
  Places <- Line
  Home = 1
  See <- Near
  Found <- Near
  Reach <- Beside
  Adjacent <- Near
  NoPlayer = NoPlayer
  NoNpc = NoNpc
SPECIFICATION FairSpec
INVARIANTS TypeOK OneToken TargetIsChosen
PROPERTIES KeepsSchedule TurnsComeAndEnd UnseenFallsAsleep
