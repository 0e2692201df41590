CONSTANTS
  Players = {p1}
  Npcs = {n1}
  Workers = {w1, w2}
  Db = db
  Slot0 = p1
  Length = 3
  Places <- Line
  Home = 1
  See <- Near
  Found <- Near
  Reach <- Beside
  Adjacent <- Near
  NoPlayer = NoPlayer
  NoNpc = NoNpc
SPECIFICATION FairSpec
PROPERTY WatchedIsActive
