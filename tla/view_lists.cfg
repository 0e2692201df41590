CONSTANTS
  Players = {p1, p2}
  Npcs = {}
  Threads = {t1, t2}
  Length = 2
  Origin = 1
  Places <- Line
  See <- Here
  Found <- Corner
  Adjacent <- Near
  Blow <- Here
  Bite <- Here
  Slot0 = p1
  NoOne = NoOne
SPECIFICATION Spec
INVARIANTS ListsMutual ListsTrue 
