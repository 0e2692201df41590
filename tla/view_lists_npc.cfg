CONSTANTS
  Players = {p1, p2}
  Npcs = {n1}
  Threads = {t1}
  Length = 2
  Origin = 1
  Places <- Line
  See <- Here
  Found <- Corner
  Adjacent <- Near
  Blow <- Here
  Bite <- Here
  Slot0 = NoOne
  NoOne = NoOne
SPECIFICATION Spec
SYMMETRY Alike
INVARIANTS ScreenFollowsList
