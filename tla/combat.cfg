CONSTANTS
  p1 = p1
  n1 = n1
  n2 = n2
  Players = {p1, p2}
  Npcs = {n1, n2}
  Threads = {t1, t2, t3}
  NpcLevel <- Levels
  Accounts <- Beginners
  Range <- AllAttackN1
  Prey <- AllAfterP1
  MaxLevel = 2
  MinHp <- LowestHp
  None = None
SPECIFICATION Spec
INVARIANTS DeadNpcIsClaimed FallenIsNoticed HpFitsLevel ExpFitsLevel
SYMMETRY SameThreads
