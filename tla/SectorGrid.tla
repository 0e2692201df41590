----------------------------- MODULE SectorGrid -----------------------------
(***************************************************************************)
(* The world as MMoRPGServer.cpp cuts it up: tiles, square sectors, the    *)
(* visibility test, the search over the own sector and the three nearest   *)
(* neighbours that stands in for "everybody around", and the way a player  *)
(* gets from tile to tile.  One player walks alone here, its moves follow  *)
(* one another.                                                            *)
(*                                                                         *)
(* The sector centres come from the loop at the start of main, whose break *)
(* at index 79 leaves the rest of the first row unset: what those CELLs    *)
(* contain is whatever the heap held.                                      *)
(***************************************************************************)
EXTENDS Integers, FiniteSetsExt

CONSTANTS
  W_WIDTH, W_HEIGHT,
  SECTOR_SIZE,
  VIEW_RANGE,
  LastSet,      \* last sector of the first row whose centre is set: 79
  Garbage,      \* centres an unset CELL may hold
  Blocked       \* tiles <<x, y>> with layer[1] set

ASSUME GridAssumption ==
  /\ W_WIDTH \in Nat \ {0} /\ W_HEIGHT \in Nat \ {0}
  /\ SECTOR_SIZE \in Nat \ {0} /\ VIEW_RANGE \in Nat
  /\ LastSet \in Nat /\ Garbage \subseteq Int \X Int
  \* The shipped map has obstacles.
  /\ Blocked \subseteq (0 .. W_WIDTH - 1) \X (0 .. W_HEIGHT - 1)
  /\ Blocked # {}

VARIABLES
  x, y,         \* m_x, m_y of the player
  dir,          \* m_dir
  members,      \* the sectors whose set p contains the player
  centre        \* pSectorRef: centreX, centreY of each sector

vars == <<x, y, dir, members, centre>>

nSectorX == (W_WIDTH + SECTOR_SIZE - 1) \div SECTOR_SIZE
nSectorY == (W_HEIGHT + SECTOR_SIZE - 1) \div SECTOR_SIZE
Sectors == 0 .. nSectorX * nSectorY - 1

Tiles == (0 .. W_WIDTH - 1) \X (0 .. W_HEIGHT - 1)

GetSectorIndex(a, b) == a \div SECTOR_SIZE + nSectorX * (b \div SECTOR_SIZE)

\* Mutant: the loop over the rows ends one too early.
adjacentShort(s) ==
  {s + i + nSectorX * k : i \in -1 .. 1, k \in -1 .. 0} \cap (Sectors \ {s})

\* Eight neighbours by index arithmetic: at the left and the right border of
\* the map the index runs on into the next row.
adjacentSector(s) ==
  {s + i + nSectorX * k : i \in -1 .. 1, k \in -1 .. 1} \cap (Sectors \ {s})

Square(n) == n * n

Distance(s, a, b) == Square(centre[s][1] - a) + Square(centre[s][2] - b)

\* Mutants: two instead of three; the farthest instead of the nearest.
clipTwo(a, b, ref) ==
  {chosen \in kSubset(2, ref) :
     \A s \in chosen, o \in ref \ chosen :
       Distance(s, a, b) <= Distance(o, a, b)}

clipFar(a, b, ref) ==
  {chosen \in kSubset(3, ref) :
     \A s \in chosen, o \in ref \ chosen :
       Distance(s, a, b) >= Distance(o, a, b)}

\* The three nearest of ref.  Which of two equally near ones comes first
\* depends on the order of a hash set: clipinglist is the set of outcomes.
clipinglist(a, b, ref) ==
  {chosen \in kSubset(3, ref) :
     \A s \in chosen, o \in ref \ chosen :
       Distance(s, a, b) <= Distance(o, a, b)}

\* The possible values of searchSectorID for somebody at <<a, b>>.
Searches(a, b) ==
  LET own == GetSectorIndex(a, b)
  IN  {chosen \cup {own} : chosen \in clipinglist(a, b, adjacentSector(own))}

can_see(a, b, c, d) == Square(a - c) + Square(b - d) <= Square(VIEW_RANGE)

\* main
IsSet(s) == s <= LastSet \/ s >= nSectorX
Middle(i) == (i * SECTOR_SIZE + (i + 1) * SECTOR_SIZE) \div 2

CentreOf(s) == <<Middle(s % nSectorX), Middle(s \div nSectorX)>>

Init ==
  /\ \E heap \in [{s \in Sectors : ~IsSet(s)} -> Garbage] :
       centre = [s \in Sectors |-> IF IsSet(s) THEN CentreOf(s) ELSE heap[s]]
  /\ x \in 0 .. W_WIDTH - 1 /\ y \in 0 .. W_HEIGHT - 1   \* a new account starts on any tile
  /\ dir = 1
  /\ members = {GetSectorIndex(x, y)}

\* Mutant: no PopPlayer.
EnterOnly(a, b) ==
  /\ x' = a /\ y' = b
  /\ members' = members \cup {GetSectorIndex(a, b)}

\* The player leaves its old sector when the new tile is in another one.
Enter(a, b) ==
  LET pre == GetSectorIndex(x, y)
      now == GetSectorIndex(a, b)
  IN  /\ x' = a /\ y' = b
      /\ members' = IF pre # now THEN (members \ {pre}) \cup {now} ELSE members

-----------------------------------------------------------------------------
(* CS_MOVE.  Direction 2 without room on the left runs into case 3.        *)

GoesLeft(d) == d = 2 /\ x > 0
GoesRight(d) == d \in {2, 3} /\ ~GoesLeft(d) /\ x < W_WIDTH - 1
GoesUp(d) == d = 0 /\ y > 0
GoesDown(d) == d = 1 /\ y < W_HEIGHT - 1

Column(d) == CASE GoesLeft(d) -> x - 1 [] GoesRight(d) -> x + 1 [] OTHER -> x
Row(d) == CASE GoesUp(d) -> y - 1 [] GoesDown(d) -> y + 1 [] OTHER -> y
Facing(d) == CASE GoesLeft(d) -> -1 [] GoesRight(d) -> 1 [] OTHER -> dir

\* The direction changes even if the tile turns out to be blocked.
Move(d) ==
  /\ dir' = Facing(d)
  /\ IF <<Column(d), Row(d)>> \in Blocked
     THEN UNCHANGED <<x, y, members>>
     ELSE Enter(Column(d), Row(d))
  /\ UNCHANGED centre

\* CS_TELEPORT and the respawn of a player draw an index 0 .. validnode.size()
\* into validnode and then use the index itself as the number of a tile.
ValidNodes == Cardinality(Tiles \ Blocked)

Teleport ==
  /\ \E select \in 0 .. ValidNodes :
       Enter(select % W_WIDTH, select \div W_WIDTH)
  /\ UNCHANGED <<dir, centre>>

Next == (\E d \in 0 .. 3 : Move(d)) \/ Teleport

Spec == Init /\ [][Next]_vars
-----------------------------------------------------------------------------
\* The player is on a tile of the map: neither a move at the border nor the
\* inclusive upper bound of the teleport's random index leads off it.
TypeOK ==
  /\ <<x, y>> \in Tiles
  /\ dir \in {-1, 1}
  /\ members \subseteq Sectors
  /\ DOMAIN centre = Sectors

\* The search reads the sets of the sectors only, so a player must be in the
\* set of the sector it stands in and in no other, after any walk.
InItsSector == members = {GetSectorIndex(x, y)}

\* A sector whose neighbours (also the ones around the border) have centres.
Tame(s) == \A o \in adjacentSector(s) : IsSet(o)

Window(r) == ((x - r .. x + r) \cap (0 .. W_WIDTH - 1))
             \X ((y - r .. y + r) \cap (0 .. W_HEIGHT - 1))

\* Everybody in sight stands in the own sector or one of its neighbours: the
\* searches that leave clipinglist out (the death of an NPC) find all of them.
NeighboursCoverView ==
  \A t \in Window(VIEW_RANGE) :
    can_see(x, y, t[1], t[2]) =>
      LET own == GetSectorIndex(x, y)
      IN  GetSectorIndex(t[1], t[2]) \in adjacentSector(own) \cup {own}

\* With clipinglist the search is sure to reach only half as far, whatever the
\* tie-breaks: less than half a sector, although VIEW_RANGE is a whole one.
Sure == (SECTOR_SIZE - 1) \div 2

\* Nobody within that distance is ever overlooked.
SearchCoversNear ==
  Tame(GetSectorIndex(x, y)) =>
    \A found \in Searches(x, y), t \in Window(Sure) :
      Square(t[1] - x) + Square(t[2] - y) <= Square(Sure)
        => GetSectorIndex(t[1], t[2]) \in found

\* A sector from the far side of the map, where the index arithmetic wraps
\* round, is listed as a neighbour and never among the three nearest.
SearchIsLocal ==
  Tame(GetSectorIndex(x, y)) =>
    \A found \in Searches(x, y), s \in Sectors :
      s \in found => /\ (s % nSectorX) - (x \div SECTOR_SIZE) \in -1 .. 1
                     /\ (s \div nSectorX) - (y \div SECTOR_SIZE) \in -1 .. 1
=============================================================================
