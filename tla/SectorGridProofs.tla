-------------------------- MODULE SectorGridProofs --------------------------
(***************************************************************************)
(* Theorems about the sector grid: on a map of any size, cut into sectors  *)
(* of any size, a player stays on the map and in the set of its sector,    *)
(* everybody in sight is in a neighbouring sector, and what the clipped    *)
(* search of the own and three more sectors takes and finds.               *)
(***************************************************************************)
EXTENDS SectorGrid, FiniteSetTheorems, TLAPS

-----------------------------------------------------------------------------
(* Division by a number that is not given.                                 *)

LEMMA Quotient ==
  ASSUME NEW n \in Nat \ {0}, NEW a \in Nat
  PROVE  /\ a \div n \in Nat /\ a % n \in 0 .. n - 1
         /\ a = n * (a \div n) + (a % n)
<1>1. a \div n \in Nat
  OBVIOUS
<1>2. a % n \in 0 .. n - 1
  OBVIOUS
<1>3. a = n * (a \div n) + (a % n)
  OBVIOUS
<1> QED BY <1>1, <1>2, <1>3

LEMMA QuotientUnique ==
  ASSUME NEW n \in Nat \ {0}, NEW q \in Int, NEW p \in Int, NEW r \in 0 .. n - 1, NEW s \in 0 .. n - 1,
         n * q + r <= n * p + s
  PROVE  q <= p
<1> SUFFICES ASSUME q >= p + 1 PROVE FALSE
  OBVIOUS
<1>1. n * q >= n * (p + 1)
  OBVIOUS
<1>2. n * (p + 1) = n * p + n
  OBVIOUS
<1> QED BY <1>1, <1>2

\* Larger numbers have larger quotients, near ones quotients that are nearer.
LEMMA QuotientMonotone ==
  ASSUME NEW n \in Nat \ {0}, NEW a \in Nat, NEW b \in Nat
  PROVE  /\ a <= b => a \div n <= b \div n
         /\ b <= a + n => b \div n <= a \div n + 1
<1>1. /\ a \div n \in Nat /\ a % n \in 0 .. n - 1 /\ a = n * (a \div n) + (a % n)
      /\ b \div n \in Nat /\ b % n \in 0 .. n - 1 /\ b = n * (b \div n) + (b % n)
  BY Quotient
<1>2. ASSUME a <= b PROVE a \div n <= b \div n
  <2>1. n * (a \div n) + (a % n) <= n * (b \div n) + (b % n)
    BY <1>1, <1>2
  <2> QED BY <1>1, <2>1, QuotientUnique
<1>3. ASSUME b <= a + n PROVE b \div n <= a \div n + 1
  <2>1. n * ((a \div n) + 1) = n * (a \div n) + n
    BY <1>1
  <2>2. n * (b \div n) + (b % n) <= n * ((a \div n) + 1) + (a % n)
    BY <1>1, <1>3, <2>1
  <2> QED BY <1>1, <2>2, QuotientUnique
<1> QED BY <1>2, <1>3

LEMMA QuotientNext ==
  ASSUME NEW n \in Nat \ {0}, NEW a \in Nat
  PROVE  (a + n) \div n = a \div n + 1
<1>1. /\ a \div n \in Nat /\ a % n \in 0 .. n - 1 /\ a = n * (a \div n) + (a % n)
      /\ (a + n) \div n \in Nat /\ (a + n) % n \in 0 .. n - 1
      /\ a + n = n * ((a + n) \div n) + ((a + n) % n)
  BY Quotient
<1>2. n * ((a \div n) + 1) = n * (a \div n) + n
  BY <1>1
<1>3. n * ((a \div n) + 1) + (a % n) = n * ((a + n) \div n) + ((a + n) % n)
  BY <1>1, <1>2
<1>4. (a \div n) + 1 <= (a + n) \div n /\ (a + n) \div n <= (a \div n) + 1
  BY <1>1, <1>3, QuotientUnique
<1> QED BY <1>1, <1>4

-----------------------------------------------------------------------------
(* The map.                                                                *)

\* A strip of w tiles is covered by as many sectors as main computes.
LEMMA StripCovered ==
  ASSUME NEW w \in Nat \ {0}, NEW a \in 0 .. w - 1
  PROVE  a \div SECTOR_SIZE \in 0 .. ((w + SECTOR_SIZE - 1) \div SECTOR_SIZE) - 1
<1> SECTOR_SIZE \in Nat \ {0} /\ a \in Nat /\ w - 1 \in Nat
  BY GridAssumption
<1>1. a \div SECTOR_SIZE \in Nat /\ a \div SECTOR_SIZE <= (w - 1) \div SECTOR_SIZE
  BY Quotient, QuotientMonotone
<1>2. ((w - 1) + SECTOR_SIZE) \div SECTOR_SIZE = (w - 1) \div SECTOR_SIZE + 1
  BY QuotientNext
<1>3. (w - 1) + SECTOR_SIZE = w + SECTOR_SIZE - 1
  OBVIOUS
<1>4. (w - 1) \div SECTOR_SIZE \in Nat
  BY Quotient
<1> QED BY <1>1, <1>2, <1>3, <1>4

LEMMA SectorOnMap ==
  ASSUME NEW a \in 0 .. W_WIDTH - 1, NEW b \in 0 .. W_HEIGHT - 1
  PROVE  GetSectorIndex(a, b) \in Sectors
<1> DEFINE i == a \div SECTOR_SIZE
           k == b \div SECTOR_SIZE
<1>1. i \in 0 .. nSectorX - 1 /\ k \in 0 .. nSectorY - 1
  BY StripCovered, GridAssumption DEF nSectorX, nSectorY
<1>2. nSectorX \in Nat /\ nSectorY \in Nat
  <2>1. W_WIDTH + SECTOR_SIZE - 1 \in Nat /\ W_HEIGHT + SECTOR_SIZE - 1 \in Nat /\ SECTOR_SIZE \in Nat \ {0}
    BY GridAssumption
  <2> QED BY <2>1, Quotient DEF nSectorX, nSectorY
<1>3. GetSectorIndex(a, b) = i + nSectorX * k
  BY DEF GetSectorIndex
<1> HIDE DEF i, k
<1>4. nSectorX * k >= 0 /\ nSectorX * k <= nSectorX * (nSectorY - 1)
  BY <1>1, <1>2
<1>5. nSectorX * (nSectorY - 1) = nSectorX * nSectorY - nSectorX
  BY <1>2
<1>6. nSectorX * k \in Int /\ nSectorX * nSectorY \in Int
  BY <1>1, <1>2
<1> QED BY <1>1, <1>2, <1>3, <1>4, <1>5, <1>6 DEF Sectors

\* The inclusive bound of the random index is a tile, as some tile is blocked.
LEMMA NodesOnMap ==
  ASSUME NEW select \in 0 .. ValidNodes
  PROVE  select % W_WIDTH \in 0 .. W_WIDTH - 1 /\ select \div W_WIDTH \in 0 .. W_HEIGHT - 1
<1> W_WIDTH \in Nat \ {0} /\ W_HEIGHT \in Nat \ {0}
  BY GridAssumption
<1>1. IsFiniteSet(Tiles) /\ Cardinality(Tiles) = W_WIDTH * W_HEIGHT
  <2>1. /\ IsFiniteSet(0 .. W_WIDTH - 1) /\ Cardinality(0 .. W_WIDTH - 1) = W_WIDTH
        /\ IsFiniteSet(0 .. W_HEIGHT - 1) /\ Cardinality(0 .. W_HEIGHT - 1) = W_HEIGHT
    <3>1. \A n \in Nat \ {0} : IsFiniteSet(0 .. n - 1) /\ Cardinality(0 .. n - 1) = n
      <4> SUFFICES ASSUME NEW n \in Nat \ {0}
                   PROVE  IsFiniteSet(0 .. n - 1) /\ Cardinality(0 .. n - 1) = n
        OBVIOUS
      <4>1. n - 1 \in Int /\ ~(0 > n - 1) /\ (n - 1) - 0 + 1 = n
        OBVIOUS
      <4> QED BY <4>1, FS_Interval
    <3> QED BY <3>1
  <2> QED BY <2>1, FS_Product, ZenonT(30) DEF Tiles
<1>2. PICK t : t \in Blocked /\ t \in Tiles
  BY GridAssumption DEF Tiles
<1>3. /\ IsFiniteSet(Tiles \ {t}) /\ Cardinality(Tiles \ {t}) = W_WIDTH * W_HEIGHT - 1
  BY <1>1, <1>2, FS_RemoveElement
<1>4. ValidNodes \in Nat /\ ValidNodes <= W_WIDTH * W_HEIGHT - 1
  BY <1>2, <1>3, FS_Subset, FS_CardinalityType DEF ValidNodes
<1>5. select \in Nat /\ select <= W_WIDTH * W_HEIGHT - 1
  BY <1>4
<1>6. /\ select \div W_WIDTH \in Nat /\ select % W_WIDTH \in 0 .. W_WIDTH - 1
      /\ select = W_WIDTH * (select \div W_WIDTH) + (select % W_WIDTH)
  BY <1>5, Quotient
<1>7. W_WIDTH * (select \div W_WIDTH) + (select % W_WIDTH) <= W_WIDTH * (W_HEIGHT - 1) + (W_WIDTH - 1)
  <2>1. W_WIDTH * (W_HEIGHT - 1) = W_WIDTH * W_HEIGHT - W_WIDTH
    OBVIOUS
  <2>2. W_WIDTH * W_HEIGHT \in Nat
    OBVIOUS
  <2> QED BY <1>5, <1>6, <2>1, <2>2
<1>8. select \div W_WIDTH <= W_HEIGHT - 1
  BY <1>6, <1>7, QuotientUnique
<1> QED BY <1>6, <1>8

-----------------------------------------------------------------------------
(* The walk.                                                               *)

Inv == TypeOK /\ InItsSector

LEMMA InvInit == ASSUME Init PROVE Inv
<1>1. x \in 0 .. W_WIDTH - 1 /\ y \in 0 .. W_HEIGHT - 1 /\ members = {GetSectorIndex(x, y)}
  BY DEF Init
<1>2. GetSectorIndex(x, y) \in Sectors
  BY <1>1, SectorOnMap
<1> QED BY <1>1, <1>2 DEF Init, Inv, TypeOK, InItsSector, Tiles

\* Who gets to a tile gets into its sector.
LEMMA EnterKeeps ==
  ASSUME Inv, NEW a \in 0 .. W_WIDTH - 1, NEW b \in 0 .. W_HEIGHT - 1, Enter(a, b),
         dir' \in {-1, 1}, UNCHANGED centre
  PROVE  Inv'
<1>1. GetSectorIndex(a, b) \in Sectors
  BY SectorOnMap
<1>2. x' = a /\ y' = b
  BY DEF Enter
<1>3. members = {GetSectorIndex(x, y)}
  BY DEF Inv, InItsSector
<1>4. members' = {GetSectorIndex(a, b)}
  BY <1>3 DEF Enter
<1> QED BY <1>1, <1>2, <1>4 DEF Inv, TypeOK, InItsSector, Tiles

LEMMA InvStep == ASSUME Inv, [Next]_vars PROVE Inv'
<1>0. x \in 0 .. W_WIDTH - 1 /\ y \in 0 .. W_HEIGHT - 1 /\ dir \in {-1, 1}
      /\ W_WIDTH \in Nat /\ W_HEIGHT \in Nat
  BY GridAssumption DEF Inv, TypeOK, Tiles
<1>1. ASSUME NEW d \in 0 .. 3, Move(d) PROVE Inv'
  <2>1. Column(d) \in 0 .. W_WIDTH - 1
    <3>1. CASE GoesLeft(d)
      BY <1>0, <3>1 DEF Column, GoesLeft, GoesRight
    <3>2. CASE GoesRight(d)
      BY <1>0, <3>2 DEF Column, GoesLeft, GoesRight
    <3>3. CASE ~GoesLeft(d) /\ ~GoesRight(d)
      BY <1>0, <3>3 DEF Column
    <3> QED BY <3>1, <3>2, <3>3
  <2>2. Row(d) \in 0 .. W_HEIGHT - 1
    <3>1. CASE GoesUp(d)
      BY <1>0, <3>1 DEF Row, GoesUp, GoesDown
    <3>2. CASE GoesDown(d)
      BY <1>0, <3>2 DEF Row, GoesUp, GoesDown
    <3>3. CASE ~GoesUp(d) /\ ~GoesDown(d)
      BY <1>0, <3>3 DEF Row
    <3> QED BY <3>1, <3>2, <3>3
  <2>3. dir' \in {-1, 1} /\ UNCHANGED centre
    BY <1>0, <1>1 DEF Move, Facing
  <2>4. CASE <<Column(d), Row(d)>> \in Blocked
    <3>1. UNCHANGED <<x, y, members>>
      BY <1>1, <2>4 DEF Move
    <3> QED BY <2>3, <3>1 DEF Inv, TypeOK, InItsSector, GetSectorIndex
  <2>5. CASE <<Column(d), Row(d)>> \notin Blocked
    <3>1. Enter(Column(d), Row(d))
      BY <1>1, <2>5 DEF Move
    <3> QED BY <2>1, <2>2, <2>3, <3>1, EnterKeeps
  <2> QED BY <2>4, <2>5
<1>2. CASE Teleport
  <2>1. PICK select \in 0 .. ValidNodes : Enter(select % W_WIDTH, select \div W_WIDTH)
    BY <1>2 DEF Teleport
  <2>2. dir' \in {-1, 1} /\ UNCHANGED centre
    BY <1>0, <1>2 DEF Teleport
  <2> QED BY <2>1, <2>2, NodesOnMap, EnterKeeps
<1>3. CASE UNCHANGED vars
  BY <1>3 DEF vars, Inv, TypeOK, InItsSector, GetSectorIndex
<1> QED BY <1>1, <1>2, <1>3 DEF Next

LEMMA SpecInv == Spec => []Inv
BY InvInit, InvStep, PTL DEF Spec

\* The player stays on the map: neither a step at the border nor a teleport to the
\* index behind the last valid node leads off it.
THEOREM TypeCorrect == Spec => []TypeOK
<1>1. Inv => TypeOK
  BY DEF Inv
<1> QED BY SpecInv, <1>1, PTL

\* After any walk the player is in the set of the sector it stands in and in no
\* other, also in sectors the border of the map cuts off.
THEOREM SectorCorrect == Spec => []InItsSector
<1>1. Inv => InItsSector
  BY DEF Inv
<1> QED BY SpecInv, <1>1, PTL

-----------------------------------------------------------------------------
(* What a search without clipinglist reaches.                              *)

LEMMA Near ==
  ASSUME NEW n \in Int, NEW m \in Int, NEW v \in Nat, Square(n) + Square(m) <= Square(v)
  PROVE  n \in -v .. v
<1>1. m * m >= 0
  OBVIOUS
<1>2. n * n <= v * v
  BY <1>1 DEF Square
<1>3. n > v => n * n > v * v
  OBVIOUS
<1>4. n < -v => n * n > v * v
  OBVIOUS
<1> QED BY <1>2, <1>3, <1>4

-----------------------------------------------------------------------------
(* The three nearest.  Seen from the player a sector lies Right(s) columns  *)
(* and Down(s) rows away, and the player is Off(x) and Off(y) from the      *)
(* middle of its own sector.                                                *)

Right(s) == (s % nSectorX) - (x \div SECTOR_SIZE)
Down(s) == (s \div nSectorX) - (y \div SECTOR_SIZE)
Off(a) == (SECTOR_SIZE \div 2) - (a % SECTOR_SIZE)
Own == GetSectorIndex(x, y)

\* The centres main has set stay what they are; the others are the heap's.
CentresKnown == \A s \in Sectors : IsSet(s) => centre[s] = CentreOf(s)

LEMMA CentresStay == Spec => []CentresKnown
<1>1. Init => CentresKnown
  BY DEF Init, CentresKnown
<1>2. CentresKnown /\ [Next]_vars => CentresKnown'
  BY DEF CentresKnown, Next, Move, Teleport, vars, IsSet, CentreOf
<1> QED BY <1>1, <1>2, PTL DEF Spec

LEMMA Sizes ==
  /\ SECTOR_SIZE \in Nat \ {0} /\ nSectorX \in Nat \ {0} /\ nSectorY \in Nat \ {0}
<1>1. ASSUME NEW w \in Nat \ {0}
      PROVE  (w + SECTOR_SIZE - 1) \div SECTOR_SIZE \in Nat \ {0}
  <2>1. 0 \in 0 .. w - 1 /\ w + SECTOR_SIZE - 1 \in Nat
    BY GridAssumption
  <2>2. (w + SECTOR_SIZE - 1) \div SECTOR_SIZE \in Nat
    BY <2>1, GridAssumption, Quotient
  <2>3. 0 \div SECTOR_SIZE \in 0 .. ((w + SECTOR_SIZE - 1) \div SECTOR_SIZE) - 1
    BY <2>1, StripCovered
  <2> QED BY <2>2, <2>3
<1> QED BY <1>1, GridAssumption DEF nSectorX, nSectorY

\* Where the player stands, in sectors and in tiles.
LEMMA Place ==
  ASSUME TypeOK
  PROVE  /\ x \in Nat /\ y \in Nat
         /\ x \div SECTOR_SIZE \in 0 .. nSectorX - 1 /\ y \div SECTOR_SIZE \in 0 .. nSectorY - 1
         /\ Own = (x \div SECTOR_SIZE) + nSectorX * (y \div SECTOR_SIZE)
         /\ Own \in Sectors
<1>1. x \in 0 .. W_WIDTH - 1 /\ y \in 0 .. W_HEIGHT - 1
  BY DEF TypeOK, Tiles
<1>2. x \div SECTOR_SIZE \in 0 .. nSectorX - 1 /\ y \div SECTOR_SIZE \in 0 .. nSectorY - 1
  BY <1>1, StripCovered, GridAssumption DEF nSectorX, nSectorY
<1> QED BY <1>1, <1>2, SectorOnMap DEF Own, GetSectorIndex

\* The middle of strip j, from a tile in any other strip.
LEMMA MiddleFrom ==
  ASSUME NEW j \in Nat, NEW a \in Nat
  PROVE  /\ Middle(j) - a = SECTOR_SIZE * (j - a \div SECTOR_SIZE) + Off(a)
         /\ Off(a) \in Int /\ 2 * Off(a) \in -SECTOR_SIZE .. SECTOR_SIZE
<1> DEFINE c == a \div SECTOR_SIZE
           p == a % SECTOR_SIZE
           m == SECTOR_SIZE * j
<1>1. /\ SECTOR_SIZE \in Nat \ {0} /\ c \in Nat /\ p \in 0 .. SECTOR_SIZE - 1
      /\ a = SECTOR_SIZE * c + p
  BY Sizes, Quotient
<1>2. m \in Int /\ SECTOR_SIZE * (j - c) = m - SECTOR_SIZE * c /\ SECTOR_SIZE * c \in Int
  BY <1>1
<1>3. j * SECTOR_SIZE + (j + 1) * SECTOR_SIZE = 2 * m + SECTOR_SIZE
  BY <1>1
<1> HIDE DEF m
<1>4. (2 * m + SECTOR_SIZE) \div 2 = m + SECTOR_SIZE \div 2
  BY <1>1, <1>2
<1>5. Middle(j) = m + SECTOR_SIZE \div 2
  BY <1>3, <1>4 DEF Middle
<1>6. SECTOR_SIZE \div 2 \in Int /\ 2 * (SECTOR_SIZE \div 2) \in SECTOR_SIZE - 1 .. SECTOR_SIZE
  BY <1>1
<1> HIDE DEF c, p
<1>7. Off(a) = SECTOR_SIZE \div 2 - p
  BY DEF Off, p
<1>8. Middle(j) - a = SECTOR_SIZE * (j - c) + Off(a)
  BY <1>1, <1>2, <1>5, <1>6, <1>7
<1> QED BY <1>1, <1>6, <1>7, <1>8 DEF c

\* The distance that clipinglist sorts by, for a sector whose centre is set.
LEMMA SquaredDistance ==
  ASSUME TypeOK, CentresKnown, NEW s \in Sectors, IsSet(s)
  PROVE  Distance(s, x, y) = Square(SECTOR_SIZE * Right(s) + Off(x))
                             + Square(SECTOR_SIZE * Down(s) + Off(y))
<1>1. s \in Nat
  BY DEF Sectors
<1>2. s % nSectorX \in Nat /\ s \div nSectorX \in Nat
  <2>1. s % nSectorX \in 0 .. nSectorX - 1 /\ s \div nSectorX \in Nat
    BY <1>1, Sizes, Quotient
  <2> QED BY <2>1, Sizes
<1>3. centre[s] = <<Middle(s % nSectorX), Middle(s \div nSectorX)>>
  BY DEF CentresKnown, CentreOf
<1>4. /\ Middle(s % nSectorX) - x = SECTOR_SIZE * Right(s) + Off(x)
      /\ Middle(s \div nSectorX) - y = SECTOR_SIZE * Down(s) + Off(y)
  BY <1>2, Place, MiddleFrom DEF Right, Down
<1> QED BY <1>3, <1>4 DEF Distance

\* A number has one quotient and one rest.
LEMMA DivisionUnique ==
  ASSUME NEW n \in Nat \ {0}, NEW q \in Int, NEW p \in Int, NEW e \in 0 .. n - 1, NEW f \in 0 .. n - 1,
         n * q + e = n * p + f
  PROVE  q = p /\ e = f
<1>1. n * q \in Int /\ n * p \in Int
  OBVIOUS
<1>2. n * q + e <= n * p + f /\ n * p + f <= n * q + e
  BY <1>1
<1>3. q <= p /\ p <= q
  BY <1>2, QuotientUnique
<1>4. q = p
  BY <1>3
<1> QED BY <1>1, <1>4

\* What adjacentSector lists is next to the own sector, or lies in the first or
\* the last column when the own sector is in the other one of them.
LEMMA Neighbours ==
  ASSUME TypeOK, nSectorX >= 4, NEW s \in adjacentSector(Own)
  PROVE  /\ s \in Sectors /\ Right(s) \in Int /\ Down(s) \in Int
         /\ s = Own + Right(s) + nSectorX * Down(s) /\ s # Own
         /\ \/ Right(s) \in -1 .. 1 /\ Down(s) \in -1 .. 1
            \/ Right(s) >= 3
            \/ Right(s) <= -3
<1> DEFINE n == nSectorX
           c == x \div SECTOR_SIZE
           r == y \div SECTOR_SIZE
           cs == s % nSectorX
           rs == s \div nSectorX
<1>1. n \in Nat \ {0} /\ n >= 4 /\ c \in 0 .. n - 1 /\ r \in Nat /\ Own = c + n * r
  <2>1. r \in 0 .. nSectorY - 1 /\ nSectorY \in Nat
    BY Place, Sizes
  <2>2. r \in Nat
    <3> HIDE DEF r
    <3> QED BY <2>1
  <2> QED BY <2>2, Place, Sizes
<1>2. PICK i \in -1 .. 1, k \in -1 .. 1 : s = Own + i + n * k
  BY DEF adjacentSector
<1>3. s \in Sectors /\ s # Own
  BY DEF adjacentSector
<1>4. s \in Nat /\ cs \in 0 .. n - 1 /\ rs \in Nat /\ s = n * rs + cs
  <2>1. s \in Nat
    BY <1>3 DEF Sectors
  <2> QED BY <1>1, <2>1, Quotient
<1>5. Right(s) = cs - c /\ Down(s) = rs - r
  BY DEF Right, Down
<1> HIDE DEF n, c, r, cs, rs
<1>6. n * (rs - r) = n * rs - n * r /\ n * rs \in Int /\ n * r \in Int
  BY <1>1, <1>4
<1>7. s = Own + Right(s) + n * Down(s)
  BY <1>1, <1>4, <1>5, <1>6
<1>8. \A p \in Int, f \in 0 .. n - 1 : n * rs + cs = n * p + f => cs = f
  <2>1. n \in Nat \ {0} /\ rs \in Int /\ cs \in 0 .. n - 1
    BY <1>1, <1>4
  <2> SUFFICES ASSUME NEW p \in Int, NEW f \in 0 .. n - 1, n * rs + cs = n * p + f PROVE cs = f
    OBVIOUS
  <2> QED BY ONLY <2>1, n * rs + cs = n * p + f, p \in Int, f \in 0 .. n - 1, DivisionUnique
<1>9. \/ Right(s) \in -1 .. 1 /\ Down(s) \in -1 .. 1
      \/ Right(s) >= 3
      \/ Right(s) <= -3
  <2>1. n * (r + k) = n * r + n * k /\ n * (r + k - 1) = n * r + n * k - n
        /\ n * (r + k + 1) = n * r + n * k + n /\ n * k \in Int
    BY <1>1, <1>2
  <2>2. CASE c + i \in 0 .. n - 1
    <3>1. n * rs + cs = n * (r + k) + (c + i) /\ r + k \in Int /\ (c + i) \in 0 .. n - 1
      BY <1>1, <1>2, <1>4, <1>6, <2>1, <2>2
    <3>2. cs = (c + i)
      BY <1>8, <3>1
    <3> QED BY <1>1, <1>2, <1>4, <1>5, <3>2
  <2>3. CASE c + i = -1
    <3>1. n * rs + cs = n * (r + k - 1) + (n - 1) /\ r + k - 1 \in Int /\ (n - 1) \in 0 .. n - 1
      BY <1>1, <1>2, <1>4, <1>6, <2>1, <2>3
    <3>2. cs = (n - 1)
      BY <1>8, <3>1
    <3> QED BY <1>1, <1>2, <1>5, <2>3, <3>2
  <2>4. CASE c + i = n
    <3>1. n * rs + cs = n * (r + k + 1) + 0 /\ r + k + 1 \in Int /\ 0 \in 0 .. n - 1
      BY <1>1, <1>2, <1>4, <1>6, <2>1, <2>4
    <3>2. cs = 0
      BY <1>8, <3>1
    <3> QED BY <1>1, <1>2, <1>5, <2>4, <3>2
  <2> QED BY <1>1, <1>2, <2>2, <2>3, <2>4
<1> QED BY <1>1, <1>3, <1>4, <1>5, <1>7, <1>9 DEF n

LEMMA SquareGrows ==
  ASSUME NEW a \in Int, NEW b \in Nat
  PROVE  /\ a \in -b .. b => a * a <= b * b
         /\ a >= b \/ a <= -b => a * a >= b * b
<1>1. a \in 0 .. b => a * a <= b * b
  <2> SUFFICES ASSUME a \in 0 .. b PROVE a * a <= b * b
    OBVIOUS
  <2>1. a * a <= a * b /\ a * b <= b * b
    OBVIOUS
  <2> QED BY <2>1
<1>2. a \in -b .. 0 => a * a <= b * b
  <2> SUFFICES ASSUME a \in -b .. 0 PROVE a * a <= b * b
    OBVIOUS
  <2>1. (-a) * (-a) <= (-a) * b /\ (-a) * b <= b * b
    OBVIOUS
  <2>2. (-a) * (-a) = a * a
    OBVIOUS
  <2> QED BY <2>1, <2>2
<1>3. a >= b => a * a >= b * b
  <2> SUFFICES ASSUME a >= b PROVE a * a >= b * b
    OBVIOUS
  <2>1. a * a >= a * b /\ a * b >= b * b
    OBVIOUS
  <2> QED BY <2>1
<1>4. a <= -b => a * a >= b * b
  <2> SUFFICES ASSUME a <= -b PROVE a * a >= b * b
    OBVIOUS
  <2>1. (-a) * (-a) >= (-a) * b /\ (-a) * b >= b * b
    OBVIOUS
  <2>2. (-a) * (-a) = a * a
    OBVIOUS
  <2> QED BY <2>1, <2>2
<1> QED BY <1>1, <1>2, <1>3, <1>4

\* A sector three columns away is farther than any of the eight around the own
\* one: its middle is two and a half sectors away or more.
LEMMA FarColumn ==
  ASSUME NEW n \in Nat \ {0}, NEW u \in Int, NEW v \in Int, 2 * u \in -n .. n, 2 * v \in -n .. n,
         NEW i \in -1 .. 1, NEW k \in -1 .. 1, NEW j \in Int, NEW l \in Int, j >= 3 \/ j <= -3
  PROVE  Square(n * i + u) + Square(n * k + v) < Square(n * j + u) + Square(n * l + v)
<1> DEFINE a == n * i + u
           b == n * k + v
           c == n * j + u
           d == n * l + v
<1>1. a \in Int /\ b \in Int /\ c \in Int /\ d \in Int
  OBVIOUS
<1>2. 2 * a \in -(3 * n) .. 3 * n /\ 2 * b \in -(3 * n) .. 3 * n
  OBVIOUS
<1>3. 2 * c >= 5 * n \/ 2 * c <= -(5 * n)
  <2>1. CASE j >= 3
    <3>1. n * j >= n * 3
      BY <2>1
    <3> QED BY <3>1
  <2>2. CASE j <= -3
    <3>1. n * j <= n * (-3)
      BY <2>2
    <3> QED BY <3>1
  <2> QED BY <2>1, <2>2
<1> HIDE DEF a, b, c, d
<1>4. /\ (2 * a) * (2 * a) <= (3 * n) * (3 * n)
      /\ (2 * b) * (2 * b) <= (3 * n) * (3 * n)
      /\ (2 * c) * (2 * c) >= (5 * n) * (5 * n)
  <2>1. 2 * a \in Int /\ 2 * b \in Int /\ 2 * c \in Int /\ 3 * n \in Nat /\ 5 * n \in Nat
    BY <1>1
  <2> QED BY <1>2, <1>3, <2>1, SquareGrows
<1>5. d * d >= 0 /\ n * n > 0 /\ n * n \in Int /\ a * a \in Int /\ b * b \in Int /\ c * c \in Int /\ d * d \in Int
  BY <1>1
<1>6. /\ 4 * (a * a) <= 9 * (n * n) /\ 4 * (b * b) <= 9 * (n * n) /\ 4 * (c * c) >= 25 * (n * n)
  BY <1>1, <1>4
<1>7. a * a + b * b < c * c + d * d
  BY <1>5, <1>6
<1> QED BY <1>7 DEF Square, a, b, c, d

LEMMA SquareAt ==
  ASSUME NEW n \in Nat \ {0}, NEW u \in Int, NEW e \in -1 .. 1
  PROVE  Square(n * e + u) = n * (n * (e * e) + 2 * (e * u)) + u * u
<1>1. CASE e = -1
  BY <1>1 DEF Square
<1>2. CASE e = 0
  BY <1>2 DEF Square
<1>3. CASE e = 1
  BY <1>3 DEF Square
<1> QED BY <1>1, <1>2, <1>3

\* Comparing two of the nine sectors takes no squares.
LEMMA Nearer ==
  ASSUME NEW n \in Nat \ {0}, NEW u \in Int, NEW v \in Int,
         NEW i \in -1 .. 1, NEW k \in -1 .. 1, NEW j \in -1 .. 1, NEW l \in -1 .. 1,
         Square(n * j + u) + Square(n * l + v) <= Square(n * i + u) + Square(n * k + v)
  PROVE  n * (j * j) + n * (l * l) + 2 * (j * u) + 2 * (l * v)
           <= n * (i * i) + n * (k * k) + 2 * (i * u) + 2 * (k * v)
<1> DEFINE w(e, a) == n * (e * e) + 2 * (e * a)
<1>1. w(i, u) \in Int /\ w(j, u) \in Int /\ w(k, v) \in Int /\ w(l, v) \in Int
  OBVIOUS
<1>2. /\ Square(n * i + u) = n * w(i, u) + u * u /\ Square(n * j + u) = n * w(j, u) + u * u
      /\ Square(n * k + v) = n * w(k, v) + v * v /\ Square(n * l + v) = n * w(l, v) + v * v
  BY SquareAt
<1>3. w(j, u) + w(l, v) <= w(i, u) + w(k, v)
  <2> HIDE DEF w
  <2>1. u * u \in Int /\ v * v \in Int
    OBVIOUS
  <2>2. n * w(j, u) + n * w(l, v) <= n * w(i, u) + n * w(k, v)
    BY <1>1, <1>2, <2>1
  <2> QED
    <3> SUFFICES ASSUME w(j, u) + w(l, v) >= w(i, u) + w(k, v) + 1 PROVE FALSE
      BY <1>1
    <3>1. n * (w(j, u) + w(l, v)) >= n * (w(i, u) + w(k, v) + 1)
      BY <1>1
    <3> QED BY <1>1, <2>2, <3>1
<1>4. /\ j * u \in Int /\ l * v \in Int /\ i * u \in Int /\ k * v \in Int
      /\ n * (j * j) \in Int /\ n * (l * l) \in Int /\ n * (i * i) \in Int /\ n * (k * k) \in Int
  OBVIOUS
<1> QED BY <1>3, <1>4

\* The player is off the middle, towards the sector at <<i, k>>, and far enough off
\* if that sector is at a corner.
Towards(n, u, v, i, k) ==
  /\ i # 0 => i * u < 0
  /\ k # 0 => k * v < 0
  /\ i # 0 /\ k # 0 => 4 * (i * u) + 2 * (k * v) < -n /\ 2 * (i * u) + 4 * (k * v) < -n

\* Another of the eight, at <<j, l>>, is no farther than the one at <<i, k>>.
AsNear(n, u, v, i, k, j, l) ==
  /\ j # 0 \/ l # 0
  /\ j # i \/ l # k
  /\ Square(n * j + u) + Square(n * l + v) <= Square(n * i + u) + Square(n * k + v)

AtMostTwoAsNear(n, u, v, i, k) ==
  \E j1, l1, j2, l2 \in -1 .. 1 :
    \A j, l \in -1 .. 1 :
      AsNear(n, u, v, i, k, j, l) => (j = j1 /\ l = l1) \/ (j = j2 /\ l = l2)

LEMMA TwoNearer ==
  ASSUME NEW n \in Nat \ {0}, NEW u \in Int, NEW v \in Int, 2 * u \in -n .. n, 2 * v \in -n .. n,
         NEW i \in -1 .. 1, NEW k \in -1 .. 1, i # 0 \/ k # 0, Towards(n, u, v, i, k)
  PROVE  AtMostTwoAsNear(n, u, v, i, k)
<1> DEFINE Side(a) == IF a > 0 THEN -1 ELSE 1
<1>1. /\ i # 0 => i * u < 0
      /\ k # 0 => k * v < 0
      /\ i # 0 /\ k # 0 => 4 * (i * u) + 2 * (k * v) < -n /\ 2 * (i * u) + 4 * (k * v) < -n
  BY DEF Towards
<1>2. ASSUME NEW j \in -1 .. 1, NEW l \in -1 .. 1, AsNear(n, u, v, i, k, j, l)
      PROVE  /\ j # 0 \/ l # 0
             /\ j # i \/ l # k
             /\ n * (j * j) + n * (l * l) + 2 * (j * u) + 2 * (l * v)
                  <= n * (i * i) + n * (k * k) + 2 * (i * u) + 2 * (k * v)
  BY <1>2, Nearer DEF AsNear
<1>3. CASE k = 0
  <2>1. ASSUME NEW j \in -1 .. 1, NEW l \in -1 .. 1, AsNear(n, u, v, i, k, j, l)
        PROVE  l = Side(v) /\ (j = 0 \/ j = i)
    <3>1. (i = 1 /\ u < 0) \/ (i = -1 /\ u > 0)
      BY <1>1, <1>3
    <3> QED BY <1>2, <1>3, <2>1, <3>1
  <2> QED BY <2>1 DEF AtMostTwoAsNear
<1>4. CASE i = 0
  <2>1. ASSUME NEW j \in -1 .. 1, NEW l \in -1 .. 1, AsNear(n, u, v, i, k, j, l)
        PROVE  j = Side(u) /\ (l = 0 \/ l = k)
    <3>1. (k = 1 /\ v < 0) \/ (k = -1 /\ v > 0)
      BY <1>1, <1>4
    <3> QED BY <1>2, <1>4, <2>1, <3>1
  <2> QED BY <2>1 DEF AtMostTwoAsNear
<1>5. CASE i # 0 /\ k # 0
  <2>1. ASSUME NEW j \in -1 .. 1, NEW l \in -1 .. 1, AsNear(n, u, v, i, k, j, l)
        PROVE  (j = i /\ l = 0) \/ (j = 0 /\ l = k)
    <3>1. (i = 1 /\ u < 0) \/ (i = -1 /\ u > 0)
      BY <1>1, <1>5
    <3>2. (k = 1 /\ v < 0) \/ (k = -1 /\ v > 0)
      BY <1>1, <1>5
    <3> QED BY <1>1, <1>2, <1>5, <2>1, <3>1, <3>2
  <2> QED BY <2>1 DEF AtMostTwoAsNear
<1> QED BY <1>3, <1>4, <1>5

\* The square root of five costs more than the rounding gains once a sector is
\* twenty tiles wide: the server's have fifteen.
LEMMA CornerInReach ==
  ASSUME NEW r \in Nat, NEW n \in {2 * r + 1, 2 * r + 2}, n <= 19,
         NEW a \in Int, NEW b \in Int, a * a + b * b <= r * r
  PROVE  4 * a + 2 * b < 6 * r + 6 - n
<1> DEFINE m == 2 * a + b
<1>1. m * m <= 5 * (r * r)
  <2>1. m * m + (a - 2 * b) * (a - 2 * b) = 5 * (a * a + b * b)
    OBVIOUS
  <2>2. (a - 2 * b) * (a - 2 * b) >= 0 /\ m * m \in Int /\ r * r \in Int
    OBVIOUS
  <2> QED BY <2>1, <2>2
<1> SUFFICES ASSUME 2 * m >= 6 * r + 6 - n PROVE FALSE
  OBVIOUS
<1>2. m \in Int
  OBVIOUS
<1> HIDE DEF m
<1>3. CASE r <= 8
  <2>1. m >= 2 * r + 2
    BY <1>2
  <2>2. m * m >= (2 * r + 2) * (2 * r + 2)
    BY <1>2, <2>1, SquareGrows
  <2>3. (2 * r + 2) * (2 * r + 2) = 4 * (r * r) + 8 * r + 4 /\ r * r <= 8 * r
    BY <1>3
  <2> QED BY <1>1, <1>2, <2>2, <2>3
<1>4. CASE r > 8
  <2>1. r = 9 /\ n = 19
    BY <1>4
  <2>2. m >= 21
    BY <1>2, <2>1
  <2>3. m * m >= 441
    BY <1>2, <2>2, SquareGrows
  <2>4. r * r = 81 /\ m * m \in Int
    BY <1>2, <2>1
  <2> QED BY <1>1, <2>3, <2>4
<1> QED BY <1>3, <1>4

-----------------------------------------------------------------------------
(* Which sectors are around, and how many are chosen.                      *)

LEMMA SectorAt ==
  ASSUME NEW c \in 0 .. nSectorX - 1, NEW r \in 0 .. nSectorY - 1
  PROVE  /\ c + nSectorX * r \in Sectors
         /\ (c + nSectorX * r) % nSectorX = c /\ (c + nSectorX * r) \div nSectorX = r
<1> DEFINE n == nSectorX
           h == nSectorY
           s == c + n * r
<1>1. n \in Nat \ {0} /\ h \in Nat \ {0} /\ c \in 0 .. n - 1 /\ r \in 0 .. h - 1
  BY Sizes
<1> HIDE DEF n, h
<1>2. n * r \in Nat /\ n * r <= n * (h - 1) /\ n * (h - 1) = n * h - n /\ n * h \in Int
  BY <1>1
<1>3. s \in Nat /\ s <= n * h - 1
  BY <1>1, <1>2
<1>4. s \div n \in Nat /\ s % n \in 0 .. n - 1 /\ s = n * (s \div n) + (s % n)
  BY <1>1, <1>3, Quotient
<1>5. s = n * r + c /\ r \in Int
  BY <1>1, <1>2
<1> DEFINE q == s \div n
           e == s % n
<1>6. q \in Int /\ e \in 0 .. n - 1 /\ n * q + e = n * r + c
  BY <1>4, <1>5
<1> HIDE DEF s, q, e
<1>7. q = r /\ e = c
  BY ONLY <1>1, <1>5, <1>6, DivisionUnique
<1>8. s \in 0 .. n * h - 1
  BY <1>2, <1>3
<1> QED BY <1>7, <1>8 DEF n, h, s, q, e, Sectors

\* A place of the grid next to the own one is a neighbour.
LEMMA Around ==
  ASSUME TypeOK, NEW i \in -1 .. 1, NEW k \in -1 .. 1,
         NEW c, NEW r, c = (x \div SECTOR_SIZE) + i, r = (y \div SECTOR_SIZE) + k,
         c \in 0 .. nSectorX - 1, r \in 0 .. nSectorY - 1
  PROVE  /\ c + nSectorX * r \in adjacentSector(Own) \cup {Own}
         /\ Right(c + nSectorX * r) = i /\ Down(c + nSectorX * r) = k
<1> DEFINE n == nSectorX
           c0 == x \div SECTOR_SIZE
           r0 == y \div SECTOR_SIZE
<1>1. n \in Nat \ {0} /\ c0 \in 0 .. n - 1 /\ r0 \in 0 .. nSectorY - 1 /\ Own = c0 + n * r0
  BY Place, Sizes
<1>2. c = c0 + i /\ r = r0 + k
  OBVIOUS
<1>3. /\ c + n * r \in Sectors
      /\ (c + n * r) % n = c /\ (c + n * r) \div n = r
  BY SectorAt
<1>4. Right(c + n * r) = c - c0 /\ Down(c + n * r) = r - r0
  BY <1>3 DEF Right, Down
<1>5. nSectorY \in Nat
  BY Sizes
<1> HIDE DEF n, c0, r0
<1>6. n * (r0 + k) = n * r0 + n * k /\ n * r0 \in Int /\ n * k \in Int
  BY <1>1, <1>5
<1>7. c + n * r = Own + i + n * k
  BY <1>1, <1>2, <1>6
<1>8. c - c0 = i /\ r - r0 = k
  BY <1>1, <1>2, <1>5
<1> QED BY <1>3, <1>4, <1>7, <1>8 DEF adjacentSector, n

\* A search starts from the own sector: no columns and no rows away.
LEMMA OwnAt == ASSUME TypeOK PROVE Right(Own) = 0 /\ Down(Own) = 0
<1>1. /\ x \div SECTOR_SIZE \in 0 .. nSectorX - 1 /\ y \div SECTOR_SIZE \in 0 .. nSectorY - 1
      /\ Own = (x \div SECTOR_SIZE) + nSectorX * (y \div SECTOR_SIZE)
  BY Place
<1>2. Own % nSectorX = x \div SECTOR_SIZE /\ Own \div nSectorX = y \div SECTOR_SIZE
  BY <1>1, SectorAt
<1> DEFINE c == x \div SECTOR_SIZE
           r == y \div SECTOR_SIZE
<1>3. c \in Int /\ r \in Int /\ Right(Own) = c - c /\ Down(Own) = r - r
  BY <1>1, <1>2 DEF Right, Down
<1> HIDE DEF c, r
<1> QED BY <1>3

\* The tiles within a sector's width are in the own sector or in a neighbour.
LEMMA TileSector ==
  ASSUME TypeOK, NEW a \in 0 .. W_WIDTH - 1, NEW b \in 0 .. W_HEIGHT - 1,
         a - x \in -SECTOR_SIZE .. SECTOR_SIZE, b - y \in -SECTOR_SIZE .. SECTOR_SIZE
  PROVE  /\ GetSectorIndex(a, b) \in adjacentSector(Own) \cup {Own}
         /\ Right(GetSectorIndex(a, b)) = (a \div SECTOR_SIZE) - (x \div SECTOR_SIZE)
         /\ Down(GetSectorIndex(a, b)) = (b \div SECTOR_SIZE) - (y \div SECTOR_SIZE)
         /\ Right(GetSectorIndex(a, b)) \in -1 .. 1 /\ Down(GetSectorIndex(a, b)) \in -1 .. 1
<1> DEFINE n == SECTOR_SIZE
           c == a \div n
           r == b \div n
           c0 == x \div n
           r0 == y \div n
<1>1. n \in Nat \ {0} /\ a \in Nat /\ b \in Nat /\ x \in Nat /\ y \in Nat
  BY Sizes, Place
<1>2. c \in 0 .. nSectorX - 1 /\ r \in 0 .. nSectorY - 1
  BY StripCovered, GridAssumption DEF nSectorX, nSectorY
<1>3. c \in Nat /\ r \in Nat /\ c0 \in Nat /\ r0 \in Nat
  BY <1>1, Quotient
<1>4. c <= c0 + 1 /\ c0 <= c + 1 /\ r <= r0 + 1 /\ r0 <= r + 1
  <2>1. a <= x + n /\ x <= a + n /\ b <= y + n /\ y <= b + n
    BY <1>1
  <2> HIDE DEF n
  <2> QED BY <1>1, <2>1, QuotientMonotone
<1> HIDE DEF c, r, c0, r0
<1>5. c - c0 \in -1 .. 1 /\ r - r0 \in -1 .. 1 /\ c = c0 + (c - c0) /\ r = r0 + (r - r0)
  BY <1>3, <1>4
<1>6. /\ c + nSectorX * r \in adjacentSector(Own) \cup {Own}
      /\ Right(c + nSectorX * r) = c - c0 /\ Down(c + nSectorX * r) = r - r0
  <2>1. c = (x \div SECTOR_SIZE) + (c - c0) /\ r = (y \div SECTOR_SIZE) + (r - r0)
    BY <1>5 DEF c0, r0
  <2> QED BY <1>2, <1>5, <2>1, Around
<1>7. GetSectorIndex(a, b) = c + nSectorX * r
  BY DEF GetSectorIndex, c, r
<1> QED BY <1>5, <1>6, <1>7 DEF c, r, c0, r0

LEMMA ThreeAround ==
  ASSUME TypeOK, nSectorX >= 2, nSectorY >= 2
  PROVE  \E s1, s2, s3 \in adjacentSector(Own) :
           /\ s1 # s2 /\ s1 # s3 /\ s2 # s3
           /\ \A s \in {s1, s2, s3} : Right(s) \in -1 .. 1 /\ Down(s) \in -1 .. 1
<1> DEFINE c == x \div SECTOR_SIZE
           r == y \div SECTOR_SIZE
           i == IF c = 0 THEN 1 ELSE -1
           k == IF r = 0 THEN 1 ELSE -1
           at(a, b) == a + nSectorX * b
<1>1. c \in 0 .. nSectorX - 1 /\ r \in 0 .. nSectorY - 1 /\ nSectorX \in Nat /\ nSectorY \in Nat
  BY Place, Sizes
<1>2. Right(Own) = 0 /\ Down(Own) = 0
  BY OwnAt
<1> HIDE DEF c, r
<1>3. /\ c + i \in 0 .. nSectorX - 1 /\ r + k \in 0 .. nSectorY - 1
      /\ c + 0 \in 0 .. nSectorX - 1 /\ r + 0 \in 0 .. nSectorY - 1
      /\ i \in -1 .. 1 /\ i # 0 /\ k \in -1 .. 1 /\ k # 0
  BY <1>1
<1> HIDE DEF i, k
<1>4. /\ at(c + i, r + 0) \in adjacentSector(Own) \cup {Own}
      /\ Right(at(c + i, r + 0)) = i /\ Down(at(c + i, r + 0)) = 0
  BY <1>3, Around DEF c, r
<1>5. /\ at(c + 0, r + k) \in adjacentSector(Own) \cup {Own}
      /\ Right(at(c + 0, r + k)) = 0 /\ Down(at(c + 0, r + k)) = k
  BY <1>3, Around DEF c, r
<1>6. /\ at(c + i, r + k) \in adjacentSector(Own) \cup {Own}
      /\ Right(at(c + i, r + k)) = i /\ Down(at(c + i, r + k)) = k
  BY <1>3, Around DEF c, r
<1> HIDE DEF at
<1>7. /\ at(c + i, r + 0) \in adjacentSector(Own) /\ at(c + 0, r + k) \in adjacentSector(Own)
      /\ at(c + i, r + k) \in adjacentSector(Own)
  <2>1. at(c + i, r + 0) # Own /\ at(c + 0, r + k) # Own /\ at(c + i, r + k) # Own
    BY <1>2, <1>3, <1>4, <1>5, <1>6
  <2> QED BY <1>4, <1>5, <1>6, <2>1
<1>8. /\ at(c + i, r + 0) # at(c + 0, r + k) /\ at(c + i, r + 0) # at(c + i, r + k)
      /\ at(c + 0, r + k) # at(c + i, r + k)
  BY <1>3, <1>4, <1>5, <1>6
<1>9. \A s \in {at(c + i, r + 0), at(c + 0, r + k), at(c + i, r + k)} :
        Right(s) \in -1 .. 1 /\ Down(s) \in -1 .. 1
  BY <1>3, <1>4, <1>5, <1>6
<1> QED BY <1>7, <1>8, <1>9

LEMMA SectorsFinite == IsFiniteSet(Sectors)
<1>1. nSectorX * nSectorY - 1 \in Int
  BY Sizes
<1> QED BY <1>1, FS_Interval DEF Sectors

\* Three sectors do not fit into two, and leave no room for a fourth.
LEMMA NotThree ==
  ASSUME NEW chosen, IsFiniteSet(chosen)
  PROVE  /\ \A a, b : chosen \subseteq {a, b} => Cardinality(chosen) # 3
         /\ \A a, b, c, d \in chosen :
              a # b /\ a # c /\ a # d /\ b # c /\ b # d /\ c # d => Cardinality(chosen) # 3
<1>1. ASSUME NEW a, NEW b, chosen \subseteq {a, b} PROVE Cardinality(chosen) # 3
  <2>1. IsFiniteSet({a}) /\ Cardinality({a}) = 1
    BY FS_Singleton
  <2>2. IsFiniteSet({a} \cup {b}) /\ Cardinality({a} \cup {b}) \in {1, 2}
    BY <2>1, FS_AddElement
  <2>3. chosen \subseteq {a} \cup {b}
    BY <1>1
  <2>4. Cardinality(chosen) <= Cardinality({a} \cup {b})
    BY <2>2, <2>3, FS_Subset
  <2> QED BY <2>2, <2>4
<1>2. ASSUME NEW a \in chosen, NEW b \in chosen, NEW c \in chosen, NEW d \in chosen,
             a # b, a # c, a # d, b # c, b # d, c # d
      PROVE  Cardinality(chosen) # 3
  <2> DEFINE one == {a}
             two == one \cup {b}
             three == two \cup {c}
             four == three \cup {d}
  <2>1. IsFiniteSet(one) /\ Cardinality(one) = 1
    BY FS_Singleton
  <2>2. IsFiniteSet(two) /\ Cardinality(two) = 1 + 1
    <3>1. b \notin one
      BY <1>2
    <3> QED BY <2>1, <3>1, FS_AddElement
  <2>3. IsFiniteSet(three) /\ Cardinality(three) = 1 + 1 + 1
    <3>1. c \notin two
      BY <1>2
    <3> QED BY <2>2, <3>1, FS_AddElement
  <2>4. IsFiniteSet(four) /\ Cardinality(four) = 1 + 1 + 1 + 1
    <3>1. d \notin three
      BY <1>2
    <3> QED BY <2>3, <3>1, FS_AddElement
  <2>5. four \subseteq chosen
    OBVIOUS
  <2> HIDE DEF four
  <2>6. Cardinality(four) <= Cardinality(chosen)
    BY <2>5, FS_Subset
  <2>7. Cardinality(chosen) \in Nat
    BY FS_CardinalityType
  <2> QED BY <2>4, <2>6, <2>7
<1> QED BY <1>1, <1>2

\* A choice leaves nothing out that is nearer than something it takes.
LEMMA Choice ==
  ASSUME TypeOK, NEW found \in Searches(x, y)
  PROVE  \E chosen : /\ found = chosen \cup {Own} /\ chosen \subseteq adjacentSector(Own)
                     /\ IsFiniteSet(chosen) /\ Cardinality(chosen) = 3
                     /\ \A s \in chosen, o \in adjacentSector(Own) \ chosen :
                          Distance(s, x, y) <= Distance(o, x, y)
<1>1. PICK chosen \in clipinglist(x, y, adjacentSector(Own)) : found = chosen \cup {Own}
  BY DEF Searches, Own
<1>2. chosen \subseteq adjacentSector(Own) /\ Cardinality(chosen) = 3
  BY <1>1 DEF clipinglist, kSubset
<1>3. adjacentSector(Own) \subseteq Sectors
  BY DEF adjacentSector
<1>4. IsFiniteSet(chosen)
  BY <1>2, <1>3, SectorsFinite, FS_Subset
<1> QED BY <1>1, <1>2, <1>4 DEF clipinglist

\* Around the border of the map nothing is nearer than a sector that touches the own.
LEMMA FarSector ==
  ASSUME TypeOK, CentresKnown, nSectorX >= 4, Tame(Own),
         NEW s \in adjacentSector(Own), NEW o \in adjacentSector(Own),
         ~(Right(s) \in -1 .. 1 /\ Down(s) \in -1 .. 1),
         Right(o) \in -1 .. 1 /\ Down(o) \in -1 .. 1
  PROVE  ~(Distance(s, x, y) <= Distance(o, x, y))
<1> DEFINE n == SECTOR_SIZE
           u == Off(x)
           v == Off(y)
           Squares(i, k) == Square(n * i + u) + Square(n * k + v)
<1>1. /\ n \in Nat \ {0} /\ u \in Int /\ v \in Int
      /\ 2 * u \in -n .. n /\ 2 * v \in -n .. n
  <2>1. x \in Nat /\ y \in Nat /\ 0 \in Nat
    BY Place
  <2> QED BY <2>1, Sizes, MiddleFrom
<1>2. s \in Sectors /\ o \in Sectors /\ IsSet(s) /\ IsSet(o)
  BY DEF adjacentSector, Tame
<1>3. Distance(s, x, y) = Squares(Right(s), Down(s)) /\ Distance(o, x, y) = Squares(Right(o), Down(o))
  BY <1>2, SquaredDistance
<1>4. Right(s) \in Int /\ Down(s) \in Int /\ (Right(s) >= 3 \/ Right(s) <= -3)
  BY Neighbours
<1> HIDE DEF n, u, v
<1>5. Squares(Right(o), Down(o)) < Squares(Right(s), Down(s))
  BY <1>1, <1>4, FarColumn
<1>6. \A i, k \in Int : Squares(i, k) \in Int
  BY <1>1 DEF Square
<1> HIDE DEF Squares
<1>7. Right(o) \in Int /\ Down(o) \in Int
  OBVIOUS
<1> QED BY SMTT(30), <1>3, <1>4, <1>5, <1>6, <1>7

LEMMA ChosenAreLocal ==
  ASSUME TypeOK, CentresKnown, nSectorX >= 4, nSectorY >= 2
  PROVE  SearchIsLocal
<1> SUFFICES ASSUME Tame(Own), NEW found \in Searches(x, y), NEW s \in found
             PROVE  Right(s) \in -1 .. 1 /\ Down(s) \in -1 .. 1
  BY DEF SearchIsLocal, Own, Right, Down
<1>1. PICK chosen : /\ found = chosen \cup {Own} /\ chosen \subseteq adjacentSector(Own)
                    /\ IsFiniteSet(chosen) /\ Cardinality(chosen) = 3
                    /\ \A e \in chosen, o \in adjacentSector(Own) \ chosen :
                         Distance(e, x, y) <= Distance(o, x, y)
  BY Choice
<1>2. CASE s = Own
  BY <1>2, OwnAt
<1>3. CASE s # Own
  <2> SUFFICES ASSUME ~(Right(s) \in -1 .. 1 /\ Down(s) \in -1 .. 1) PROVE FALSE
    OBVIOUS
  <2>1. s \in chosen
    BY <1>1, <1>3
  <2>2. PICK s1 \in adjacentSector(Own), s2 \in adjacentSector(Own), s3 \in adjacentSector(Own) :
          /\ s1 # s2 /\ s1 # s3 /\ s2 # s3
          /\ \A o \in {s1, s2, s3} : Right(o) \in -1 .. 1 /\ Down(o) \in -1 .. 1
    <3>1. nSectorX >= 2
      BY Sizes
    <3> QED BY <3>1, ThreeAround
  <2>3. {s1, s2, s3} \subseteq chosen
    <3> SUFFICES ASSUME NEW o \in {s1, s2, s3}, o \notin chosen PROVE FALSE
      OBVIOUS
    <3>1. Distance(s, x, y) <= Distance(o, x, y)
      BY <1>1, <2>1, <2>2
    <3>2. o \in adjacentSector(Own) /\ Right(o) \in -1 .. 1 /\ Down(o) \in -1 .. 1
      BY <2>2
    <3>3. s \in adjacentSector(Own)
      BY <1>1, <2>1
    <3> QED BY <3>1, <3>2, <3>3, FarSector
  <2>4. s # s1 /\ s # s2 /\ s # s3
    BY <2>2
  <2> QED BY <1>1, <2>1, <2>2, <2>3, <2>4, NotThree
<1> QED BY <1>2, <1>3

\* On a map of at least four by two sectors the index arithmetic that wraps round
\* at the borders never makes clipinglist choose a sector that does not touch the
\* own one, whatever the order of equally near ones: unless the missing centres of
\* the first row are involved.
THEOREM SearchLocal == nSectorX >= 4 /\ nSectorY >= 2 => (Spec => []SearchIsLocal)
<1> SUFFICES ASSUME nSectorX >= 4, nSectorY >= 2 PROVE Spec => []SearchIsLocal
  OBVIOUS
<1>1. TypeOK /\ CentresKnown => SearchIsLocal
  BY ChosenAreLocal
<1> QED BY <1>1, TypeCorrect, CentresStay, PTL

-----------------------------------------------------------------------------
(* Who is sure to be found.                                                *)

\* Nobody in sight is missed by a search of all neighbours, unless one can see
\* farther than a sector is wide.
THEOREM ViewCovered == VIEW_RANGE <= SECTOR_SIZE => (Spec => []NeighboursCoverView)
<1> SUFFICES ASSUME VIEW_RANGE <= SECTOR_SIZE PROVE Spec => []NeighboursCoverView
  OBVIOUS
<1>1. ASSUME TypeOK PROVE NeighboursCoverView
  <2> SUFFICES ASSUME NEW t \in Window(VIEW_RANGE), can_see(x, y, t[1], t[2])
               PROVE  GetSectorIndex(t[1], t[2]) \in adjacentSector(Own) \cup {Own}
    BY DEF NeighboursCoverView, Own
  <2>1. /\ x \in Nat /\ y \in Nat /\ t[1] \in 0 .. W_WIDTH - 1 /\ t[2] \in 0 .. W_HEIGHT - 1
        /\ W_WIDTH \in Nat /\ W_HEIGHT \in Nat /\ SECTOR_SIZE \in Nat \ {0} /\ VIEW_RANGE \in Nat
    BY <1>1, Place, GridAssumption DEF Window
  <2>2. Square(x - t[1]) + Square(y - t[2]) <= Square(VIEW_RANGE)
    BY DEF can_see
  <2>3. x - t[1] \in -VIEW_RANGE .. VIEW_RANGE /\ y - t[2] \in -VIEW_RANGE .. VIEW_RANGE
    <3>1. x - t[1] \in Int /\ y - t[2] \in Int
      BY <2>1
    <3>2. Square(x - t[1]) \in Int /\ Square(y - t[2]) \in Int
      BY <3>1 DEF Square
    <3>3. Square(y - t[2]) + Square(x - t[1]) <= Square(VIEW_RANGE)
      BY <2>2, <3>2
    <3> QED BY <2>1, <2>2, <3>1, <3>3, Near
  <2>4. t[1] - x \in -SECTOR_SIZE .. SECTOR_SIZE /\ t[2] - y \in -SECTOR_SIZE .. SECTOR_SIZE
    BY <2>1, <2>3
  <2> QED BY <1>1, <2>1, <2>4, TileSector
<1> QED BY <1>1, TypeCorrect, PTL

LEMMA SureIs == Sure \in Nat /\ SECTOR_SIZE \in {2 * Sure + 1, 2 * Sure + 2}
               /\ SECTOR_SIZE - SECTOR_SIZE \div 2 = Sure + 1
BY Sizes DEF Sure

\* Who steps over the border of a strip and stays within Sure is off the middle of
\* the strip, on that side, by what is left of Sure and one.
LEMMA Crossing ==
  ASSUME NEW a \in Nat, NEW b \in Nat, NEW i \in -1 .. 1,
         i = (b \div SECTOR_SIZE) - (a \div SECTOR_SIZE), i # 0
  PROVE  i * Off(a) <= i * (b - a) - (Sure + 1)
<1> DEFINE n == SECTOR_SIZE
           h == SECTOR_SIZE \div 2
           c == a \div n
           d == b \div n
           p == a % n
           q == b % n
<1>1. /\ n \in Nat \ {0} /\ c \in Nat /\ d \in Nat /\ p \in 0 .. n - 1 /\ q \in 0 .. n - 1
      /\ a = n * c + p /\ b = n * d + q
  BY Sizes, Quotient
<1>2. Off(a) = h - p /\ i = d - c
  BY DEF Off
<1>3. Sure \in Nat /\ n \in {2 * Sure + 1, 2 * Sure + 2} /\ n - h = Sure + 1 /\ h \in Int
  BY SureIs, Sizes
<1> HIDE DEF n, h, c, d, p, q
<1>4. CASE i = 1
  <2>1. d = c + 1 /\ n * (c + 1) = n * c + n /\ n * c \in Int
    BY <1>1, <1>2, <1>4
  <2>2. b - a = n + q - p
    BY <1>1, <2>1
  <2> QED BY <1>1, <1>2, <1>3, <1>4, <2>2
<1>5. CASE i = -1
  <2>1. d = c - 1 /\ n * (c - 1) = n * c - n /\ n * c \in Int
    BY <1>1, <1>2, <1>5
  <2>2. b - a = q - n - p
    BY <1>1, <2>1
  <2> QED BY <1>1, <1>2, <1>3, <1>5, <2>2
<1> QED BY <1>4, <1>5

\* The sector of somebody within Sure: at most two of the eight are as near.
LEMMA TargetIsNear ==
  ASSUME TypeOK, SECTOR_SIZE <= 19, NEW t \in Window(Sure),
         Square(t[1] - x) + Square(t[2] - y) <= Square(Sure)
  PROVE  LET T == GetSectorIndex(t[1], t[2]) IN
         /\ T \in adjacentSector(Own) \cup {Own}
         /\ Right(T) \in -1 .. 1 /\ Down(T) \in -1 .. 1
         /\ Towards(SECTOR_SIZE, Off(x), Off(y), Right(T), Down(T))
<1> DEFINE T == GetSectorIndex(t[1], t[2])
           i == Right(T)
           k == Down(T)
           m == t[1] - x
           l == t[2] - y
           n == SECTOR_SIZE
           u == Off(x)
           v == Off(y)
<1>1. /\ x \in Nat /\ y \in Nat /\ t[1] \in 0 .. W_WIDTH - 1 /\ t[2] \in 0 .. W_HEIGHT - 1
      /\ W_WIDTH \in Nat /\ W_HEIGHT \in Nat
  BY Place, GridAssumption DEF Window
<1>2. t[1] \in Nat /\ t[2] \in Nat /\ m \in Int /\ l \in Int
  BY <1>1
<1>3. Sure \in Nat /\ n \in Nat \ {0} /\ n \in {2 * Sure + 1, 2 * Sure + 2}
  BY SureIs, Sizes
<1>4. m \in -Sure .. Sure /\ l \in -Sure .. Sure
  <2>1. Square(m) + Square(l) <= Square(Sure) /\ Square(l) + Square(m) <= Square(Sure)
    <3>1. Square(m) \in Int /\ Square(l) \in Int
      BY <1>2 DEF Square
    <3> HIDE DEF m, l
    <3> QED BY <3>1 DEF m, l
  <2> QED BY <1>2, <1>3, <2>1, Near
<1>5. /\ T \in adjacentSector(Own) \cup {Own}
      /\ i = (t[1] \div n) - (x \div n) /\ k = (t[2] \div n) - (y \div n)
      /\ i \in -1 .. 1 /\ k \in -1 .. 1
  <2>1. m \in -n .. n /\ l \in -n .. n
    BY <1>3, <1>4
  <2> QED BY <1>1, <2>1, TileSector
<1>6. i # 0 => i * u <= i * m - (Sure + 1)
  BY <1>1, <1>2, <1>5, Crossing
<1>7. k # 0 => k * v <= k * l - (Sure + 1)
  BY <1>1, <1>2, <1>5, Crossing
<1>8. u \in Int /\ v \in Int
  <2>1. 0 \in Nat
    OBVIOUS
  <2> QED BY <1>1, <2>1, MiddleFrom
<1>9. m * m + l * l <= Sure * Sure
  BY DEF Square
<1>10. n <= 19
  OBVIOUS
<1> HIDE DEF T, i, k, m, l, n, u, v
<1>11. i # 0 => i * u < 0
  BY <1>3, <1>4, <1>5, <1>6, <1>8
<1>12. k # 0 => k * v < 0
  BY <1>3, <1>4, <1>5, <1>7, <1>8
<1>13. ASSUME i # 0, k # 0
       PROVE  4 * (i * u) + 2 * (k * v) < -n /\ 2 * (i * u) + 4 * (k * v) < -n
  <2> DEFINE a == i * m
             b == k * l
  <2>1. a \in Int /\ b \in Int /\ a * a = m * m /\ b * b = l * l
    BY <1>2, <1>5, <1>13
  <2>2. i * u <= a - (Sure + 1) /\ k * v <= b - (Sure + 1) /\ i * u \in Int /\ k * v \in Int
    BY <1>5, <1>6, <1>7, <1>8, <1>13
  <2> HIDE DEF a, b
  <2>3. a * a + b * b <= Sure * Sure /\ b * b + a * a <= Sure * Sure
    BY <1>2, <1>9, <2>1
  <2>4. 4 * a + 2 * b < 6 * Sure + 6 - n
    BY <1>3, <1>10, <2>1, <2>3, CornerInReach
  <2>5. 4 * b + 2 * a < 6 * Sure + 6 - n
    BY <1>3, <1>10, <2>1, <2>3, CornerInReach
  <2> QED BY <1>3, <2>1, <2>2, <2>4, <2>5
<1>14. Towards(n, u, v, i, k)
  BY <1>11, <1>12, <1>13 DEF Towards
<1> QED BY <1>5, <1>14 DEF T, i, k, n, u, v

LEMMA NearIsChosen ==
  ASSUME TypeOK, CentresKnown, nSectorX >= 4, SECTOR_SIZE <= 19
  PROVE  SearchCoversNear
<1> SUFFICES ASSUME Tame(Own), NEW found \in Searches(x, y), NEW t \in Window(Sure),
                    Square(t[1] - x) + Square(t[2] - y) <= Square(Sure),
                    GetSectorIndex(t[1], t[2]) \notin found
             PROVE  FALSE
  BY DEF SearchCoversNear, Own
<1> DEFINE T == GetSectorIndex(t[1], t[2])
           i == Right(T)
           k == Down(T)
           n == SECTOR_SIZE
           u == Off(x)
           v == Off(y)
           Squares(a, b) == Square(n * a + u) + Square(n * b + v)
<1>1. PICK chosen : /\ found = chosen \cup {Own} /\ chosen \subseteq adjacentSector(Own)
                    /\ IsFiniteSet(chosen) /\ Cardinality(chosen) = 3
                    /\ \A e \in chosen, o \in adjacentSector(Own) \ chosen :
                         Distance(e, x, y) <= Distance(o, x, y)
  BY Choice
<1>2. /\ T \in adjacentSector(Own) \cup {Own} /\ i \in -1 .. 1 /\ k \in -1 .. 1
      /\ Towards(n, u, v, i, k)
  BY TargetIsNear
<1>3. T \in adjacentSector(Own) /\ T \notin chosen
  BY <1>1, <1>2
<1>4. /\ n \in Nat \ {0} /\ u \in Int /\ v \in Int
      /\ 2 * u \in -n .. n /\ 2 * v \in -n .. n
  <2>1. x \in Nat /\ y \in Nat /\ 0 \in Nat
    BY Place
  <2> QED BY <2>1, Sizes, MiddleFrom
<1>5. \A s \in adjacentSector(Own) :
        Distance(s, x, y) = Squares(Right(s), Down(s))
  <2>1. \A s \in adjacentSector(Own) : s \in Sectors /\ IsSet(s)
    BY DEF adjacentSector, Tame
  <2> QED BY <2>1, SquaredDistance
<1> DEFINE at(a, b) == Own + a + nSectorX * b
<1>6. \A s \in adjacentSector(Own) : s = at(Right(s), Down(s)) /\ s # Own
  BY Neighbours
<1>7. Own = at(0, 0)
  <2>1. Own \in Int /\ nSectorX * 0 = 0
    BY Place, Sizes DEF Sectors
  <2> QED BY <2>1
<1>8. \A s \in adjacentSector(Own) :
        Distance(s, x, y) <= Distance(T, x, y) => Right(s) \in -1 .. 1 /\ Down(s) \in -1 .. 1
  BY <1>2, <1>3, FarSector
<1> HIDE DEF T, i, k, n, u, v, at, Squares
<1>9. i # 0 \/ k # 0
  BY <1>3, <1>6, <1>7 DEF i, k
<1>10. PICK j1 \in -1 .. 1, l1 \in -1 .. 1, j2 \in -1 .. 1, l2 \in -1 .. 1 :
         \A j, l \in -1 .. 1 :
           AsNear(n, u, v, i, k, j, l) => (j = j1 /\ l = l1) \/ (j = j2 /\ l = l2)
  <2>1. AtMostTwoAsNear(n, u, v, i, k)
    BY <1>2, <1>4, <1>9, TwoNearer
  <2> QED BY <2>1 DEF AtMostTwoAsNear
<1>11. chosen \subseteq {at(j1, l1), at(j2, l2)}
  <2> SUFFICES ASSUME NEW e \in chosen PROVE e \in {at(j1, l1), at(j2, l2)}
    OBVIOUS
  <2>1. e \in adjacentSector(Own) /\ e # T
    BY <1>1, <1>3
  <2>2. Distance(e, x, y) <= Distance(T, x, y)
    BY <1>1, <1>3
  <2>3. Right(e) \in -1 .. 1 /\ Down(e) \in -1 .. 1
    BY <1>8, <2>1, <2>2
  <2>4. Squares(Right(e), Down(e)) <= Squares(i, k)
    BY <1>3, <1>5, <2>1, <2>2 DEF i, k
  <2>5. e = at(Right(e), Down(e)) /\ T = at(i, k) /\ e # at(0, 0)
    BY <1>3, <1>6, <1>7, <2>1 DEF i, k
  <2>6. (Right(e) # 0 \/ Down(e) # 0) /\ (Right(e) # i \/ Down(e) # k)
    BY <2>1, <2>5
  <2>7. AsNear(n, u, v, i, k, Right(e), Down(e))
    BY <2>4, <2>6 DEF AsNear, Squares
  <2> QED BY <1>10, <2>3, <2>5, <2>7
<1> QED BY <1>1, <1>11, NotThree

\* With sectors up to nineteen tiles wide (the server's have fifteen) nobody closer
\* than half a sector is overlooked, wherever the two stand and however equally near
\* sectors are ordered.  It is not so for any size: with twenty the sector behind a
\* corner can be the fourth nearest.
THEOREM NearCovered ==
  nSectorX >= 4 /\ SECTOR_SIZE <= 19 => (Spec => []SearchCoversNear)
<1> SUFFICES ASSUME nSectorX >= 4, SECTOR_SIZE <= 19 PROVE Spec => []SearchCoversNear
  OBVIOUS
<1>1. TypeOK /\ CentresKnown => SearchCoversNear
  BY NearIsChosen
<1> QED BY <1>1, TypeCorrect, CentresStay, PTL
=============================================================================
