------------------------------ MODULE MCCombat ------------------------------
(***************************************************************************)
(* Both players attack n1; both NPCs are after p1.  A blow of n1 kills any *)
(* player and its death is worth two levels; n2 needs two blows.           *)
(***************************************************************************)
EXTENDS Combat, TLC

CONSTANTS p1, n1, n2

Levels == n1 :> 31 @@ n2 :> 7
Beginners == {1}
AllAttackN1 == Players \X {n1}
AllAfterP1 == Npcs \X {p1}
LowestHp == -20

SameThreads == Permutations(Threads)
=============================================================================
