---------------------------- MODULE CombatProofs ----------------------------
(***************************************************************************)
(* Proofs about Combat for any numbers of players, NPCs and threads, any   *)
(* levels and any reach.  Located says what a thread's position in the     *)
(* code implies for its local variables; NpcOwned and ExpOwned that a      *)
(* thread inside a critical section owns the lock.  They are what the      *)
(* invariants of Combat lack to be inductive.                              *)
(***************************************************************************)
EXTENDS Combat, TLAPS

Located ==
  \A t \in Threads :
    /\ pc[t] # "idle" => ply[t] \in Players
    /\ pc[t] \in {"hit", "judge", "credit", "check", "die", "penalty"} => npc[t] \in Npcs

Base == TypeOK /\ Located

NpcOwned == \A t \in Threads : pc[t] \in {"hit", "judge"} => npcLock[npc[t]] = t
ExpOwned == \A t \in Threads : pc[t] \in {"count", "counted"} => expLock[ply[t]] = t

\* A tenth more of nothing or something is not less than nothing.
LEMMA TenthSign ==
  ASSUME NEW h \in Int
  PROVE  Tenth(h) \in Int /\ (h >= 0 => Tenth(h) >= 0)
BY DEF Tenth

\* Everybody starts with the hit points of the level and no experience.
LEMMA InitialBody ==
  ASSUME Init
  PROVE  /\ level \in [Players -> Nat \ {0}]
         /\ \A p \in Players : /\ hp[p] = level[p] * 100 /\ maxHp[p] = level[p] * 100
                               /\ level[p] * 100 \in Nat /\ exp[p] = 0
<1>1. level \in [Players -> Nat \ {0}]
  BY CombatAssumption DEF Init
<1>2. \A p \in Players : maxHp[p] = level[p] * 100 /\ exp[p] = 0
  BY DEF Init
<1>3. \A p \in Players : level[p] * 100 \in Nat
  BY <1>1
<1>. QED
  BY <1>1, <1>2, <1>3 DEF Init
-----------------------------------------------------------------------------
\* Types, and what the position in the code says about the locals.
LEMMA BaseInvariant == Spec => []Base
<1>1. Init => Base
  <2>. SUFFICES ASSUME Init
               PROVE  Base
    OBVIOUS
  <2>1. hp \in [Players -> Int] /\ maxHp \in [Players -> Nat]
    BY InitialBody DEF Init
  <2>2. npcHp \in [Npcs -> Int]
    BY CombatAssumption DEF Init
  <2>. QED
    BY <2>1, <2>2, InitialBody, CombatAssumption DEF Init, Base, TypeOK, Located
<1>2. Base /\ [Next]_vars => Base'
  <2>. SUFFICES ASSUME Base, [Next]_vars
               PROVE  Base'
    OBVIOUS
  <2>. USE CombatAssumption DEF Base, TypeOK, Located, Goto, body, locals
  <2>1. ASSUME NEW t \in Threads, NEW p \in Players, Attack(t, p)
        PROVE  Base'
    <3>1. PICK struck \in SUBSET Npcs : todo' = [todo EXCEPT ![t] = struck]
      BY <2>1 DEF Attack
    <3>. QED
      BY <2>1, <3>1 DEF Attack
  <2>2. ASSUME NEW t \in Threads, NEW n \in Npcs, NEW p \in Players, NpcStrikes(t, n, p)
        PROVE  Base'
    BY <2>2 DEF NpcStrikes, Strikes
  <2>3. ASSUME NEW t \in Threads, NEW n \in Npcs, LockNpc(t, n)
        PROVE  Base'
    BY <2>3 DEF LockNpc
  <2>4. ASSUME NEW t \in Threads, HitNpc(t)
        PROVE  Base'
    BY <2>4 DEF HitNpc
  <2>5. ASSUME NEW t \in Threads, NpcDies(t)
        PROVE  Base'
    BY <2>5 DEF NpcDies, Unlock
  <2>6. ASSUME NEW t \in Threads, NpcSurvives(t)
        PROVE  Base'
    BY <2>6 DEF NpcSurvives, Unlock
  <2>7. ASSUME NEW t \in Threads, Credit(t)
        PROVE  Base'
    BY <2>7 DEF Credit
  <2>8. ASSUME NEW t \in Threads, CountLevel(t)
        PROVE  Base'
    BY <2>8 DEF CountLevel
  <2>9. ASSUME NEW t \in Threads, CountDone(t)
        PROVE  Base'
    BY <2>9 DEF CountDone
  <2>10. ASSUME NEW t \in Threads, LevelUp(t)
        PROVE  Base'
    BY <2>10 DEF LevelUp
  <2>11. ASSUME NEW t \in Threads, AttackDone(t)
        PROVE  Base'
    BY <2>11 DEF AttackDone, Finish
  <2>12. ASSUME NEW t \in Threads, Spared(t)
        PROVE  Base'
    BY <2>12 DEF Spared, Finish
  <2>13. ASSUME NEW t \in Threads, Falls(t)
        PROVE  Base'
    BY <2>13 DEF Falls
  <2>14. ASSUME NEW t \in Threads, Revive(t)
        PROVE  Base'
    BY <2>14 DEF Revive
  <2>15. ASSUME NEW t \in Threads, LoseExp(t)
        PROVE  Base'
    BY <2>15 DEF LoseExp, Finish
  <2>16. ASSUME NEW p \in Players, HpUp(p)
        PROVE  Base'
    BY <2>16, TenthSign DEF HpUp
  <2>17. CASE UNCHANGED vars
    BY <2>17 DEF vars
  <2>. QED
    BY <2>1, <2>2, <2>3, <2>4, <2>5, <2>6, <2>7, <2>8, <2>9, <2>10, <2>11, <2>12, <2>13, <2>14, <2>15, <2>16, <2>17 DEF Next, Step
<1>. QED
  BY <1>1, <1>2, PTL DEF Spec

\* Every variable of Combat keeps its type.
THEOREM TypeCorrect == Spec => []TypeOK
BY BaseInvariant, PTL DEF Base
-----------------------------------------------------------------------------
\* A thread inside a critical section of an NPC's m_hp_lock or a player's
\* m_exp_lock owns it, so no other thread is inside.
LEMMA LocksOwned == Spec => [](NpcOwned /\ ExpOwned)
<1>1. Init => NpcOwned /\ ExpOwned
  BY DEF Init, NpcOwned, ExpOwned
<1>2. Base /\ (NpcOwned /\ ExpOwned) /\ [Next]_vars => (NpcOwned /\ ExpOwned)'
  <2>. SUFFICES ASSUME Base, NpcOwned, ExpOwned, [Next]_vars
               PROVE  (NpcOwned /\ ExpOwned)'
    OBVIOUS
  <2>. USE CombatAssumption DEF Base, TypeOK, Located, NpcOwned, ExpOwned, Goto, body, locals
  <2>1. ASSUME NEW t \in Threads, NEW p \in Players, Attack(t, p)
        PROVE  (NpcOwned /\ ExpOwned)'
    BY <2>1 DEF Attack
  <2>2. ASSUME NEW t \in Threads, NEW n \in Npcs, NEW p \in Players, NpcStrikes(t, n, p)
        PROVE  (NpcOwned /\ ExpOwned)'
    BY <2>2 DEF NpcStrikes, Strikes
  <2>3. ASSUME NEW t \in Threads, NEW n \in Npcs, LockNpc(t, n)
        PROVE  (NpcOwned /\ ExpOwned)'
    BY <2>3 DEF LockNpc
  <2>4. ASSUME NEW t \in Threads, HitNpc(t)
        PROVE  (NpcOwned /\ ExpOwned)'
    BY <2>4 DEF HitNpc
  <2>5. ASSUME NEW t \in Threads, NpcDies(t)
        PROVE  (NpcOwned /\ ExpOwned)'
    BY <2>5 DEF NpcDies, Unlock
  <2>6. ASSUME NEW t \in Threads, NpcSurvives(t)
        PROVE  (NpcOwned /\ ExpOwned)'
    BY <2>6 DEF NpcSurvives, Unlock
  <2>7. ASSUME NEW t \in Threads, Credit(t)
        PROVE  (NpcOwned /\ ExpOwned)'
    BY <2>7 DEF Credit
  <2>8. ASSUME NEW t \in Threads, CountLevel(t)
        PROVE  (NpcOwned /\ ExpOwned)'
    BY <2>8 DEF CountLevel
  <2>9. ASSUME NEW t \in Threads, CountDone(t)
        PROVE  (NpcOwned /\ ExpOwned)'
    BY <2>9 DEF CountDone
  <2>10. ASSUME NEW t \in Threads, LevelUp(t)
        PROVE  (NpcOwned /\ ExpOwned)'
    BY <2>10 DEF LevelUp
  <2>11. ASSUME NEW t \in Threads, AttackDone(t)
        PROVE  (NpcOwned /\ ExpOwned)'
    BY <2>11 DEF AttackDone, Finish
  <2>12. ASSUME NEW t \in Threads, Spared(t)
        PROVE  (NpcOwned /\ ExpOwned)'
    BY <2>12 DEF Spared, Finish
  <2>13. ASSUME NEW t \in Threads, Falls(t)
        PROVE  (NpcOwned /\ ExpOwned)'
    BY <2>13 DEF Falls
  <2>14. ASSUME NEW t \in Threads, Revive(t)
        PROVE  (NpcOwned /\ ExpOwned)'
    BY <2>14 DEF Revive
  <2>15. ASSUME NEW t \in Threads, LoseExp(t)
        PROVE  (NpcOwned /\ ExpOwned)'
    BY <2>15 DEF LoseExp, Finish
  <2>16. ASSUME NEW p \in Players, HpUp(p)
        PROVE  (NpcOwned /\ ExpOwned)'
    BY <2>16 DEF HpUp
  <2>17. CASE UNCHANGED vars
    BY <2>17 DEF vars
  <2>. QED
    BY <2>1, <2>2, <2>3, <2>4, <2>5, <2>6, <2>7, <2>8, <2>9, <2>10, <2>11, <2>12, <2>13, <2>14, <2>15, <2>16, <2>17 DEF Next, Step
<1>. QED
  BY <1>1, <1>2, BaseInvariant, PTL DEF Spec

\* The kill of CS_ATTACK is judged inside the lock: an NPC with less than zero
\* hit points is always held by the one thread that is about to earn it.
THEOREM KillIsClaimed == Spec => []DeadNpcIsClaimed
<1>1. Init => DeadNpcIsClaimed
  BY CombatAssumption DEF Init, DeadNpcIsClaimed
<1>2. Base /\ NpcOwned /\ DeadNpcIsClaimed /\ [Next]_vars => DeadNpcIsClaimed'
  <2>. SUFFICES ASSUME Base, NpcOwned, DeadNpcIsClaimed, [Next]_vars
               PROVE  DeadNpcIsClaimed'
    OBVIOUS
  <2>. USE CombatAssumption DEF Base, TypeOK, Located, NpcOwned, DeadNpcIsClaimed, Goto, body, locals
  <2>1. ASSUME NEW t \in Threads, NEW p \in Players, Attack(t, p)
        PROVE  DeadNpcIsClaimed'
    BY <2>1 DEF Attack
  <2>2. ASSUME NEW t \in Threads, NEW n \in Npcs, NEW p \in Players, NpcStrikes(t, n, p)
        PROVE  DeadNpcIsClaimed'
    BY <2>2 DEF NpcStrikes, Strikes
  <2>3. ASSUME NEW t \in Threads, NEW n \in Npcs, LockNpc(t, n)
        PROVE  DeadNpcIsClaimed'
    BY <2>3 DEF LockNpc
  <2>4. ASSUME NEW t \in Threads, HitNpc(t)
        PROVE  DeadNpcIsClaimed'
    BY <2>4 DEF HitNpc
  <2>5. ASSUME NEW t \in Threads, NpcDies(t)
        PROVE  DeadNpcIsClaimed'
    BY <2>5 DEF NpcDies, Unlock
  <2>6. ASSUME NEW t \in Threads, NpcSurvives(t)
        PROVE  DeadNpcIsClaimed'
    BY <2>6 DEF NpcSurvives, Unlock
  <2>7. ASSUME NEW t \in Threads, Credit(t)
        PROVE  DeadNpcIsClaimed'
    BY <2>7 DEF Credit
  <2>8. ASSUME NEW t \in Threads, CountLevel(t)
        PROVE  DeadNpcIsClaimed'
    BY <2>8 DEF CountLevel
  <2>9. ASSUME NEW t \in Threads, CountDone(t)
        PROVE  DeadNpcIsClaimed'
    BY <2>9 DEF CountDone
  <2>10. ASSUME NEW t \in Threads, LevelUp(t)
        PROVE  DeadNpcIsClaimed'
    BY <2>10 DEF LevelUp
  <2>11. ASSUME NEW t \in Threads, AttackDone(t)
        PROVE  DeadNpcIsClaimed'
    BY <2>11 DEF AttackDone, Finish
  <2>12. ASSUME NEW t \in Threads, Spared(t)
        PROVE  DeadNpcIsClaimed'
    BY <2>12 DEF Spared, Finish
  <2>13. ASSUME NEW t \in Threads, Falls(t)
        PROVE  DeadNpcIsClaimed'
    BY <2>13 DEF Falls
  <2>14. ASSUME NEW t \in Threads, Revive(t)
        PROVE  DeadNpcIsClaimed'
    BY <2>14 DEF Revive
  <2>15. ASSUME NEW t \in Threads, LoseExp(t)
        PROVE  DeadNpcIsClaimed'
    BY <2>15 DEF LoseExp, Finish
  <2>16. ASSUME NEW p \in Players, HpUp(p)
        PROVE  DeadNpcIsClaimed'
    BY <2>16 DEF HpUp
  <2>17. CASE UNCHANGED vars
    BY <2>17 DEF vars
  <2>. QED
    BY <2>1, <2>2, <2>3, <2>4, <2>5, <2>6, <2>7, <2>8, <2>9, <2>10, <2>11, <2>12, <2>13, <2>14, <2>15, <2>16, <2>17 DEF Next, Step
<1>. QED
  BY <1>1, <1>2, BaseInvariant, LocksOwned, PTL DEF Spec
-----------------------------------------------------------------------------
\* The judgement of do_npc_random_move outside the lock misses nobody: a player
\* below zero has a thread that has struck it and not yet revived it.
THEOREM FallIsNoticed == Spec => []FallenIsNoticed
<1>1. Init => FallenIsNoticed
  BY InitialBody DEF FallenIsNoticed
<1>2. Base /\ FallenIsNoticed /\ [Next]_vars => FallenIsNoticed'
  <2>. SUFFICES ASSUME Base, FallenIsNoticed, [Next]_vars
               PROVE  FallenIsNoticed'
    OBVIOUS
  <2>. USE CombatAssumption DEF Base, TypeOK, Located, FallenIsNoticed, Goto, body, locals
  <2>1. ASSUME NEW t \in Threads, NEW p \in Players, Attack(t, p)
        PROVE  FallenIsNoticed'
    BY <2>1 DEF Attack
  <2>2. ASSUME NEW t \in Threads, NEW n \in Npcs, NEW p \in Players, NpcStrikes(t, n, p)
        PROVE  FallenIsNoticed'
    BY <2>2 DEF NpcStrikes, Strikes
  <2>3. ASSUME NEW t \in Threads, NEW n \in Npcs, LockNpc(t, n)
        PROVE  FallenIsNoticed'
    BY <2>3 DEF LockNpc
  <2>4. ASSUME NEW t \in Threads, HitNpc(t)
        PROVE  FallenIsNoticed'
    BY <2>4 DEF HitNpc
  <2>5. ASSUME NEW t \in Threads, NpcDies(t)
        PROVE  FallenIsNoticed'
    BY <2>5 DEF NpcDies, Unlock
  <2>6. ASSUME NEW t \in Threads, NpcSurvives(t)
        PROVE  FallenIsNoticed'
    BY <2>6 DEF NpcSurvives, Unlock
  <2>7. ASSUME NEW t \in Threads, Credit(t)
        PROVE  FallenIsNoticed'
    BY <2>7 DEF Credit
  <2>8. ASSUME NEW t \in Threads, CountLevel(t)
        PROVE  FallenIsNoticed'
    BY <2>8 DEF CountLevel
  <2>9. ASSUME NEW t \in Threads, CountDone(t)
        PROVE  FallenIsNoticed'
    BY <2>9 DEF CountDone
  <2>10. ASSUME NEW t \in Threads, LevelUp(t)
        PROVE  FallenIsNoticed'
    BY <2>10 DEF LevelUp
  <2>11. ASSUME NEW t \in Threads, AttackDone(t)
        PROVE  FallenIsNoticed'
    BY <2>11 DEF AttackDone, Finish
  <2>12. ASSUME NEW t \in Threads, Spared(t)
        PROVE  FallenIsNoticed'
    BY <2>12 DEF Spared, Finish
  <2>13. ASSUME NEW t \in Threads, Falls(t)
        PROVE  FallenIsNoticed'
    BY <2>13 DEF Falls
  <2>14. ASSUME NEW t \in Threads, Revive(t)
        PROVE  FallenIsNoticed'
    BY <2>14 DEF Revive
  <2>15. ASSUME NEW t \in Threads, LoseExp(t)
        PROVE  FallenIsNoticed'
    BY <2>15 DEF LoseExp, Finish
  <2>16. ASSUME NEW p \in Players, HpUp(p)
        PROVE  FallenIsNoticed'
    BY <2>16, TenthSign DEF HpUp
  <2>17. CASE UNCHANGED vars
    BY <2>17 DEF vars
  <2>. QED
    BY <2>1, <2>2, <2>3, <2>4, <2>5, <2>6, <2>7, <2>8, <2>9, <2>10, <2>11, <2>12, <2>13, <2>14, <2>15, <2>16, <2>17 DEF Next, Step
<1>. QED
  BY <1>1, <1>2, BaseInvariant, PTL DEF Spec

\* m_max_hp follows the level and m_hp stays within it, outside a level-up.
THEOREM HpIsThatOfLevel == Spec => []HpFitsLevel
<1>1. Init => HpFitsLevel
  BY InitialBody DEF HpFitsLevel
<1>2. Base /\ HpFitsLevel /\ [Next]_vars => HpFitsLevel'
  <2>. SUFFICES ASSUME Base, HpFitsLevel, [Next]_vars
               PROVE  HpFitsLevel'
    OBVIOUS
  <2>. USE CombatAssumption DEF Base, TypeOK, Located, HpFitsLevel, LevelsUp, Goto, body, locals
  <2>1. ASSUME NEW t \in Threads, NEW p \in Players, Attack(t, p)
        PROVE  HpFitsLevel'
    BY <2>1 DEF Attack
  <2>2. ASSUME NEW t \in Threads, NEW n \in Npcs, NEW p \in Players, NpcStrikes(t, n, p)
        PROVE  HpFitsLevel'
    BY <2>2 DEF NpcStrikes, Strikes
  <2>3. ASSUME NEW t \in Threads, NEW n \in Npcs, LockNpc(t, n)
        PROVE  HpFitsLevel'
    BY <2>3 DEF LockNpc
  <2>4. ASSUME NEW t \in Threads, HitNpc(t)
        PROVE  HpFitsLevel'
    BY <2>4 DEF HitNpc
  <2>5. ASSUME NEW t \in Threads, NpcDies(t)
        PROVE  HpFitsLevel'
    BY <2>5 DEF NpcDies, Unlock
  <2>6. ASSUME NEW t \in Threads, NpcSurvives(t)
        PROVE  HpFitsLevel'
    BY <2>6 DEF NpcSurvives, Unlock
  <2>7. ASSUME NEW t \in Threads, Credit(t)
        PROVE  HpFitsLevel'
    BY <2>7 DEF Credit
  <2>8. ASSUME NEW t \in Threads, CountLevel(t)
        PROVE  HpFitsLevel'
    BY <2>8 DEF CountLevel
  <2>9. ASSUME NEW t \in Threads, CountDone(t)
        PROVE  HpFitsLevel'
    BY <2>9 DEF CountDone
  <2>10. ASSUME NEW t \in Threads, LevelUp(t)
        PROVE  HpFitsLevel'
    BY <2>10 DEF LevelUp
  <2>11. ASSUME NEW t \in Threads, AttackDone(t)
        PROVE  HpFitsLevel'
    BY <2>11 DEF AttackDone, Finish
  <2>12. ASSUME NEW t \in Threads, Spared(t)
        PROVE  HpFitsLevel'
    BY <2>12 DEF Spared, Finish
  <2>13. ASSUME NEW t \in Threads, Falls(t)
        PROVE  HpFitsLevel'
    BY <2>13 DEF Falls
  <2>14. ASSUME NEW t \in Threads, Revive(t)
        PROVE  HpFitsLevel'
    BY <2>14 DEF Revive
  <2>15. ASSUME NEW t \in Threads, LoseExp(t)
        PROVE  HpFitsLevel'
    BY <2>15 DEF LoseExp, Finish
  <2>16. ASSUME NEW p \in Players, HpUp(p)
        PROVE  HpFitsLevel'
    BY <2>16, TenthSign DEF HpUp
  <2>17. CASE UNCHANGED vars
    BY <2>17 DEF vars
  <2>. QED
    BY <2>1, <2>2, <2>3, <2>4, <2>5, <2>6, <2>7, <2>8, <2>9, <2>10, <2>11, <2>12, <2>13, <2>14, <2>15, <2>16, <2>17 DEF Next, Step
<1>. QED
  BY <1>1, <1>2, BaseInvariant, PTL DEF Spec

\* Experience worth a level is turned into one before m_exp_lock is released.
THEOREM ExpIsThatOfLevel == Spec => []ExpFitsLevel
<1>1. Init => ExpFitsLevel
  BY InitialBody DEF ExpFitsLevel
<1>2. Base /\ ExpOwned /\ ExpFitsLevel /\ [Next]_vars => ExpFitsLevel'
  <2>. SUFFICES ASSUME Base, ExpOwned, ExpFitsLevel, [Next]_vars
               PROVE  ExpFitsLevel'
    OBVIOUS
  <2>. USE CombatAssumption DEF Base, TypeOK, Located, ExpOwned, ExpFitsLevel, Goto, body, locals
  <2>1. ASSUME NEW t \in Threads, NEW p \in Players, Attack(t, p)
        PROVE  ExpFitsLevel'
    BY <2>1 DEF Attack
  <2>2. ASSUME NEW t \in Threads, NEW n \in Npcs, NEW p \in Players, NpcStrikes(t, n, p)
        PROVE  ExpFitsLevel'
    BY <2>2 DEF NpcStrikes, Strikes
  <2>3. ASSUME NEW t \in Threads, NEW n \in Npcs, LockNpc(t, n)
        PROVE  ExpFitsLevel'
    BY <2>3 DEF LockNpc
  <2>4. ASSUME NEW t \in Threads, HitNpc(t)
        PROVE  ExpFitsLevel'
    BY <2>4 DEF HitNpc
  <2>5. ASSUME NEW t \in Threads, NpcDies(t)
        PROVE  ExpFitsLevel'
    BY <2>5 DEF NpcDies, Unlock
  <2>6. ASSUME NEW t \in Threads, NpcSurvives(t)
        PROVE  ExpFitsLevel'
    BY <2>6 DEF NpcSurvives, Unlock
  <2>7. ASSUME NEW t \in Threads, Credit(t)
        PROVE  ExpFitsLevel'
    BY <2>7 DEF Credit
  <2>8. ASSUME NEW t \in Threads, CountLevel(t)
        PROVE  ExpFitsLevel'
    BY <2>8 DEF CountLevel
  <2>9. ASSUME NEW t \in Threads, CountDone(t)
        PROVE  ExpFitsLevel'
    BY <2>9 DEF CountDone
  <2>10. ASSUME NEW t \in Threads, LevelUp(t)
        PROVE  ExpFitsLevel'
    BY <2>10 DEF LevelUp
  <2>11. ASSUME NEW t \in Threads, AttackDone(t)
        PROVE  ExpFitsLevel'
    BY <2>11 DEF AttackDone, Finish
  <2>12. ASSUME NEW t \in Threads, Spared(t)
        PROVE  ExpFitsLevel'
    BY <2>12 DEF Spared, Finish
  <2>13. ASSUME NEW t \in Threads, Falls(t)
        PROVE  ExpFitsLevel'
    BY <2>13 DEF Falls
  <2>14. ASSUME NEW t \in Threads, Revive(t)
        PROVE  ExpFitsLevel'
    BY <2>14 DEF Revive
  <2>15. ASSUME NEW t \in Threads, LoseExp(t)
        PROVE  ExpFitsLevel'
    BY <2>15 DEF LoseExp, Finish
  <2>16. ASSUME NEW p \in Players, HpUp(p)
        PROVE  ExpFitsLevel'
    BY <2>16 DEF HpUp
  <2>17. CASE UNCHANGED vars
    BY <2>17 DEF vars
  <2>. QED
    BY <2>1, <2>2, <2>3, <2>4, <2>5, <2>6, <2>7, <2>8, <2>9, <2>10, <2>11, <2>12, <2>13, <2>14, <2>15, <2>16, <2>17 DEF Next, Step
<1>. QED
  BY <1>1, <1>2, BaseInvariant, LocksOwned, PTL DEF Spec
=============================================================================
