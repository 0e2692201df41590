------------------------------- MODULE Combat -------------------------------
(***************************************************************************)
(* Hit points, experience and levels in MMoRPGServer.cpp: players strike   *)
(* NPCs (CS_ATTACK), NPCs strike players (do_npc_random_move), and the     *)
(* timer restores players (EV_HP_UP).  Any worker may run any of this at   *)
(* any time; m_hp_lock and m_exp_lock of each object are all that orders   *)
(* it.  An NPC's hit points are lowered and judged inside one critical     *)
(* section, a player's are lowered in one and judged after it.             *)
(*                                                                         *)
(* Who stands where is left out: Range and Prey say who can ever reach     *)
(* whom, and whether it does is left open.  The level of                   *)
(* a player is the one of an account, not the INT_MAX of an all-digit id   *)
(* (level * 50 overflows to -50 there, which heals the NPC).  A critical   *)
(* section of a player's lock reads and writes nothing else that changes   *)
(* meanwhile and is one step.                                              *)
(***************************************************************************)
EXTENDS Integers, FiniteSets

CONSTANTS
  Players, Npcs, Threads,
  NpcLevel,     \* m_level of each NPC, fixed at InitializeNPC
  Accounts,     \* the levels players can log in with
  Range,        \* <<player, npc>>: the player may come to hit the NPC
  Prey,         \* <<npc, player>>: the NPC may come to hit the player
  MaxLevel,     \* bound: players stop attacking at this level
  MinHp,        \* bound: the timer lets a player with less alone
  None

ASSUME CombatAssumption ==
  /\ NpcLevel \in [Npcs -> Nat \ {0}]
  /\ Accounts \subseteq Nat \ {0} /\ MaxLevel \in Nat /\ MinHp \in Int
  /\ Range \subseteq Players \X Npcs /\ Prey \subseteq Npcs \X Players
  /\ None \notin Players \cup Npcs \cup Threads

VARIABLES
  hp, maxHp, exp, level,   \* of each player
  expLock,                 \* owner of the player's m_exp_lock
  npcHp,                   \* m_hp of each NPC
  npcLock,                 \* owner of the NPC's m_hp_lock
  pc,                      \* where each thread is
  ply,                     \* attacker, or victim of the NPC
  npc,                     \* NPC being struck, or striking
  todo,                    \* attackedplayer: NPCs still to be struck
  force                    \* level read at the start of CS_ATTACK

body == <<hp, maxHp, exp, level, expLock>>
locals == <<ply, npc, todo, force>>
vars == <<hp, maxHp, exp, level, expLock, npcHp, npcLock, pc, ply, npc, todo, force>>

Init ==
  /\ level \in [Players -> Accounts]
  /\ maxHp = [p \in Players |-> level[p] * 100]
  /\ hp = maxHp
  /\ exp = [p \in Players |-> 0]
  /\ expLock = [p \in Players |-> None]
  /\ npcHp = [n \in Npcs |-> NpcLevel[n] * 100]
  /\ npcLock = [n \in Npcs |-> None]
  /\ pc = [t \in Threads |-> "idle"]
  /\ ply = [t \in Threads |-> None] /\ npc = [t \in Threads |-> None]
  /\ todo = [t \in Threads |-> {}] /\ force = [t \in Threads |-> 0]

Goto(t, l) == pc' = [pc EXCEPT ![t] = l]

Finish(t) ==
  /\ Goto(t, "idle")
  /\ ply' = [ply EXCEPT ![t] = None]
  /\ npc' = [npc EXCEPT ![t] = None]
  /\ force' = [force EXCEPT ![t] = 0]
-----------------------------------------------------------------------------
(* CS_ATTACK.                                                              *)

\* The packets of a session are handled one after the other.
Attacks(t, p) == ply[t] = p /\ pc[t] \in {"strike", "hit", "judge", "credit",
                               "count", "counted", "levelup"}

Attack(t, p) ==
  /\ pc[t] = "idle" /\ level[p] < MaxLevel
  /\ \A u \in Threads : ~Attacks(u, p)
  /\ \E struck \in SUBSET {n \in Npcs : <<p, n>> \in Range} :
       struck # {} /\ todo' = [todo EXCEPT ![t] = struck]
  /\ force' = [force EXCEPT ![t] = level[p]]
  /\ ply' = [ply EXCEPT ![t] = p]
  /\ Goto(t, "strike")
  /\ UNCHANGED <<body, npcHp, npcLock, npc>>

\* Mutant: no lock.
LockForgotten(t, n) ==
  /\ pc[t] = "strike" /\ n \in todo[t]
  /\ npcLock' = [npcLock EXCEPT ![n] = t]
  /\ npc' = [npc EXCEPT ![t] = n]
  /\ todo' = [todo EXCEPT ![t] = @ \ {n}]
  /\ Goto(t, "hit")
  /\ UNCHANGED <<body, npcHp, ply, force>>

LockNpc(t, n) ==
  /\ pc[t] = "strike" /\ n \in todo[t] /\ npcLock[n] = None
  /\ npcLock' = [npcLock EXCEPT ![n] = t]
  /\ npc' = [npc EXCEPT ![t] = n]
  /\ todo' = [todo EXCEPT ![t] = @ \ {n}]
  /\ Goto(t, "hit")
  /\ UNCHANGED <<body, npcHp, ply, force>>

HitNpc(t) ==
  /\ pc[t] = "hit"
  /\ npcHp' = [npcHp EXCEPT ![npc[t]] = @ - force[t] * 50]
  /\ Goto(t, "judge")
  /\ UNCHANGED <<body, npcLock, locals>>

\* A dead NPC comes back with 100 hit points; the survivor is announced.
Unlock(n) == npcLock' = [npcLock EXCEPT ![n] = None]

NpcDies(t) ==
  /\ pc[t] = "judge" /\ npcHp[npc[t]] < 0
  /\ npcHp' = [npcHp EXCEPT ![npc[t]] = 100]
  /\ Unlock(npc[t])
  /\ Goto(t, "credit")
  /\ UNCHANGED <<body, locals>>

NpcSurvives(t) ==
  /\ pc[t] = "judge" /\ npcHp[npc[t]] >= 0
  /\ Unlock(npc[t])
  /\ Goto(t, "strike")
  /\ UNCHANGED <<body, npcHp, locals>>

\* m_exp_lock is taken and held until the levels are counted.
Credit(t) ==
  /\ pc[t] = "credit" /\ expLock[ply[t]] = None
  /\ expLock' = [expLock EXCEPT ![ply[t]] = t]
  /\ exp' = [exp EXCEPT ![ply[t]] = @ + NpcLevel[npc[t]] * 10]
  /\ Goto(t, "count")
  /\ UNCHANGED <<hp, maxHp, level, npcHp, npcLock, locals>>

\* Mutant: one level at most for one kill.
CountOnce(t) ==
  /\ pc[t] = "count" /\ exp[ply[t]] > level[ply[t]] * 100
  /\ exp' = [exp EXCEPT ![ply[t]] = @ - level[ply[t]] * 100]
  /\ level' = [level EXCEPT ![ply[t]] = @ + 1]
  /\ expLock' = [expLock EXCEPT ![ply[t]] = None]
  /\ Goto(t, "levelup")
  /\ UNCHANGED <<hp, maxHp, npcHp, npcLock, locals>>

\* One round of while (m_exp > m_level * 100).  The level is read elsewhere
\* without this lock.
CountLevel(t) ==
  /\ pc[t] \in {"count", "counted"} /\ exp[ply[t]] > level[ply[t]] * 100
  /\ exp' = [exp EXCEPT ![ply[t]] = @ - level[ply[t]] * 100]
  /\ level' = [level EXCEPT ![ply[t]] = @ + 1]
  /\ Goto(t, "counted")
  /\ UNCHANGED <<hp, maxHp, expLock, npcHp, npcLock, locals>>

CountDone(t) ==
  /\ pc[t] \in {"count", "counted"} /\ exp[ply[t]] <= level[ply[t]] * 100
  /\ expLock' = [expLock EXCEPT ![ply[t]] = None]
  /\ Goto(t, IF pc[t] = "counted" THEN "levelup" ELSE "strike")
  /\ UNCHANGED <<hp, maxHp, exp, level, npcHp, npcLock, locals>>

\* Mutant: m_max_hp stays as it was.
LevelUpHpOnly(t) ==
  /\ pc[t] = "levelup"
  /\ hp' = [hp EXCEPT ![ply[t]] = level[ply[t]] * 100]
  /\ Goto(t, "strike")
  /\ UNCHANGED <<maxHp, exp, level, expLock, npcHp, npcLock, locals>>

\* islevelup > 0: a section of m_hp_lock of its own.
LevelUp(t) ==
  /\ pc[t] = "levelup"
  /\ hp' = [hp EXCEPT ![ply[t]] = level[ply[t]] * 100]
  /\ maxHp' = [maxHp EXCEPT ![ply[t]] = level[ply[t]] * 100]
  /\ Goto(t, "strike")
  /\ UNCHANGED <<exp, level, expLock, npcHp, npcLock, locals>>

AttackDone(t) ==
  /\ pc[t] = "strike" /\ todo[t] = {}
  /\ Finish(t)
  /\ UNCHANGED <<body, npcHp, npcLock, todo>>
-----------------------------------------------------------------------------
(* do_npc_random_move with isattacked.  One thread at a time moves an NPC  *)
(* (NpcActivity), so an NPC does not strike twice at once.                 *)

Strikes(t, n) == npc[t] = n /\ pc[t] \in {"check", "die", "penalty"}

NpcStrikes(t, n, p) ==
  /\ pc[t] = "idle" /\ <<n, p>> \in Prey
  /\ \A u \in Threads : ~Strikes(u, n)
  /\ hp' = [hp EXCEPT ![p] = @ - NpcLevel[n] * 10]
  /\ ply' = [ply EXCEPT ![t] = p]
  /\ npc' = [npc EXCEPT ![t] = n]
  /\ Goto(t, "check")
  /\ UNCHANGED <<maxHp, exp, level, expLock, npcHp, npcLock, todo, force>>

\* m_hp is read again, without the lock.
Spared(t) ==
  /\ pc[t] = "check" /\ hp[ply[t]] >= 0
  /\ Finish(t)
  /\ UNCHANGED <<body, npcHp, npcLock, todo>>

Falls(t) ==
  /\ pc[t] = "check" /\ hp[ply[t]] < 0
  /\ Goto(t, "die")
  /\ UNCHANGED <<body, npcHp, npcLock, locals>>

\* Mutant: the hit points of the level are added, not set.
ReviveAdds(t) ==
  /\ pc[t] = "die"
  /\ hp' = [hp EXCEPT ![ply[t]] = @ + level[ply[t]] * 100]
  /\ Goto(t, "penalty")
  /\ UNCHANGED <<maxHp, exp, level, expLock, npcHp, npcLock, locals>>

Revive(t) ==
  /\ pc[t] = "die"
  /\ hp' = [hp EXCEPT ![ply[t]] = level[ply[t]] * 100]
  /\ Goto(t, "penalty")
  /\ UNCHANGED <<maxHp, exp, level, expLock, npcHp, npcLock, locals>>

LoseExp(t) ==
  /\ pc[t] = "penalty" /\ expLock[ply[t]] = None
  /\ exp' = [exp EXCEPT ![ply[t]] = @ \div 2]
  /\ Finish(t)
  /\ UNCHANGED <<hp, maxHp, level, expLock, npcHp, npcLock, todo>>
-----------------------------------------------------------------------------
\* m_hp += 0.1 * m_hp, cut off towards zero and at m_max_hp.
Tenth(h) == IF h >= 0 THEN (11 * h) \div 10 ELSE -((11 * (-h)) \div 10)

HpUp(p) ==
  /\ hp[p] >= MinHp
  /\ hp' = [hp EXCEPT ![p] = IF Tenth(@) > maxHp[p] THEN maxHp[p] ELSE Tenth(@)]
  /\ UNCHANGED <<maxHp, exp, level, expLock, npcHp, npcLock, pc, locals>>

Step(t) ==
  \/ \E n \in Npcs : LockNpc(t, n)
  \/ HitNpc(t)
  \/ NpcDies(t)
  \/ NpcSurvives(t)
  \/ Credit(t)
  \/ CountLevel(t)
  \/ CountDone(t)
  \/ LevelUp(t)
  \/ AttackDone(t)
  \/ Spared(t)
  \/ Falls(t)
  \/ Revive(t)
  \/ LoseExp(t)

Next ==
  \/ \E t \in Threads, p \in Players : Attack(t, p)
  \/ \E t \in Threads, n \in Npcs, p \in Players : NpcStrikes(t, n, p)
  \/ \E t \in Threads : Step(t)
  \/ \E p \in Players : HpUp(p)

Spec == Init /\ [][Next]_vars
-----------------------------------------------------------------------------
TypeOK ==
  /\ hp \in [Players -> Int] /\ maxHp \in [Players -> Nat]
  /\ exp \in [Players -> Nat] /\ level \in [Players -> Nat \ {0}]
  /\ npcHp \in [Npcs -> Int] /\ npcLock \in [Npcs -> Threads \cup {None}]
  /\ expLock \in [Players -> Threads \cup {None}]
  /\ pc \in [Threads -> {"idle", "strike", "hit", "judge", "credit", "count",
                         "counted", "levelup", "check", "die", "penalty"}]
  /\ ply \in [Threads -> Players \cup {None}]
  /\ npc \in [Threads -> Npcs \cup {None}]
  /\ todo \in [Threads -> SUBSET Npcs]
  /\ force \in [Threads -> Nat]

\* A kill is earned once: an NPC whose hit points have gone below zero is still
\* locked by the thread that killed it, so no second attacker finds it dead
\* before it has its new hit points.
DeadNpcIsClaimed ==
  \A n \in Npcs : npcHp[n] < 0 =>
    \E t \in Threads : npcLock[n] = t /\ npc[t] = n /\ pc[t] = "judge"

\* The judgement on a player is made outside the lock, from a fresh read, while
\* other NPCs, level-ups and the timer change m_hp: still nobody stays below
\* zero without a thread about to notice.
FallenIsNoticed ==
  \A p \in Players : hp[p] < 0 =>
    \E t \in Threads : ply[t] = p /\ pc[t] \in {"check", "die"}

LevelsUp(p) ==
  \E t \in Threads : ply[t] = p /\ pc[t] \in {"counted", "levelup"}

\* Level and hit points are guarded by different locks.  Except while levels are
\* counted and until the hit points follow, m_max_hp is that of the level and m_hp within it,
\* though deaths set m_hp from a level that may be changing.
HpFitsLevel ==
  \A p \in Players :
    ~LevelsUp(p) => maxHp[p] = level[p] * 100 /\ hp[p] <= maxHp[p]

\* No kill, however rich, leaves experience that is worth another level.
ExpFitsLevel ==
  \A p \in Players : expLock[p] = None => exp[p] <= level[p] * 100
=============================================================================
