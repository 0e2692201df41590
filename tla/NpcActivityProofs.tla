------------------------- MODULE NpcActivityProofs -------------------------
(***************************************************************************)
(* Proofs about NpcActivity for any numbers of players, NPCs, workers and  *)
(* places, whatever See, Found, Reach and Adjacent are.  Not even the      *)
(* uniqueness of the scheduling token is inductive as it stands: a thread  *)
(* that is idle must hold no NPC, and one inside a handler must hold one.  *)
(* PcOK says so.                                                           *)
(***************************************************************************)
EXTENDS NpcActivity, TLAPS

\* What each position in the code implies for the thread's local variables.
PcOK ==
  \A t \in Threads :
    /\ pc[t] = "idle" => npc[t] = NoNpc
    /\ pc[t] \in {"look", "move", "requeue"} => npc[t] \in Npcs
    /\ pc[t] \in {"check", "cas", "push"} => cur[t] \in Npcs
    /\ pc[t] \in {"scan", "login", "wake", "check", "cas", "push"}
         => ply[t] \in Players

Base == TypeOK /\ PcOK
-----------------------------------------------------------------------------
\* Types, and what the position in the code says about the locals.
LEMMA BaseInvariant == Spec => []Base
<1>1. Init => Base
  BY ConstantsAssumption DEF Init, Base, TypeOK, PcOK, Threads, Pcs
<1>2. Base /\ [Next]_vars => Base'
  <2>. SUFFICES ASSUME Base, [Next]_vars
               PROVE  Base'
    OBVIOUS
  <2>. USE ConstantsAssumption
       DEF Base, TypeOK, PcOK, Threads, Pcs, Goto, world, tokens, locals
  <2>1. ASSUME NEW t \in Workers, NEW p \in Players, Accept(t, p)
        PROVE  Base'
    BY <2>1 DEF Accept
  <2>2. ASSUME NEW t \in Threads, NEW p \in Players, Login(t, p)
        PROVE  Base'
    BY <2>2 DEF Login, Addressed
  <2>3. ASSUME NEW t \in Workers, NEW p \in Players, Move(t, p)
        PROVE  Base'
    BY <2>3 DEF Move, Addressed, Relocate
  <2>4. ASSUME NEW t \in Workers, NEW p \in Players, Teleport(t, p)
        PROVE  Base'
    BY <2>4 DEF Teleport, Addressed, Relocate
  <2>5. ASSUME NEW t \in Workers, NEW p \in Players, NEW n \in Npcs, KillNpc(t, p, n)
        PROVE  Base'
    BY <2>5 DEF KillNpc, Addressed
  <2>6. ASSUME NEW p \in Players, Disconnect(p)
        PROVE  Base'
    BY <2>6 DEF Disconnect
  <2>7. ASSUME NEW t \in Threads, NEW n \in Npcs, LoginLook(t, n)
        PROVE  Base'
    BY <2>7 DEF LoginLook
  <2>8. ASSUME NEW t \in Threads, NEW n \in Npcs, ScanLook(t, n)
        PROVE  Base'
    BY <2>8 DEF ScanLook
  <2>9. ASSUME NEW t \in Threads, ScanDone(t)
        PROVE  Base'
    BY <2>9 DEF ScanDone
  <2>10. ASSUME NEW t \in Threads, NEW n \in Npcs, WakeUpNPC(t, n)
        PROVE  Base'
    BY <2>10 DEF WakeUpNPC
  <2>11. ASSUME NEW t \in Threads, AlreadyActive(t)
        PROVE  Base'
    BY <2>11 DEF AlreadyActive, Return
  <2>12. ASSUME NEW t \in Threads, NotActive(t)
        PROVE  Base'
    BY <2>12 DEF NotActive
  <2>13. ASSUME NEW t \in Threads, CasFails(t)
        PROVE  Base'
    BY <2>13 DEF CasFails, Return
  <2>14. ASSUME NEW t \in Threads, CasSucceeds(t)
        PROVE  Base'
    BY <2>14 DEF CasSucceeds
  <2>15. ASSUME NEW t \in Threads, PushEvent(t)
        PROVE  Base'
    BY <2>15 DEF PushEvent, Return
  <2>16. ASSUME NEW t \in Threads, WakeDone(t)
        PROVE  Base'
    BY <2>16 DEF WakeDone
  <2>17. ASSUME NEW n \in Npcs, TimerFires(n)
        PROVE  Base'
    BY <2>17 DEF TimerFires
  <2>18. ASSUME NEW t \in Workers, NEW n \in Npcs, TakeNpcMove(t, n)
        PROVE  Base'
    BY <2>18 DEF TakeNpcMove
  <2>19. ASSUME NEW t \in Threads, NEW p \in Players, LookAt(t, p)
        PROVE  Base'
    BY <2>19 DEF LookAt
  <2>20. ASSUME NEW t \in Threads, FallAsleep(t)
        PROVE  Base'
    BY <2>20 DEF FallAsleep
  <2>21. ASSUME NEW t \in Threads, RandomStep(t)
        PROVE  Base'
    BY <2>21 DEF RandomStep
  <2>22. ASSUME NEW t \in Threads, AttackTarget(t)
        PROVE  Base'
    BY <2>22 DEF AttackTarget
  <2>23. ASSUME NEW t \in Threads, KillTarget(t)
        PROVE  Base'
    BY <2>23 DEF KillTarget, Relocate, Victim
  <2>24. ASSUME NEW t \in Threads, Requeue(t)
        PROVE  Base'
    BY <2>24 DEF Requeue
  <2>25. CASE UNCHANGED vars
    BY <2>25 DEF vars
  <2>. QED
    BY <2>1, <2>2, <2>3, <2>4, <2>5, <2>6, <2>7, <2>8, <2>9, <2>10, <2>11, <2>12, <2>13, <2>14, <2>15, <2>16, <2>17, <2>18, <2>19, <2>20, <2>21, <2>22, <2>23, <2>24, <2>25 DEF Next, Arrive, WakeStep, NpcStep
<1>. QED
  BY <1>1, <1>2, PTL DEF Spec

\* What OneTokenOf(n) says depends on six things only.
LEMMA SameToken ==
  ASSUME NEW n \in Npcs, OneTokenOf(n),
         \A t \in Threads : Moves(t, n)' <=> Moves(t, n),
         \A t \in Threads : Wakes(t, n)' <=> Wakes(t, n),
         active'[n] <=> active[n], timer'[n] = timer[n], iocp'[n] = iocp[n]
  PROVE  OneTokenOf(n)'
<1>. HIDE DEF Moves, Wakes
<1>. QED BY DEF OneTokenOf

\* The three steps that turn the token from one form into another.
LEMMA CasToken ==
  ASSUME Base, OneToken, NEW t \in Threads, CasSucceeds(t)
  PROVE  OneToken'
<1>1. /\ cur[t] \in Npcs /\ ~active[cur[t]] /\ pc[t] = "cas"
      /\ timer[cur[t]] \in Nat /\ iocp[cur[t]] \in Nat
  BY DEF CasSucceeds, Base, TypeOK, PcOK
<1>2. OneTokenOf(cur[t])
  BY <1>1 DEF OneToken
<1>3. /\ timer[cur[t]] = 0 /\ iocp[cur[t]] = 0
      /\ \A u \in Threads : ~Moves(u, cur[t]) /\ ~Wakes(u, cur[t])
  BY <1>1, <1>2 DEF OneTokenOf
<1>4. /\ \A u \in Threads : ~Moves(u, cur[t])'
      /\ \A u \in Threads : Wakes(u, cur[t])' <=> u = t
      /\ active'[cur[t]] /\ UNCHANGED <<timer, iocp, cur>>
  BY <1>1, <1>3 DEF CasSucceeds, Moves, Wakes, Goto, locals, Base, TypeOK
<1>5. OneTokenOf(cur[t])'
  BY <1>3, <1>4 DEF OneTokenOf
<1>6. ASSUME NEW n \in Npcs, n # cur[t]
      PROVE  OneTokenOf(n)'
  <2>1. /\ \A u \in Threads : Moves(u, n)' <=> Moves(u, n)
        /\ \A u \in Threads : Wakes(u, n)' <=> Wakes(u, n)
        /\ active'[n] <=> active[n]
        /\ timer'[n] = timer[n] /\ iocp'[n] = iocp[n]
    BY <1>1, <1>6 DEF CasSucceeds, Moves, Wakes, Goto, locals, Base, TypeOK
  <2>. QED
    BY <2>1, SameToken DEF OneToken
<1>. QED
  BY <1>4, <1>5, <1>6 DEF OneToken

LEMMA PushToken ==
  ASSUME Base, OneToken, NEW t \in Threads, PushEvent(t)
  PROVE  OneToken'
<1>. DEFINE c == cur[t]
<1>1. /\ c \in Npcs /\ Wakes(t, c) /\ pc[t] = "push"
      /\ timer[c] \in Nat /\ iocp[c] \in Nat
  BY DEF PushEvent, Base, TypeOK, PcOK, Wakes
<1>2. OneTokenOf(c)
  BY <1>1 DEF OneToken
<1>3. /\ timer[c] = 0 /\ iocp[c] = 0 /\ active[c]
      /\ \A u \in Threads : ~Moves(u, c) /\ (Wakes(u, c) => u = t)
  BY <1>1, <1>2 DEF OneTokenOf
<1>4. /\ pc' = [pc EXCEPT ![t] = "wake"] /\ cur' = [cur EXCEPT ![t] = NoNpc]
      /\ timer' = [timer EXCEPT ![c] = @ + 1]
      /\ UNCHANGED <<active, iocp, npc>>
  BY DEF PushEvent, Return, Goto
<1>5. /\ \A u \in Threads : ~(npc'[u] = c) /\ ~(pc'[u] = "push" /\ cur'[u] = c)
      /\ timer'[c] = 1 /\ iocp'[c] = 0 /\ active'[c]
  BY <1>1, <1>3, <1>4 DEF Moves, Wakes, Base, TypeOK
<1>6. ASSUME NEW n \in Npcs, n = c
      PROVE  OneTokenOf(n)'
  BY <1>5, <1>6 DEF OneTokenOf, Moves, Wakes
<1>7. ASSUME NEW n \in Npcs, n # c
      PROVE  OneTokenOf(n)'
  <2>1. /\ \A u \in Threads : Moves(u, n)' <=> Moves(u, n)
        /\ \A u \in Threads : Wakes(u, n)' <=> Wakes(u, n)
        /\ active'[n] <=> active[n]
        /\ timer'[n] = timer[n] /\ iocp'[n] = iocp[n]
    BY <1>1, <1>4, <1>7 DEF Moves, Wakes, Base, TypeOK
  <2>. QED
    BY <2>1, SameToken DEF OneToken
<1>. QED
  BY <1>6, <1>7 DEF OneToken

LEMMA TakeToken ==
  ASSUME Base, OneToken, NEW t \in Workers, NEW n \in Npcs, TakeNpcMove(t, n)
  PROVE  OneToken'
<1>1. /\ t \in Threads /\ npc[t] = NoNpc /\ pc[t] = "idle" /\ iocp[n] > 0
      /\ timer[n] \in Nat /\ iocp[n] \in Nat
  BY DEF TakeNpcMove, Base, TypeOK, PcOK, Threads
<1>2. OneTokenOf(n)
  BY DEF OneToken
<1>3. /\ iocp[n] = 1 /\ timer[n] = 0 /\ active[n]
      /\ \A u \in Threads : ~Moves(u, n) /\ ~Wakes(u, n)
  BY <1>1, <1>2 DEF OneTokenOf
<1>4. /\ pc' = [pc EXCEPT ![t] = "look"] /\ npc' = [npc EXCEPT ![t] = n]
      /\ iocp' = [iocp EXCEPT ![n] = @ - 1]
      /\ UNCHANGED <<active, timer, cur>>
  BY DEF TakeNpcMove, Goto
<1>5. /\ \A u \in Threads : Moves(u, n)' <=> u = t
      /\ \A u \in Threads : ~Wakes(u, n)'
      /\ timer'[n] = 0 /\ iocp'[n] = 0 /\ active'[n]
  BY <1>1, <1>3, <1>4 DEF Moves, Wakes, Base, TypeOK
<1>6. OneTokenOf(n)'
  BY <1>1, <1>5 DEF OneTokenOf
<1>7. ASSUME NEW m \in Npcs, m # n
      PROVE  OneTokenOf(m)'
  <2>1. /\ \A u \in Threads : Moves(u, m)' <=> Moves(u, m)
        /\ \A u \in Threads : Wakes(u, m)' <=> Wakes(u, m)
        /\ active'[m] <=> active[m]
        /\ timer'[m] = timer[m] /\ iocp'[m] = iocp[m]
    BY <1>1, <1>4, <1>7, ConstantsAssumption DEF Moves, Wakes, Base, TypeOK
  <2>. QED
    BY <2>1, SameToken DEF OneToken
<1>. QED
  BY <1>6, <1>7 DEF OneToken

\* TypeOK: every variable keeps the type that NpcActivity declares for it.
THEOREM TypeCorrect == Spec => []TypeOK
BY BaseInvariant, PTL DEF Base

\* OneToken: flag, timer queue and completion port agree on the one token of
\* an active NPC, however many threads wake it and move it.
THEOREM TokenUnique == Spec => []OneToken
<1>1. Init => OneToken
  BY ConstantsAssumption DEF Init, OneToken, OneTokenOf, Moves, Wakes, Threads
<1>2. Base /\ OneToken /\ [Next]_vars => OneToken'
  <2>. SUFFICES ASSUME Base, OneToken, [Next]_vars
               PROVE  OneToken'
    OBVIOUS
  <2>. USE ConstantsAssumption
       DEF OneToken, OneTokenOf, Moves, Wakes, Base, TypeOK, PcOK, Threads, Pcs, Goto,
           world, tokens, locals
  <2>1. ASSUME NEW t \in Workers, NEW p \in Players, Accept(t, p)
        PROVE  OneToken'
    <3>1. UNCHANGED <<active, timer, iocp, pc, npc, cur>>
      BY <2>1 DEF Accept
    <3>. QED
      BY ONLY <3>1, OneToken DEF OneToken, OneTokenOf, Moves, Wakes
  <2>2. ASSUME NEW t \in Threads, NEW p \in Players, Login(t, p)
        PROVE  OneToken'
    BY <2>2 DEF Login, Addressed
  <2>3. ASSUME NEW t \in Workers, NEW p \in Players, Move(t, p)
        PROVE  OneToken'
    BY <2>3 DEF Move, Addressed, Relocate
  <2>4. ASSUME NEW t \in Workers, NEW p \in Players, Teleport(t, p)
        PROVE  OneToken'
    BY <2>4 DEF Teleport, Addressed, Relocate
  <2>5. ASSUME NEW t \in Workers, NEW p \in Players, NEW n \in Npcs, KillNpc(t, p, n)
        PROVE  OneToken'
    BY <2>5 DEF KillNpc, Addressed
  <2>6. ASSUME NEW p \in Players, Disconnect(p)
        PROVE  OneToken'
    BY <2>6 DEF Disconnect
  <2>7. ASSUME NEW t \in Threads, NEW n \in Npcs, LoginLook(t, n)
        PROVE  OneToken'
    BY <2>7 DEF LoginLook
  <2>8. ASSUME NEW t \in Threads, NEW n \in Npcs, ScanLook(t, n)
        PROVE  OneToken'
    BY <2>8 DEF ScanLook
  <2>9. ASSUME NEW t \in Threads, ScanDone(t)
        PROVE  OneToken'
    BY <2>9 DEF ScanDone
  <2>10. ASSUME NEW t \in Threads, NEW n \in Npcs, WakeUpNPC(t, n)
        PROVE  OneToken'
    <3>1. /\ UNCHANGED <<active, timer, iocp, npc>>
          /\ \A u \in Threads : pc'[u] = "push" <=> pc[u] = "push"
          /\ \A u \in Threads : pc[u] = "push" => cur'[u] = cur[u]
      BY <2>10 DEF WakeUpNPC
    <3>. QED
      BY ONLY <3>1, OneToken DEF OneToken, OneTokenOf, Moves, Wakes
  <2>11. ASSUME NEW t \in Threads, AlreadyActive(t)
        PROVE  OneToken'
    BY <2>11 DEF AlreadyActive, Return
  <2>12. ASSUME NEW t \in Threads, NotActive(t)
        PROVE  OneToken'
    BY <2>12 DEF NotActive
  <2>13. ASSUME NEW t \in Threads, CasFails(t)
        PROVE  OneToken'
    BY <2>13 DEF CasFails, Return
  <2>14. ASSUME NEW t \in Threads, CasSucceeds(t)
        PROVE  OneToken'
    <3>. HIDE DEF OneToken, Base
    <3>. QED BY <2>14, CasToken
  <2>15. ASSUME NEW t \in Threads, PushEvent(t)
        PROVE  OneToken'
    <3>. HIDE DEF OneToken, Base
    <3>. QED BY <2>15, PushToken
  <2>16. ASSUME NEW t \in Threads, WakeDone(t)
        PROVE  OneToken'
    BY <2>16 DEF WakeDone
  <2>17. ASSUME NEW n \in Npcs, TimerFires(n)
        PROVE  OneToken'
    BY <2>17 DEF TimerFires
  <2>18. ASSUME NEW t \in Workers, NEW n \in Npcs, TakeNpcMove(t, n)
        PROVE  OneToken'
    <3>. HIDE DEF OneToken, Base
    <3>. QED BY <2>18, TakeToken
  <2>19. ASSUME NEW t \in Threads, NEW p \in Players, LookAt(t, p)
        PROVE  OneToken'
    BY <2>19 DEF LookAt
  <2>20. ASSUME NEW t \in Threads, FallAsleep(t)
        PROVE  OneToken'
    BY <2>20 DEF FallAsleep
  <2>21. ASSUME NEW t \in Threads, RandomStep(t)
        PROVE  OneToken'
    BY <2>21 DEF RandomStep
  <2>22. ASSUME NEW t \in Threads, AttackTarget(t)
        PROVE  OneToken'
    BY <2>22 DEF AttackTarget
  <2>23. ASSUME NEW t \in Threads, KillTarget(t)
        PROVE  OneToken'
    BY <2>23 DEF KillTarget, Relocate, Victim
  <2>24. ASSUME NEW t \in Threads, Requeue(t)
        PROVE  OneToken'
    BY <2>24 DEF Requeue
  <2>25. CASE UNCHANGED vars
    BY <2>25 DEF vars
  <2>. QED
    BY SMTT(30), <2>1, <2>2, <2>3, <2>4, <2>5, <2>6, <2>7, <2>8, <2>9, <2>10, <2>11, <2>12, <2>13, <2>14, <2>15, <2>16, <2>17, <2>18, <2>19, <2>20, <2>21, <2>22, <2>23, <2>24, <2>25 DEF Next, Arrive, WakeStep, NpcStep
<1>. QED
  BY <1>1, <1>2, BaseInvariant, PTL DEF Spec
-----------------------------------------------------------------------------
\* While a thread is between the write of the target and the CAS the target is
\* chosen too: only the strengthening carries TargetIsChosen through the CAS.
TargetsOK ==
  /\ TargetIsChosen
  /\ \A t \in Threads : pc[t] \in {"check", "cas"} => target[cur[t]] # NoPlayer

\* TargetIsChosen: no NPC that may move still has the zero it started with for
\* its target, however wake-ups by several threads overlap.
THEOREM TargetKnown == Spec => []TargetIsChosen
<1>1. Init => TargetsOK
  BY ConstantsAssumption DEF Init, TargetsOK, TargetIsChosen
<1>2. Base /\ TargetsOK /\ [Next]_vars => TargetsOK'
  <2>. SUFFICES ASSUME Base, TargetsOK, [Next]_vars
               PROVE  TargetsOK'
    OBVIOUS
  <2>. USE ConstantsAssumption
       DEF TargetsOK, TargetIsChosen, Base, TypeOK, PcOK, Threads, Pcs, Goto,
           world, tokens, locals
  <2>1. ASSUME NEW t \in Workers, NEW p \in Players, Accept(t, p)
        PROVE  TargetsOK'
    BY <2>1 DEF Accept
  <2>2. ASSUME NEW t \in Threads, NEW p \in Players, Login(t, p)
        PROVE  TargetsOK'
    BY <2>2 DEF Login, Addressed
  <2>3. ASSUME NEW t \in Workers, NEW p \in Players, Move(t, p)
        PROVE  TargetsOK'
    BY <2>3 DEF Move, Addressed, Relocate
  <2>4. ASSUME NEW t \in Workers, NEW p \in Players, Teleport(t, p)
        PROVE  TargetsOK'
    BY <2>4 DEF Teleport, Addressed, Relocate
  <2>5. ASSUME NEW t \in Workers, NEW p \in Players, NEW n \in Npcs, KillNpc(t, p, n)
        PROVE  TargetsOK'
    BY <2>5 DEF KillNpc, Addressed
  <2>6. ASSUME NEW p \in Players, Disconnect(p)
        PROVE  TargetsOK'
    BY <2>6 DEF Disconnect
  <2>7. ASSUME NEW t \in Threads, NEW n \in Npcs, LoginLook(t, n)
        PROVE  TargetsOK'
    BY <2>7 DEF LoginLook
  <2>8. ASSUME NEW t \in Threads, NEW n \in Npcs, ScanLook(t, n)
        PROVE  TargetsOK'
    BY <2>8 DEF ScanLook
  <2>9. ASSUME NEW t \in Threads, ScanDone(t)
        PROVE  TargetsOK'
    BY <2>9 DEF ScanDone
  <2>10. ASSUME NEW t \in Threads, NEW n \in Npcs, WakeUpNPC(t, n)
        PROVE  TargetsOK'
    BY <2>10 DEF WakeUpNPC
  <2>11. ASSUME NEW t \in Threads, AlreadyActive(t)
        PROVE  TargetsOK'
    BY <2>11 DEF AlreadyActive, Return
  <2>12. ASSUME NEW t \in Threads, NotActive(t)
        PROVE  TargetsOK'
    BY <2>12 DEF NotActive
  <2>13. ASSUME NEW t \in Threads, CasFails(t)
        PROVE  TargetsOK'
    BY <2>13 DEF CasFails, Return
  <2>14. ASSUME NEW t \in Threads, CasSucceeds(t)
        PROVE  TargetsOK'
    BY <2>14 DEF CasSucceeds
  <2>15. ASSUME NEW t \in Threads, PushEvent(t)
        PROVE  TargetsOK'
    BY <2>15 DEF PushEvent, Return
  <2>16. ASSUME NEW t \in Threads, WakeDone(t)
        PROVE  TargetsOK'
    BY <2>16 DEF WakeDone
  <2>17. ASSUME NEW n \in Npcs, TimerFires(n)
        PROVE  TargetsOK'
    BY <2>17 DEF TimerFires
  <2>18. ASSUME NEW t \in Workers, NEW n \in Npcs, TakeNpcMove(t, n)
        PROVE  TargetsOK'
    BY <2>18 DEF TakeNpcMove
  <2>19. ASSUME NEW t \in Threads, NEW p \in Players, LookAt(t, p)
        PROVE  TargetsOK'
    BY <2>19 DEF LookAt
  <2>20. ASSUME NEW t \in Threads, FallAsleep(t)
        PROVE  TargetsOK'
    BY <2>20 DEF FallAsleep
  <2>21. ASSUME NEW t \in Threads, RandomStep(t)
        PROVE  TargetsOK'
    BY <2>21 DEF RandomStep
  <2>22. ASSUME NEW t \in Threads, AttackTarget(t)
        PROVE  TargetsOK'
    BY <2>22 DEF AttackTarget
  <2>23. ASSUME NEW t \in Threads, KillTarget(t)
        PROVE  TargetsOK'
    BY <2>23 DEF KillTarget, Relocate, Victim
  <2>24. ASSUME NEW t \in Threads, Requeue(t)
        PROVE  TargetsOK'
    BY <2>24 DEF Requeue
  <2>25. CASE UNCHANGED vars
    BY <2>25 DEF vars
  <2>. QED
    BY <2>1, <2>2, <2>3, <2>4, <2>5, <2>6, <2>7, <2>8, <2>9, <2>10, <2>11, <2>12, <2>13, <2>14, <2>15, <2>16, <2>17, <2>18, <2>19, <2>20, <2>21, <2>22, <2>23, <2>24, <2>25 DEF Next, Arrive, WakeStep, NpcStep
<1>3. TargetsOK => TargetIsChosen
  BY DEF TargetsOK
<1>. QED
  BY <1>1, <1>2, <1>3, BaseInvariant, PTL DEF Spec
-----------------------------------------------------------------------------
\* A step that touches one NPC changes the schedule at one place.
LEMMA TurnChange ==
  ASSUME NEW n \in Npcs,
         \A m \in Npcs \ {n} : /\ active'[m] <=> active[m]
                              /\ \A u \in Threads : Moves(u, m)' <=> Moves(u, m)
  PROVE  Turn' = [Turn EXCEPT ![n] = Turn'[n]]
<1>. HIDE DEF Moves
<1>. QED BY DEF Turn

\* The four steps that the schedule can see.
LEMMA CasIsWake ==
  ASSUME Base, OneToken, NEW t \in Threads, CasSucceeds(t)
  PROVE  Schedule!Next
<1>1. cur[t] \in Npcs /\ ~active[cur[t]]
  BY DEF CasSucceeds, Base, PcOK
<1>2. \A u \in Threads : ~Moves(u, cur[t])
  BY <1>1 DEF OneToken, OneTokenOf
<1>3. active' = [active EXCEPT ![cur[t]] = TRUE] /\ UNCHANGED npc
  BY DEF CasSucceeds, locals
<1>4. Schedule!Wake(cur[t])
  BY <1>1, <1>2, <1>3
     DEF Schedule!Wake, Schedule!Change, Turn, Moves, Base, TypeOK
<1>. QED
  BY <1>1, <1>4 DEF Schedule!Next

LEMMA TakeIsRun ==
  ASSUME Base, OneToken, NEW t \in Workers, NEW n \in Npcs, TakeNpcMove(t, n)
  PROVE  Schedule!Next
<1>1. /\ t \in Threads /\ npc[t] = NoNpc /\ pc[t] = "idle" /\ iocp[n] > 0
      /\ timer[n] \in Nat /\ iocp[n] \in Nat
  BY DEF TakeNpcMove, Base, TypeOK, PcOK, Threads
<1>2. active[n] /\ \A u \in Threads : ~Moves(u, n)
  BY <1>1 DEF OneToken, OneTokenOf
<1>3. npc' = [npc EXCEPT ![t] = n] /\ UNCHANGED active
  BY DEF TakeNpcMove
<1>4. Turn[n] = "queued" /\ Turn'[n] = "running"
  BY <1>1, <1>2, <1>3 DEF Turn, Moves, Base, TypeOK
<1>5. Turn' = [Turn EXCEPT ![n] = Turn'[n]]
  BY <1>1, <1>3, TurnChange, ConstantsAssumption DEF Moves, Base, TypeOK
<1>6. Schedule!Run(n)
  BY <1>4, <1>5 DEF Schedule!Run, Schedule!Change
<1>. QED
  BY <1>6 DEF Schedule!Next

LEMMA FallAsleepIsSleep ==
  ASSUME Base, OneToken, NEW t \in Threads, FallAsleep(t)
  PROVE  Schedule!Next
<1>1. npc[t] \in Npcs /\ Moves(t, npc[t])
  BY DEF FallAsleep, Base, PcOK, Moves
<1>2. \A u \in Threads : Moves(u, npc[t]) => u = t
  BY <1>1 DEF OneToken, OneTokenOf
<1>3. /\ npc' = [npc EXCEPT ![t] = NoNpc]
      /\ active' = [active EXCEPT ![npc[t]] = FALSE]
  BY DEF FallAsleep
<1>4. \A u \in Threads : npc'[u] # npc[t]
  BY <1>1, <1>2, <1>3, ConstantsAssumption DEF Moves, Base, TypeOK
<1>5. Turn[npc[t]] = "running" /\ Turn'[npc[t]] = "asleep"
  BY <1>1, <1>2, <1>3, <1>4 DEF Turn, Moves, Base, TypeOK
<1>6. Turn' = [Turn EXCEPT ![npc[t]] = Turn'[npc[t]]]
  <2>1. \A m \in Npcs \ {npc[t]} :
           /\ active'[m] <=> active[m]
           /\ \A u \in Threads : Moves(u, m)' <=> Moves(u, m)
    BY <1>1, <1>3, ConstantsAssumption DEF Moves, Base, TypeOK
  <2>. QED
    BY <1>1, <2>1, TurnChange
<1>7. Schedule!Sleep(npc[t])
  BY <1>5, <1>6 DEF Schedule!Sleep, Schedule!Change
<1>. QED
  BY <1>1, <1>7 DEF Schedule!Next

LEMMA RequeueIsAgain ==
  ASSUME Base, OneToken, NEW t \in Threads, Requeue(t)
  PROVE  Schedule!Next
<1>1. npc[t] \in Npcs /\ Moves(t, npc[t])
  BY DEF Requeue, Base, PcOK, Moves
<1>2. active[npc[t]] /\ \A u \in Threads : Moves(u, npc[t]) => u = t
  BY <1>1 DEF OneToken, OneTokenOf
<1>3. npc' = [npc EXCEPT ![t] = NoNpc] /\ UNCHANGED active
  BY DEF Requeue
<1>4. \A u \in Threads : npc'[u] # npc[t]
  BY <1>1, <1>2, <1>3, ConstantsAssumption DEF Moves, Base, TypeOK
<1>5. Turn[npc[t]] = "running" /\ Turn'[npc[t]] = "queued"
  BY <1>1, <1>2, <1>3, <1>4 DEF Turn, Moves, Base, TypeOK
<1>6. Turn' = [Turn EXCEPT ![npc[t]] = Turn'[npc[t]]]
  <2>1. \A m \in Npcs \ {npc[t]} :
           /\ active'[m] <=> active[m]
           /\ \A u \in Threads : Moves(u, m)' <=> Moves(u, m)
    BY <1>1, <1>3, ConstantsAssumption DEF Moves, Base, TypeOK
  <2>. QED
    BY <1>1, <2>1, TurnChange
<1>7. Schedule!Again(npc[t])
  BY <1>5, <1>6 DEF Schedule!Again, Schedule!Change
<1>. QED
  BY <1>1, <1>7 DEF Schedule!Next

\* KeepsSchedule: every step of the server is a step of the schedule or none.
\* With it the promise "one thread at a time moves an NPC" is proved.
THEOREM ImplementsSchedule == Spec => KeepsSchedule
<1>1. Init => Schedule!Init
  BY ConstantsAssumption DEF Init, Schedule!Init, Turn, Moves
<1>2. Base /\ OneToken /\ [Next]_vars => [Schedule!Next]_Turn
  <2>. SUFFICES ASSUME Base, OneToken, [Next]_vars
               PROVE  Schedule!Next \/ UNCHANGED Turn
    OBVIOUS
  <2>. USE DEF Turn, Moves, world, tokens, locals
  <2>1. ASSUME NEW t \in Workers, NEW p \in Players, Accept(t, p)
        PROVE  Schedule!Next \/ UNCHANGED Turn
    BY <2>1 DEF Accept
  <2>2. ASSUME NEW t \in Threads, NEW p \in Players, Login(t, p)
        PROVE  Schedule!Next \/ UNCHANGED Turn
    BY <2>2 DEF Login, Addressed
  <2>3. ASSUME NEW t \in Workers, NEW p \in Players, Move(t, p)
        PROVE  Schedule!Next \/ UNCHANGED Turn
    BY <2>3 DEF Move, Addressed, Relocate
  <2>4. ASSUME NEW t \in Workers, NEW p \in Players, Teleport(t, p)
        PROVE  Schedule!Next \/ UNCHANGED Turn
    BY <2>4 DEF Teleport, Addressed, Relocate
  <2>5. ASSUME NEW t \in Workers, NEW p \in Players, NEW n \in Npcs, KillNpc(t, p, n)
        PROVE  Schedule!Next \/ UNCHANGED Turn
    BY <2>5 DEF KillNpc, Addressed
  <2>6. ASSUME NEW p \in Players, Disconnect(p)
        PROVE  Schedule!Next \/ UNCHANGED Turn
    BY <2>6 DEF Disconnect
  <2>7. ASSUME NEW t \in Threads, NEW n \in Npcs, LoginLook(t, n)
        PROVE  Schedule!Next \/ UNCHANGED Turn
    BY <2>7 DEF LoginLook
  <2>8. ASSUME NEW t \in Threads, NEW n \in Npcs, ScanLook(t, n)
        PROVE  Schedule!Next \/ UNCHANGED Turn
    BY <2>8 DEF ScanLook
  <2>9. ASSUME NEW t \in Threads, ScanDone(t)
        PROVE  Schedule!Next \/ UNCHANGED Turn
    BY <2>9 DEF ScanDone
  <2>10. ASSUME NEW t \in Threads, NEW n \in Npcs, WakeUpNPC(t, n)
        PROVE  Schedule!Next \/ UNCHANGED Turn
    BY <2>10 DEF WakeUpNPC
  <2>11. ASSUME NEW t \in Threads, AlreadyActive(t)
        PROVE  Schedule!Next \/ UNCHANGED Turn
    BY <2>11 DEF AlreadyActive, Return
  <2>12. ASSUME NEW t \in Threads, NotActive(t)
        PROVE  Schedule!Next \/ UNCHANGED Turn
    BY <2>12 DEF NotActive
  <2>13. ASSUME NEW t \in Threads, CasFails(t)
        PROVE  Schedule!Next \/ UNCHANGED Turn
    BY <2>13 DEF CasFails, Return
  <2>14. ASSUME NEW t \in Threads, CasSucceeds(t)
        PROVE  Schedule!Next \/ UNCHANGED Turn
    <3>. HIDE DEF Turn, Base
    <3>. QED BY <2>14, CasIsWake
  <2>15. ASSUME NEW t \in Threads, PushEvent(t)
        PROVE  Schedule!Next \/ UNCHANGED Turn
    BY <2>15 DEF PushEvent, Return
  <2>16. ASSUME NEW t \in Threads, WakeDone(t)
        PROVE  Schedule!Next \/ UNCHANGED Turn
    BY <2>16 DEF WakeDone
  <2>17. ASSUME NEW n \in Npcs, TimerFires(n)
        PROVE  Schedule!Next \/ UNCHANGED Turn
    BY <2>17 DEF TimerFires
  <2>18. ASSUME NEW t \in Workers, NEW n \in Npcs, TakeNpcMove(t, n)
        PROVE  Schedule!Next \/ UNCHANGED Turn
    <3>. HIDE DEF Turn, Base
    <3>. QED BY <2>18, TakeIsRun
  <2>19. ASSUME NEW t \in Threads, NEW p \in Players, LookAt(t, p)
        PROVE  Schedule!Next \/ UNCHANGED Turn
    BY <2>19 DEF LookAt
  <2>20. ASSUME NEW t \in Threads, FallAsleep(t)
        PROVE  Schedule!Next \/ UNCHANGED Turn
    <3>. HIDE DEF Turn, Base
    <3>. QED BY <2>20, FallAsleepIsSleep
  <2>21. ASSUME NEW t \in Threads, RandomStep(t)
        PROVE  Schedule!Next \/ UNCHANGED Turn
    BY <2>21 DEF RandomStep
  <2>22. ASSUME NEW t \in Threads, AttackTarget(t)
        PROVE  Schedule!Next \/ UNCHANGED Turn
    BY <2>22 DEF AttackTarget
  <2>23. ASSUME NEW t \in Threads, KillTarget(t)
        PROVE  Schedule!Next \/ UNCHANGED Turn
    BY <2>23 DEF KillTarget, Relocate, Victim
  <2>24. ASSUME NEW t \in Threads, Requeue(t)
        PROVE  Schedule!Next \/ UNCHANGED Turn
    <3>. HIDE DEF Turn, Base
    <3>. QED BY <2>24, RequeueIsAgain
  <2>25. CASE UNCHANGED vars
    BY <2>25 DEF vars
  <2>. QED
    BY <2>1, <2>2, <2>3, <2>4, <2>5, <2>6, <2>7, <2>8, <2>9, <2>10, <2>11, <2>12, <2>13, <2>14, <2>15, <2>16, <2>17, <2>18, <2>19, <2>20, <2>21, <2>22, <2>23, <2>24, <2>25 DEF Next, Arrive, WakeStep, NpcStep
<1>. QED
  BY <1>1, <1>2, BaseInvariant, TokenUnique, PTL
     DEF Spec, KeepsSchedule, Schedule!Safety
=============================================================================
