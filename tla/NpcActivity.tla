---------------------------- MODULE NpcActivity ----------------------------
(***************************************************************************)
(* The life of a monster in MMoRPGServer.cpp.  Around 200000 NPCs exist    *)
(* and only those next to a player may cost anything: WakeUpNPC sets the   *)
(* flag _is_active of an NPC and gives it a timer event; do_timer turns    *)
(* the event into an OP_NPC_MOVE completion; the worker that dequeues it   *)
(* looks for a player who sees the NPC and either moves the NPC and queues *)
(* its next event, or clears the flag.                                     *)
(*                                                                         *)
(* Actors: the worker threads (packets and OP_NPC_MOVE), the database      *)
(* thread (logins) and the timer thread.  A thread's code is cut into one  *)
(* step per access to data another thread may change.  Positions are       *)
(* abstract places; See is can_see and Found says whether the search over  *)
(* the own sector and three neighbours finds somebody (SectorGrid works    *)
(* out both on the real grid).  No handler of a packet asks for the state  *)
(* of its slot: a client moves and wakes NPCs before its login is          *)
(* answered, and what is left in a buffer is handled after the slot has    *)
(* become free.  Hit points are left out: an attack may or may not kill.   *)
(* OP_AI_HELLO completions are left out: no case of the worker's switch    *)
(* handles them.                                                           *)
(***************************************************************************)
EXTENDS Naturals

CONSTANTS
  Players,    \* slots 0 .. MAX_USER-1 of the array clients
  Npcs,       \* slots MAX_USER .. MAX_USER+MAX_NPC-1
  Workers,    \* threads that run worker_thread
  Db,         \* the thread that runs ConnectDataBase
  Slot0,      \* the player in slot 0: what a zeroed m_ai_target_obj names
  Places,     \* positions
  Home,       \* where a slot stands between accept and login: (0, 0)
  See,        \* pairs of places within VIEW_RANGE of each other
  Found,      \* pairs for which the sector search finds the other one
  Reach,      \* <<npc, player>> places at which the NPC's attack hits
  Adjacent,   \* <<from, to>> for one random step or one CS_MOVE
  NoPlayer, NoNpc

Threads == Workers \cup {Db}

ASSUME ConstantsAssumption ==
  /\ Slot0 \in Players /\ Home \in Places
  /\ NoPlayer \notin Players /\ NoNpc \notin Npcs
  /\ Db \notin Workers /\ Players \cap Npcs = {}
  /\ Found \subseteq See /\ See \subseteq Places \X Places
  /\ Reach \subseteq See /\ Adjacent \subseteq Places \X Places

VARIABLES
  state,      \* m_state of each player slot ("unused": ST_FREE since the start)
  pos,        \* m_x, m_y of players and NPCs
  active,     \* _is_active
  target,     \* m_ai_target_obj (NoPlayer: the zero it starts with)
  timer,      \* number of EV_RANDOM_MOVE events of the NPC in timer_queue
  iocp,       \* number of OP_NPC_MOVE completions of the NPC in the port
  pc,         \* where each thread is
  npc,        \* the NPC whose OP_NPC_MOVE the thread is processing
  ply,        \* the player whose surroundings the thread is updating
  todo,       \* objects the running loop has not looked at yet
  seen,       \* new_vl: NPCs the loop found and has still to wake
  cur         \* npc_id of the WakeUpNPC call in progress

world == <<state, pos>>
tokens == <<active, target, timer, iocp>>
locals == <<npc, ply, todo, seen, cur>>
vars == <<state, pos, active, target, timer, iocp, pc, npc, ply, todo, seen, cur>>

Pcs == {"idle", "look", "move", "requeue",
        "scan", "login", "wake", "check", "cas", "push"}

TypeOK ==
  /\ state \in [Players -> {"unused", "ALLOC", "INGAME", "FREE"}]
  /\ pos \in [Players \cup Npcs -> Places]
  /\ active \in [Npcs -> BOOLEAN]
  /\ target \in [Npcs -> Players \cup {NoPlayer}]
  /\ timer \in [Npcs -> Nat] /\ iocp \in [Npcs -> Nat]
  /\ pc \in [Threads -> Pcs]
  /\ npc \in [Threads -> Npcs \cup {NoNpc}]
  /\ ply \in [Threads -> Players \cup {NoPlayer}]
  /\ todo \in [Threads -> SUBSET (Players \cup Npcs)]
  /\ seen \in [Threads -> SUBSET Npcs]
  /\ cur \in [Threads -> Npcs \cup {NoNpc}]

Init ==
  /\ state = [p \in Players |-> "unused"]
  /\ pos \in {f \in [Players \cup Npcs -> Places] : \A p \in Players : f[p] = Home}
  /\ active = [n \in Npcs |-> FALSE]
  /\ target = [n \in Npcs |-> NoPlayer]
  /\ timer = [n \in Npcs |-> 0] /\ iocp = [n \in Npcs |-> 0]
  /\ pc = [t \in Threads |-> "idle"]
  /\ npc = [t \in Threads |-> NoNpc] /\ ply = [t \in Threads |-> NoPlayer]
  /\ todo = [t \in Threads |-> {}] /\ seen = [t \in Threads |-> {}]
  /\ cur = [t \in Threads |-> NoNpc]

Goto(t, l) == pc' = [pc EXCEPT ![t] = l]

\* Nothing keeps two threads from updating the surroundings of one player: the
\* database thread is still in the login loop when the first packet comes, an
\* NPC kills the player while a packet is handled, and after a disconnection
\* the next session of the slot arms a WSARecv of its own.
-----------------------------------------------------------------------------
(* Players: connection, login (database thread, or the worker for an       *)
(* all-digit id), packets, disconnection.                                  *)

\* OP_ACCEPT gives a free slot to a connection.
Accept(t, p) ==
  /\ pc[t] = "idle" /\ state[p] \in {"unused", "FREE"}
  /\ state' = [state EXCEPT ![p] = "ALLOC"]
  /\ pos' = [pos EXCEPT ![p] = Home]
  /\ UNCHANGED <<tokens, pc, locals>>

\* A packet, or a query queued for one, is handled whatever the slot's state:
\* it is only certain that a client once had the slot.
Addressed(t, p) == pc[t] = "idle" /\ state[p] # "unused"

\* The player appears at a place and the thread starts its loop over clients.
\* Nobody asks whether the slot is in the game already or free again.
Login(t, p) ==
  /\ Addressed(t, p)
  /\ \E l \in Places : pos' = [pos EXCEPT ![p] = l]
  /\ state' = [state EXCEPT ![p] = "INGAME"]
  /\ ply' = [ply EXCEPT ![t] = p]
  /\ todo' = [todo EXCEPT ![t] = Npcs]
  /\ Goto(t, "login")
  /\ UNCHANGED <<tokens, npc, seen, cur>>

\* One round of that loop: an NPC that is seen is woken at once.
LoginLook(t, n) ==
  /\ pc[t] = "login" /\ n \in todo[t]
  /\ todo' = [todo EXCEPT ![t] = @ \ {n}]
  /\ seen' = [seen EXCEPT ![t] = {m \in {n} : <<pos[ply[t]], pos[m]>> \in See}]
  /\ Goto(t, "wake")
  /\ UNCHANGED <<world, tokens, npc, ply, cur>>

\* A player is put at place l and its surroundings are looked up.
Relocate(t, p, l) ==
  /\ pos' = [pos EXCEPT ![p] = l]
  /\ ply' = [ply EXCEPT ![t] = p]
  /\ todo' = [todo EXCEPT ![t] = Npcs]
  /\ Goto(t, "scan")

\* CS_MOVE: one tile, or none at the border of the map.
Move(t, p) ==
  /\ Addressed(t, p)
  /\ \E l \in Places : <<pos[p], l>> \in Adjacent /\ Relocate(t, p, l)
  /\ UNCHANGED <<state, tokens, npc, seen, cur>>

\* CS_TELEPORT: any tile.
Teleport(t, p) ==
  /\ Addressed(t, p)
  /\ \E l \in Places : Relocate(t, p, l)
  /\ UNCHANGED <<state, tokens, npc, seen, cur>>

\* CS_ATTACK that kills: the NPC reappears elsewhere.  Nobody is woken.
KillNpc(t, p, n) ==
  /\ Addressed(t, p) /\ <<pos[n], pos[p]>> \in Reach
  /\ \E l \in Places : pos' = [pos EXCEPT ![n] = l]
  /\ UNCHANGED <<state, tokens, pc, locals>>

\* disconnect; the lists of other threads still name the slot.
Disconnect(p) ==
  /\ state[p] \in {"ALLOC", "INGAME"}
  /\ state' = [state EXCEPT ![p] = "FREE"]
  /\ UNCHANGED <<pos, tokens, pc, locals>>

\* The loop over the searched sectors that builds new_vl.
ScanLook(t, n) ==
  /\ pc[t] = "scan" /\ n \in todo[t]
  /\ todo' = [todo EXCEPT ![t] = @ \ {n}]
  /\ seen' = [seen EXCEPT ![t] =
                IF <<pos[ply[t]], pos[n]>> \in Found THEN @ \cup {n} ELSE @]
  /\ UNCHANGED <<world, tokens, pc, npc, ply, cur>>

ScanDone(t) ==
  /\ pc[t] = "scan" /\ todo[t] = {}
  /\ Goto(t, "wake")
  /\ UNCHANGED <<world, tokens, locals>>
-----------------------------------------------------------------------------
(* WakeUpNPC(n, ply[t]) for each n in seen[t].                             *)

\* Mutant: an NPC that is asleep gets its target only after its activation.
WakeUpTargetLate(t, n) ==
  /\ pc[t] = "wake" /\ n \in seen[t]
  /\ seen' = [seen EXCEPT ![t] = @ \ {n}]
  /\ target' = IF active[n] THEN [target EXCEPT ![n] = ply[t]] ELSE target
  /\ cur' = [cur EXCEPT ![t] = n]
  /\ Goto(t, "check")
  /\ UNCHANGED <<world, active, timer, iocp, npc, ply, todo>>

\* m_ai_target_obj is written before the flag is looked at.
WakeUpNPC(t, n) ==
  /\ pc[t] = "wake" /\ n \in seen[t]
  /\ seen' = [seen EXCEPT ![t] = @ \ {n}]
  /\ target' = [target EXCEPT ![n] = ply[t]]
  /\ cur' = [cur EXCEPT ![t] = n]
  /\ Goto(t, "check")
  /\ UNCHANGED <<world, active, timer, iocp, npc, ply, todo>>

\* WakeUpNPC returns to the loop over new_vl.
Return(t) == cur' = [cur EXCEPT ![t] = NoNpc] /\ Goto(t, "wake")

AlreadyActive(t) ==
  /\ pc[t] = "check" /\ active[cur[t]]
  /\ Return(t)
  /\ UNCHANGED <<world, tokens, npc, ply, todo, seen>>

NotActive(t) ==
  /\ pc[t] = "check" /\ ~active[cur[t]]
  /\ Goto(t, "cas")
  /\ UNCHANGED <<world, tokens, locals>>

CasFails(t) ==
  /\ pc[t] = "cas" /\ active[cur[t]]
  /\ Return(t)
  /\ UNCHANGED <<world, tokens, npc, ply, todo, seen>>

\* Mutant: the result of the CAS is not looked at.
CasIgnored(t) ==
  /\ pc[t] = "cas"
  /\ active' = [active EXCEPT ![cur[t]] = TRUE]
  /\ Goto(t, "push")
  /\ UNCHANGED <<world, target, timer, iocp, locals>>

CasSucceeds(t) ==
  /\ pc[t] = "cas" /\ ~active[cur[t]]
  /\ active' = [active EXCEPT ![cur[t]] = TRUE]
  /\ Goto(t, "push")
  /\ UNCHANGED <<world, target, timer, iocp, locals>>

PushEvent(t) ==
  /\ pc[t] = "push"
  /\ timer' = [timer EXCEPT ![cur[t]] = @ + 1]
  /\ Return(t)
  /\ UNCHANGED <<world, active, target, iocp, npc, ply, todo, seen>>

\* Every visible NPC is woken: on with the login loop, back to the NPC move
\* this was part of, or done.
WakeDone(t) ==
  /\ pc[t] = "wake" /\ seen[t] = {}
  /\ \/ todo[t] # {} /\ Goto(t, "login") /\ UNCHANGED ply
     \/ /\ todo[t] = {}
        /\ ply' = [ply EXCEPT ![t] = NoPlayer]
        /\ Goto(t, IF npc[t] = NoNpc THEN "idle" ELSE "requeue")
  /\ UNCHANGED <<world, tokens, npc, todo, seen, cur>>
-----------------------------------------------------------------------------
(* The timer thread and the handler of OP_NPC_MOVE.                        *)

\* Mutant: the result of try_pop is not looked at.
TimerFiresAnyway(n) ==
  /\ timer' = [timer EXCEPT ![n] = @ - 1]
  /\ iocp' = [iocp EXCEPT ![n] = @ + 1]
  /\ UNCHANGED <<world, active, target, pc, locals>>

\* do_timer pops a due event and posts the completion.  An event that is not
\* due goes back as it was.
TimerFires(n) ==
  /\ timer[n] > 0
  /\ timer' = [timer EXCEPT ![n] = @ - 1]
  /\ iocp' = [iocp EXCEPT ![n] = @ + 1]
  /\ UNCHANGED <<world, active, target, pc, locals>>

\* Mutant: the flag is cleared when the turn starts.
TakeAndClear(t, n) ==
  /\ pc[t] = "idle" /\ iocp[n] > 0
  /\ iocp' = [iocp EXCEPT ![n] = @ - 1]
  /\ active' = [active EXCEPT ![n] = FALSE]
  /\ npc' = [npc EXCEPT ![t] = n]
  /\ todo' = [todo EXCEPT ![t] = Players]
  /\ Goto(t, "look")
  /\ UNCHANGED <<world, target, timer, ply, seen, cur>>

TakeNpcMove(t, n) ==
  /\ pc[t] = "idle" /\ iocp[n] > 0
  /\ iocp' = [iocp EXCEPT ![n] = @ - 1]
  /\ npc' = [npc EXCEPT ![t] = n]
  /\ todo' = [todo EXCEPT ![t] = Players]
  /\ Goto(t, "look")
  /\ UNCHANGED <<world, active, target, timer, ply, seen, cur>>

\* Mutant: can_see is not asked.
LookAtAnyone(t, p) ==
  /\ pc[t] = "look" /\ p \in todo[t]
  /\ IF state[p] = "INGAME"
     THEN todo' = [todo EXCEPT ![t] = {}] /\ Goto(t, "move")
     ELSE todo' = [todo EXCEPT ![t] = @ \ {p}] /\ UNCHANGED pc
  /\ UNCHANGED <<world, tokens, npc, ply, seen, cur>>

\* One object of the searched sectors: a player in the game who sees the NPC
\* sets keep_alive, which no later object can take back.
LookAt(t, p) ==
  /\ pc[t] = "look" /\ p \in todo[t]
  /\ IF state[p] = "INGAME" /\ <<pos[npc[t]], pos[p]>> \in Found
     THEN todo' = [todo EXCEPT ![t] = {}] /\ Goto(t, "move")
     ELSE todo' = [todo EXCEPT ![t] = @ \ {p}] /\ UNCHANGED pc
  /\ UNCHANGED <<world, tokens, npc, ply, seen, cur>>

\* keep_alive stayed false.
FallAsleep(t) ==
  /\ pc[t] = "look" /\ todo[t] = {}
  /\ active' = [active EXCEPT ![npc[t]] = FALSE]
  /\ npc' = [npc EXCEPT ![t] = NoNpc]
  /\ Goto(t, "idle")
  /\ UNCHANGED <<world, target, timer, iocp, ply, todo, seen, cur>>

\* do_npc_random_move.  The target's position alone decides on an attack: the
\* state of its slot is not looked at, nor whether anybody chose a target.
Victim(n) == IF target[n] = NoPlayer THEN Slot0 ELSE target[n]
Attacks(n) == <<pos[n], pos[Victim(n)]>> \in Reach

RandomStep(t) ==
  /\ pc[t] = "move" /\ ~Attacks(npc[t])
  /\ \E l \in Places : /\ <<pos[npc[t]], l>> \in Adjacent
                       /\ pos' = [pos EXCEPT ![npc[t]] = l]
  /\ Goto(t, "requeue")
  /\ UNCHANGED <<state, tokens, locals>>

AttackTarget(t) ==
  /\ pc[t] = "move" /\ Attacks(npc[t])
  /\ Goto(t, "requeue")
  /\ UNCHANGED <<world, tokens, locals>>

\* The target dies and reappears elsewhere: its surroundings are woken.
KillTarget(t) ==
  /\ pc[t] = "move" /\ Attacks(npc[t])
  /\ \E l \in Places : Relocate(t, Victim(npc[t]), l)
  /\ UNCHANGED <<state, tokens, npc, seen, cur>>

\* Mutant: no event for the next turn.
RequeueForgotten(t) ==
  /\ pc[t] = "requeue"
  /\ npc' = [npc EXCEPT ![t] = NoNpc]
  /\ Goto(t, "idle")
  /\ UNCHANGED <<world, tokens, ply, todo, seen, cur>>

Requeue(t) ==
  /\ pc[t] = "requeue"
  /\ timer' = [timer EXCEPT ![npc[t]] = @ + 1]
  /\ npc' = [npc EXCEPT ![t] = NoNpc]
  /\ Goto(t, "idle")
  /\ UNCHANGED <<world, active, target, iocp, ply, todo, seen, cur>>
-----------------------------------------------------------------------------
\* Starting a job: the environment decides when packets and logins come.
Arrive ==
  \/ \E t \in Workers, p \in Players : Accept(t, p)
  \/ \E t \in Threads, p \in Players : Login(t, p)
  \/ \E t \in Workers, p \in Players : Move(t, p)
  \/ \E t \in Workers, p \in Players : Teleport(t, p)
  \/ \E t \in Workers, p \in Players, n \in Npcs : KillNpc(t, p, n)
  \/ \E p \in Players : Disconnect(p)

WakeStep(t) ==
  \/ \E n \in Npcs : LoginLook(t, n)
  \/ \E n \in Npcs : ScanLook(t, n)
  \/ ScanDone(t)
  \/ \E n \in Npcs : WakeUpNPC(t, n)
  \/ AlreadyActive(t)
  \/ NotActive(t)
  \/ CasFails(t)
  \/ CasSucceeds(t)
  \/ PushEvent(t)
  \/ WakeDone(t)

NpcStep(t) ==
  \/ \E p \in Players : LookAt(t, p)
  \/ FallAsleep(t)
  \/ RandomStep(t)
  \/ AttackTarget(t)
  \/ KillTarget(t)
  \/ Requeue(t)

Next ==
  \/ Arrive
  \/ \E t \in Threads : WakeStep(t) \/ NpcStep(t)
  \/ \E n \in Npcs : TimerFires(n)
  \/ \E t \in Workers, n \in Npcs : TakeNpcMove(t, n)

\* A thread that has work runs (the scheduler of the operating system), the
\* timer loop reaches every event (the queue is ordered by time, so only
\* finitely many events come before one) and the completion port is a queue:
\* a completion is not passed over for ever although workers are busy again
\* and again.  Players need not do anything.
Fairness ==
  /\ \A t \in Threads : WF_vars(WakeStep(t) \/ NpcStep(t))
  /\ \A n \in Npcs : WF_vars(TimerFires(n))
  /\ \A n \in Npcs : SF_vars(\E t \in Workers : TakeNpcMove(t, n))

Spec == Init /\ [][Next]_vars
FairSpec == Spec /\ Fairness
-----------------------------------------------------------------------------
(* Properties.  The right to move an NPC is a token that is a timer event, *)
(* a completion, a thread in the handler of OP_NPC_MOVE, or a thread       *)
(* between the CAS and the push in WakeUpNPC.                              *)

Moves(t, n) == npc[t] = n
Wakes(t, n) == pc[t] = "push" /\ cur[t] = n

\* Nobody duplicates or loses the token although flag, timer queue and
\* completion port are three structures without a common lock: an NPC has one
\* token while _is_active is set and none while it is clear.
OneTokenOf(n) ==
  /\ timer[n] + iocp[n] <= 1
  /\ \A t, u \in Threads : Moves(t, n) /\ Moves(u, n) => t = u
  /\ \A t, u \in Threads : Wakes(t, n) /\ Wakes(u, n) => t = u
  /\ \A t, u \in Threads : ~(Moves(t, n) /\ Wakes(u, n))
  /\ (\E t \in Threads : Moves(t, n) \/ Wakes(t, n)) => timer[n] + iocp[n] = 0
  /\ active[n] <=> \/ timer[n] + iocp[n] = 1
                  \/ \E t \in Threads : Moves(t, n) \/ Wakes(t, n)

OneToken == \A n \in Npcs : OneTokenOf(n)

\* do_npc_random_move strikes whoever m_ai_target_obj names, and the zero the
\* field starts with names slot 0: an NPC that may move must have been set upon
\* somebody (WakeUpNPC writes the target before it looks at the flag, and it may
\* be another thread's CAS that then activates the NPC).
TargetIsChosen ==
  \A n \in Npcs : active[n] => target[n] # NoPlayer

\* Where an NPC stands in the abstract schedule.
Turn == [n \in Npcs |->
           IF \E t \in Threads : Moves(t, n) THEN "running"
           ELSE IF active[n] THEN "queued" ELSE "asleep"]

Schedule == INSTANCE NpcSchedule WITH turn <- Turn

\* The flag, the timer and the completion port implement the schedule: one
\* thread at a time moves an NPC, and it is put to sleep or queued, never both
\* and never dropped.
KeepsSchedule == Schedule!Safety

\* Every wake-up that activates an NPC leads to a turn, and turns end.
TurnsComeAndEnd == Schedule!Liveness

Visible(n) ==
  \E p \in Players : state[p] = "INGAME" /\ <<pos[p], pos[n]>> \in See

\* Nobody updates the surroundings of a slot that is not in the game.  The code
\* does so when a client moves before its login, or again and again while the
\* login is never answered, and when an NPC kills a player who has left.
OnlyPlayersAct ==
  \A t \in Threads, p \in Players : ply[t] = p => state[p] = "INGAME"

\* An NPC that no player sees any more goes back to sleep for good, whatever
\* wake-ups were still under way: it is what makes 200000 NPCs affordable.  A
\* client that never gets into the game can keep an NPC awake, which is why the
\* premise has its second half.
UnseenFallsAsleep ==
  \A n \in Npcs : <>[](~Visible(n) /\ OnlyPlayersAct) => <>[] ~active[n]

\* SESSION.h says of _is_active: is there a player around?  An NPC next to
\* whom a player stays must in the end be active.
WatchedIsActive ==
  \A n \in Npcs : Visible(n) ~> (active[n] \/ ~Visible(n))
=============================================================================
