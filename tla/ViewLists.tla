----------------------------- MODULE ViewLists -----------------------------
(***************************************************************************)
(* Who knows of whom.  Each object of the array clients has a view list;   *)
(* each player's client keeps the objects it was told of in the map        *)
(* players.  A handler that changes where an object is copies its list,    *)
(* searches the surroundings for a new one, sends packets for the          *)
(* differences, corrects the lists of the players it meets and leaves, and *)
(* overwrites its own list.  Logging in and leaving send packets too, but  *)
(* touch no list.  NPCs have lists, but do not enter themselves into those *)
(* of players.                                                             *)
(*                                                                         *)
(* These handlers run on several threads, in steps that interleave; what   *)
(* touches no list and loops over nothing but a copy is one step.  A       *)
(* connection is a FIFO (ServerStream) and nothing a client shows comes    *)
(* back to the server: screen is what a client shows once it has handled   *)
(* everything sent so far.  Packets to an NPC (its slot has no socket) and *)
(* WakeUpNPC change nothing here.                                          *)
(*                                                                         *)
(* Handlers that overlap do leave lists and screens wrong (README, section *)
(* 8).  The history variables record which pairs of players were, since    *)
(* they were last put right, touched by handlers one after the other.      *)
(***************************************************************************)
EXTENDS Naturals

CONSTANTS
  Players, Npcs, Threads,
  Places,
  Origin,       \* where an accepted connection stands before it logs in
  See,          \* can_see: pairs of places
  Found,        \* what the search over four sectors is sure to find of it
  Adjacent,     \* <<from, to>> for one step
  Blow,         \* <<player, npc>>: the player may be facing the NPC in reach
  Bite,         \* <<npc, player>>: the same for the NPC
  Slot0,        \* whose id is what g_myid is before a login, if among Players
  NoOne

Objects == Players \cup Npcs

ASSUME ViewAssumption ==
  /\ Players \cap Npcs = {} /\ NoOne \notin Objects
  /\ Origin \in Places
  /\ Found \subseteq See /\ See \subseteq Places \X Places
  /\ \A a, b \in Places : <<a, b>> \in See => <<b, a>> \in See

VARIABLES
  state,     \* m_state of a player's slot
  pos,       \* m_x, m_y
  view,      \* m_view_list
  screen,    \* screen[p][o]: the entry for o in the map players of p's client
  pc,        \* where each thread is in its handler,
  who,       \* the object it handles,
  kind,      \* and why
  old, new,  \* old_vl and new_vl,
  todo,      \* what the running loop has still to do
  lost,      \* players two threads have moved at once: their sector is unknown
  crossed,   \* objects whose handlers have overlapped the thread's
  mutual, placed, shown   \* history: pairs of players known to be in order

slots == <<state, pos, view>>
local == <<who, kind, old, new>>
history == <<lost, mutual, placed, shown>>
vars == <<state, pos, view, screen, pc, who, kind, old, new, todo,
          lost, crossed, mutual, placed, shown>>

\* An entry is absent; made by a lookup players[id] without having got textures and
\* a name, so that nothing is drawn for it; or complete.
Entries == {"absent", "blank", "full"}
Kinds == {"none", "move", "teleport", "death", "login", "leave"}
Pairs == {S \in SUBSET Players : \E p, q \in Players : p # q /\ S = {p, q}}

TypeOK ==
  /\ state \in [Players -> {"unused", "ALLOC", "INGAME", "FREE"}]
  /\ pos \in [Objects -> Places]
  /\ view \in [Objects -> SUBSET Objects]
  /\ screen \in [Players -> [Objects -> Entries]]
  /\ pc \in [Threads -> {"idle", "copy", "scan", "announce", "withdraw",
                         "greet", "part"}]
  /\ who \in [Threads -> Objects \cup {NoOne}] /\ kind \in [Threads -> Kinds]
  /\ old \in [Threads -> SUBSET Objects] /\ new \in [Threads -> SUBSET Objects]
  /\ todo \in [Threads -> SUBSET Objects]
  /\ lost \subseteq Players /\ crossed \in [Threads -> SUBSET Objects]
  /\ mutual \subseteq Pairs /\ placed \subseteq mutual /\ shown \subseteq placed

Init ==
  /\ state = [p \in Players |-> "unused"]
  /\ pos \in [Objects -> Places] /\ \A p \in Players : pos[p] = Origin
  /\ view = [o \in Objects |-> {}]
  /\ screen = [p \in Players |-> [o \in Objects |-> "absent"]]
  /\ pc = [t \in Threads |-> "idle"] /\ who = [t \in Threads |-> NoOne]
  /\ kind = [t \in Threads |-> "none"]
  /\ old = [t \in Threads |-> {}] /\ new = [t \in Threads |-> {}]
  /\ todo = [t \in Threads |-> {}]
  /\ lost = {} /\ crossed = [t \in Threads |-> {}]
  /\ mutual = Pairs /\ placed = Pairs /\ shown = Pairs

Connected(p) == state[p] \in {"ALLOC", "INGAME"}
Playing(o) == o \in Npcs \/ state[o] = "INGAME"
InSight(a, b) == <<pos[a], pos[b]>> \in See
Busy(o) == \E t \in Threads : who[t] = o
-----------------------------------------------------------------------------
(* ProcessPacket of the client, as a change of one entry.  Packets "add",  *)
(* "move", "remove" or, with a chat, an attack or a state, "tell".         *)

\* What a packet makes of the entry of its object; players[id] makes one if there
\* is none.
Entry(packet, e) ==
  CASE packet = "add" -> "full"
    [] packet = "remove" -> "absent"
    [] OTHER -> IF e = "absent" THEN "blank" ELSE e

\* Every client in S handles a packet about each object of O.  Packets about itself
\* are for its avatar, and so are before its login those about slot 0, but that a
\* move makes the entry all the same; closed sockets take none.
Handle(scr, S, O, packet) ==
  [p \in Players |-> [o \in Objects |->
     IF /\ p \in S /\ o \in O /\ o # p /\ Connected(p)
        /\ state[p] = "ALLOC" /\ o = Slot0 => packet = "move"
     THEN Entry(packet, scr[p][o]) ELSE scr[p][o]]]

Send(S, O, packet) == Handle(screen, S, O, packet)
-----------------------------------------------------------------------------
(* Bookkeeping of what overlaps.                                           *)

PairsOf(o, S) == {{o, q} : q \in S \ {o}} \cap Pairs

\* The handler of o begins on thread t.
Begin(t, o, k) ==
  LET Others == {who[s] : s \in Threads} \ {NoOne}
      Broken == PairsOf(o, IF o \in Others THEN Players ELSE Others)
      Unshown == IF k = "login" \/ ~Playing(o) THEN PairsOf(o, Players) ELSE {} IN
  /\ pc[t] = "idle"
  /\ who' = [who EXCEPT ![t] = o]
  /\ kind' = [kind EXCEPT ![t] = k]
  /\ lost' = lost \cup (Others \cap {o} \cap Players)
  /\ crossed' = [s \in Threads |-> IF s = t THEN Others
                                   ELSE IF who[s] = NoOne THEN {}
                                   ELSE crossed[s] \cup {o}]
  /\ mutual' = mutual \ Broken
  /\ placed' = placed \ (Broken \cup IF k = "login" THEN Unshown ELSE {})
  /\ shown' = shown \ (Broken \cup Unshown)

\* The handler of thread t ends.
End(t) ==
  /\ pc' = [pc EXCEPT ![t] = "idle"]
  /\ who' = [who EXCEPT ![t] = NoOne] /\ kind' = [kind EXCEPT ![t] = "none"]
  /\ old' = [old EXCEPT ![t] = {}] /\ new' = [new EXCEPT ![t] = {}]
  /\ todo' = [todo EXCEPT ![t] = {}]
  /\ crossed' = [crossed EXCEPT ![t] = {}]

\* Packets about p are sent by somebody who is not updating p's list.
Mentioned(p) ==
  /\ crossed' = [t \in Threads |-> IF who[t] = p THEN crossed[t] \cup {p} ELSE crossed[t]]
  /\ shown' = IF Busy(p) \/ ~Playing(p) THEN shown \ PairsOf(p, Players) ELSE shown
  /\ UNCHANGED <<lost, mutual, placed>>
-----------------------------------------------------------------------------
(* Handlers of one step.                                                   *)

\* OP_ACCEPT: the view list the slot had stays.
Accept(p) ==
  /\ state[p] \in {"unused", "FREE"}
  /\ state' = [state EXCEPT ![p] = "ALLOC"]
  /\ pos' = [pos EXCEPT ![p] = Origin]
  /\ shown' = shown \ PairsOf(p, Players)
  /\ UNCHANGED <<view, screen, pc, local, todo, lost, crossed, mutual, placed>>

\* The packets of a connection are handled one after the other, logged in or not.
Served(p) ==
  /\ Connected(p)
  /\ \A t \in Threads : ~(who[t] = p /\ kind[t] \in {"move", "teleport"})

Listeners(p) == {q \in view[p] \cap Players : Playing(q) /\ InSight(p, q)}

\* CS_CHAT, or CS_ATTACK that hits nothing.
Speak(p) ==
  /\ Served(p)
  /\ screen' = Send(Listeners(p), {p}, "tell")
  /\ Mentioned(p)
  /\ UNCHANGED <<slots, pc, local, todo>>

CanHit(p, n) == Served(p) /\ n \in view[p] /\ <<pos[p], pos[n]>> \in Blow

\* CS_ATTACK hits an NPC of the list and does not kill it.
HitNpc(p, n) ==
  LET Hearers == {q \in view[p] \cap Players : Playing(q) /\ InSight(n, q)} IN
  /\ CanHit(p, n)
  /\ screen' = Handle(Send(Listeners(p), {p}, "tell"), Hearers \cup {p}, {n}, "tell")
  /\ Mentioned(p)
  /\ UNCHANGED <<slots, pc, local, todo>>

\* CS_ATTACK kills: the NPC disappears for those around and appears elsewhere.
KillNpc(p, n) ==
  /\ CanHit(p, n)
  /\ \E l \in Places :
       LET Near == {q \in Players : Playing(q) /\ <<l, pos[q]>> \in See}
           Gone == {q \in Players : Playing(q) /\ InSight(q, n)} \ Near
           told == Handle(Send(Gone, {n}, "remove"), Near, {n}, "add") IN
       /\ pos' = [pos EXCEPT ![n] = l]
       /\ screen' = Handle(told, view[p], {p}, "tell")
  /\ Mentioned(p)
  /\ UNCHANGED <<state, view, pc, local, todo>>

\* An NPC keeps its target when the player leaves the game.
CanStrike(n, p) == state[p] # "unused" /\ <<pos[n], pos[p]>> \in Bite

\* An NPC hits its target: the whole list of the target is told of both.
NpcHits(n, p) ==
  /\ CanStrike(n, p)
  /\ screen' = Handle(Send(view[p] \cup {p}, {n}, "tell"), view[p], {p}, "tell")
  /\ Mentioned(p)
  /\ UNCHANGED <<slots, pc, local, todo>>
-----------------------------------------------------------------------------
(* Logging in, by the database thread or for a tester, and leaving.        *)

\* The character, the info packet to the client, and the slot is in the game.
Login(t, p) ==
  /\ state[p] = "ALLOC" /\ Begin(t, p, "login")
  /\ \E l \in Places : pos' = [pos EXCEPT ![p] = l]
  /\ state' = [state EXCEPT ![p] = "INGAME"]
  /\ pc' = [pc EXCEPT ![t] = "greet"]
  /\ todo' = [todo EXCEPT ![t] = Objects \ {p}]
  /\ UNCHANGED <<view, screen, old, new>>

\* An object in sight, found by a loop over clients, is told of the newcomer and
\* the newcomer of it; the lists stay as they are.
Greet(t, o) ==
  LET p == who[t] IN
  /\ pc[t] = "greet" /\ o \in todo[t]
  /\ screen' = IF Playing(o) /\ InSight(p, o)
               THEN Handle(Send({o}, {p}, "add"), {p}, {o}, "add") ELSE screen
  /\ todo' = [todo EXCEPT ![t] = @ \ {o}]
  /\ UNCHANGED <<slots, pc, local, history, crossed>>

Greeted(t) ==
  /\ pc[t] = "greet" /\ todo[t] = {}
  /\ End(t)
  /\ UNCHANGED <<slots, screen, history>>

\* disconnect: the list of the slot and its entries in other lists stay.
Leaves(t, p) ==
  /\ Connected(p) /\ Begin(t, p, "leave")
  /\ pc' = [pc EXCEPT ![t] = "part"]
  /\ todo' = [todo EXCEPT ![t] = Players \ {p}]
  /\ UNCHANGED <<slots, screen, old, new>>

PartFrom(t, q) ==
  LET p == who[t] IN
  /\ pc[t] = "part" /\ q \in todo[t]
  /\ screen' = IF Playing(q) /\ InSight(q, p) THEN Send({q}, {p}, "remove") ELSE screen
  /\ todo' = [todo EXCEPT ![t] = @ \ {q}]
  /\ UNCHANGED <<slots, pc, local, history, crossed>>

\* The slot is free; the client's map is gone with the client.
Left(t) ==
  LET p == who[t] IN
  /\ pc[t] = "part" /\ todo[t] = {}
  /\ state' = [state EXCEPT ![p] = "FREE"]
  /\ screen' = [screen EXCEPT ![p] = [o \in Objects |-> "absent"]]
  /\ End(t)
  /\ UNCHANGED <<pos, view, history>>
-----------------------------------------------------------------------------
(* Handlers that update the list of the object they move.                  *)

\* The object stands on l, its client knows, and its list will be brought up to date.
MoveTo(t, o, l, k) ==
  /\ Begin(t, o, k)
  /\ pos' = [pos EXCEPT ![o] = l]
  /\ pc' = [pc EXCEPT ![t] = "copy"]
  /\ UNCHANGED <<state, view, screen, old, new, todo>>

\* CS_MOVE.
Move(t, p) ==
  Served(p) /\ \E l \in Places : <<pos[p], l>> \in Adjacent /\ MoveTo(t, p, l, "move")

\* CS_TELEPORT.
Teleport(t, p) == Served(p) /\ \E l \in Places : MoveTo(t, p, l, "teleport")

\* An NPC kills the player, who reappears elsewhere.
Die(t, n, p) == CanStrike(n, p) /\ \E l \in Places : MoveTo(t, p, l, "death")

\* do_npc_random_move without an attack.
NpcMove(t, n) ==
  ~Busy(n) /\ \E l \in Places : <<pos[n], l>> \in Adjacent /\ MoveTo(t, n, l, "move")

CopyList(t) ==
  /\ pc[t] = "copy"
  /\ old' = [old EXCEPT ![t] = view[who[t]]]
  /\ pc' = [pc EXCEPT ![t] = "scan"]
  /\ UNCHANGED <<slots, screen, who, kind, new, todo, history, crossed>>

\* What the search around o may find: for an NPC only players count.
Around(o) ==
  {x \in Objects \ {o} : /\ Playing(x) /\ InSight(x, o)
                         /\ o \in Npcs => x \in Players}

\* It finds the players that are near.  What is farther off it may find or not,
\* depending on the sectors, where a slot given away again may still have an old entry
\* and a player moved by two threads at once, or an NPC killed as it moves, no right one.
Sure(o) == {x \in Around(o) \cap Players : <<pos[o], pos[x]>> \in Found} \ lost

Scan(t) ==
  /\ pc[t] = "scan"
  /\ \E S \in SUBSET Around(who[t]) :
       /\ Sure(who[t]) \subseteq S
       /\ new' = [new EXCEPT ![t] = S] /\ todo' = [todo EXCEPT ![t] = S]
  /\ pc' = [pc EXCEPT ![t] = "announce"]
  /\ UNCHANGED <<slots, screen, who, kind, old, history, crossed>>

Introduce(scr, t, o) ==
  IF o \in old[t] THEN scr ELSE Handle(scr, {who[t]}, {o}, "add")

Notify(p, q, known) == IF known THEN Send({q}, {p}, "move") ELSE Send({q}, {p}, "add")

\* Mutant: the list of the player met is forgotten.
MeetOneSided(t, q) ==
  LET p == who[t] IN
  /\ pc[t] = "announce" /\ p \in Players /\ q \in todo[t] \cap Players
  /\ screen' = Introduce(Notify(p, q, p \in view[q]), t, q)
  /\ todo' = [todo EXCEPT ![t] = @ \ {q}]
  /\ UNCHANGED <<slots, pc, local, history, crossed>>

\* Mutant: the list is asked after p has been entered.
MeetAskedLate(t, q) ==
  LET p == who[t] IN
  /\ pc[t] = "announce" /\ p \in Players /\ q \in todo[t] \cap Players
  /\ view' = [view EXCEPT ![q] = @ \cup {p}]
  /\ screen' = Introduce(Notify(p, q, TRUE), t, q)
  /\ todo' = [todo EXCEPT ![t] = @ \ {q}]
  /\ UNCHANGED <<state, pos, pc, local, history, crossed>>

\* A player p that moves meets q: q is told that p moves if it knows p and gets
\* to know p if not; p gets to know q if it is new to p.
Meet(t, q) ==
  LET p == who[t] IN
  /\ pc[t] = "announce" /\ p \in Players /\ q \in todo[t] \cap Players
  /\ view' = [view EXCEPT ![q] = @ \cup {p}]
  /\ screen' = Introduce(Notify(p, q, p \in view[q]), t, q)
  /\ todo' = [todo EXCEPT ![t] = @ \ {q}]
  /\ UNCHANGED <<state, pos, pc, local, history, crossed>>

\* An NPC is woken, and shown if it is new.
MeetNpc(t, n) ==
  /\ pc[t] = "announce" /\ who[t] \in Players /\ n \in todo[t] \cap Npcs
  /\ screen' = Introduce(screen, t, n)
  /\ todo' = [todo EXCEPT ![t] = @ \ {n}]
  /\ UNCHANGED <<slots, pc, local, history, crossed>>

\* An NPC that moves meets a player: the list of the player is not consulted.
NpcMeets(t, p) ==
  LET n == who[t] IN
  /\ pc[t] = "announce" /\ n \in Npcs /\ p \in todo[t]
  /\ screen' = Notify(n, p, p \in old[t])
  /\ todo' = [todo EXCEPT ![t] = @ \ {p}]
  /\ UNCHANGED <<slots, pc, local, history, crossed>>

\* Everybody in new_vl is done: on with old_vl.
Met(t) ==
  /\ pc[t] = "announce" /\ todo[t] = {}
  /\ todo' = [todo EXCEPT ![t] = old[t] \ new[t]]
  /\ pc' = [pc EXCEPT ![t] = "withdraw"]
  /\ UNCHANGED <<slots, screen, local, history, crossed>>


\* A player leaves o behind.  A teleport corrects the lists of NPCs, too.
Leave(t, o) ==
  LET p == who[t] IN
  /\ pc[t] = "withdraw" /\ p \in Players /\ o \in todo[t]
  /\ view' = IF o \in Players \/ kind[t] = "teleport"
             THEN [view EXCEPT ![o] = @ \ {p}] ELSE view
  /\ screen' = Handle(Send({p}, {o}, "remove"), {o}, {p}, "remove")
  /\ todo' = [todo EXCEPT ![t] = @ \ {o}]
  /\ UNCHANGED <<state, pos, pc, local, history, crossed>>

\* An NPC leaves a player behind, who is told only if the NPC is in its list.
NpcLeaves(t, p) ==
  LET n == who[t] IN
  /\ pc[t] = "withdraw" /\ n \in Npcs /\ p \in todo[t]
  /\ screen' = IF n \in view[p] THEN Send({p}, {n}, "remove") ELSE screen
  /\ todo' = [todo EXCEPT ![t] = @ \ {p}]
  /\ UNCHANGED <<slots, pc, local, history, crossed>>

\* The players this handler has had to itself: nobody else spoke of its object, and
\* no handler of theirs ran meanwhile.
Undisturbed(t) ==
  LET o == who[t] IN
  IF o \in lost \cup crossed[t] THEN {} ELSE Players \ ({o} \cup lost \cup crossed[t])

\* The pairs it has put right: whom the object met or left is in both lists or in
\* neither; where the lists agree they are up to date; and screens are right if the
\* two were parted, or met and had not known of each other.
PutRight(t) ==
  LET o == who[t]
      U == Undisturbed(t)
      Apart == {q \in U : q \in old[t] \ new[t]}
      Fresh == {q \in U : q \in new[t] \ old[t] /\ {o, q} \in mutual}
      Told == {q \in Apart \cup Fresh : Playing(q) /\ Playing(o)} IN
  /\ mutual' = mutual \cup PairsOf(o, U \cap (old[t] \cup new[t]))
  /\ placed' = placed \cup (PairsOf(o, U) \cap mutual')
  /\ shown' = shown \cup PairsOf(o, Told)
  /\ lost' = lost

\* Mutant: what was inserted meanwhile is kept.
OverwriteKeeps(t) ==
  /\ pc[t] = "withdraw" /\ todo[t] = {}
  /\ view' = [view EXCEPT ![who[t]] = @ \cup new[t]]
  /\ PutRight(t) /\ End(t)
  /\ UNCHANGED <<state, pos, screen>>

Overwrite(t) ==
  /\ pc[t] = "withdraw" /\ todo[t] = {}
  /\ view' = [view EXCEPT ![who[t]] = new[t]]
  /\ PutRight(t) /\ End(t)
  /\ UNCHANGED <<state, pos, screen>>
-----------------------------------------------------------------------------
Brief ==
  \/ \E p \in Players : Accept(p)
  \/ \E p \in Players : Speak(p)
  \/ \E p \in Players, n \in Npcs : HitNpc(p, n)
  \/ \E p \in Players, n \in Npcs : KillNpc(p, n)
  \/ \E p \in Players, n \in Npcs : NpcHits(n, p)

Arrive(t) ==
  \/ \E p \in Players : Login(t, p)
  \/ \E p \in Players : Leaves(t, p)
  \/ \E p \in Players : Move(t, p)
  \/ \E p \in Players : Teleport(t, p)
  \/ \E p \in Players, n \in Npcs : Die(t, n, p)
  \/ \E n \in Npcs : NpcMove(t, n)

Continue(t) ==
  \/ \E o \in Objects : Greet(t, o)
  \/ Greeted(t)
  \/ \E q \in Players : PartFrom(t, q)
  \/ Left(t)
  \/ CopyList(t)
  \/ Scan(t)
  \/ \E q \in Players : Meet(t, q)
  \/ \E n \in Npcs : MeetNpc(t, n)
  \/ \E p \in Players : NpcMeets(t, p)
  \/ Met(t)
  \/ \E o \in Objects : Leave(t, o)
  \/ \E p \in Players : NpcLeaves(t, p)
  \/ Overwrite(t)

Next == Brief \/ \E t \in Threads : Arrive(t) \/ Continue(t)

Spec == Init /\ [][Next]_vars
-----------------------------------------------------------------------------
AtRest(pr) == \A o \in pr : ~Busy(o)
Finds(a, b) == <<pos[a], pos[b]>> \in Found

\* Three handlers write the list of a player: its own moves, the moves of those it
\* meets and of those it leaves.  Two players whose moves have not overlapped, or
\* have since met or parted undisturbed, are in each other's list or not at all,
\* whatever others did and through logins, leaves and new owners of the slots.
ListsMutual ==
  \A p, q \in Players : {p, q} \in mutual /\ AtRest({p, q}) =>
    (q \in view[p] <=> p \in view[q])

\* Nor are the lists then out of date: once one of two players has moved after they
\* logged in, each is listed only if in sight, and surely if each would find the
\* other.
ListsTrue ==
  \A p, q \in Players :
    {p, q} \in placed /\ AtRest({p, q}) /\ Playing(p) /\ Playing(q) =>
      /\ q \in view[p] => InSight(p, q)
      /\ Finds(p, q) /\ Finds(q, p) => q \in view[p]

\* The packets are differences, so one that is missing or too many is never made
\* good.  Still, once two players have met or parted undisturbed, the client of each
\* shows the other if and only if it is listed and has not left, and was never told
\* of it without an introduction, which would leave an entry without a picture.
ScreenFollowsList ==
  \A p, q \in Players : {p, q} \in shown /\ AtRest({p, q}) /\ Playing(p) =>
    screen[p][q] = IF q \in view[p] /\ Playing(q) THEN "full" ELSE "absent"
=============================================================================
