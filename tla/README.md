# A verification project for the PixelHunt server

The repository is a multiplayer game: a Windows I/O-completion-port server
(`src/SERVER/SERVER`), an SFML client (`src/Client/Client`) and a load generator
(`src/STRESS_TEST/STRESS_TEST`).  There are no tests; the server mixes worker
threads, a database thread and a timer thread over one big array `clients` of
players (slots 0 to 9999) and monsters (NPCs, 200000 more), with many small locks
and no order among them.  The specifications here describe that core in TLA+.
TLC checks them on small instances; TLAPS proves the invariants that matter most
for all instances.

Files named below without a directory are in `src/SERVER/SERVER`; plain line
numbers are lines of `MMoRPGServer.cpp`.

## 1. Inventory

| component | state | operations | partners |
|---|---|---|---|
| NPC activation and scheduling | `_is_active`, `m_ai_target_obj`, events in `timer_queue`, completions in the port | `WakeUpNPC`, `EV_RANDOM_MOVE`, `OP_NPC_MOVE`, `do_npc_random_move` | every path that moves a player calls `WakeUpNPC`; timer thread and workers pass the NPC on |
| sector grid | `pSector[].p` under `m`, centres in `pSectorRef`, `m_x`, `m_y` | `GetSectorIndex`, `adjacentSector`, `clipinglist`, `can_see`, `CS_MOVE`, `CS_TELEPORT` | read by every search for objects around |
| combat and progression | `m_hp`, `m_max_hp` under `m_hp_lock`; `m_exp`, `m_level` under `m_exp_lock` | `CS_ATTACK`, the strike in `do_npc_random_move`, `EV_HP_UP` | a kill relocates the NPC, a death the player |
| sessions | `m_state`, `m_socket`, `m_userid`, `m_prev_remain` | `OP_ACCEPT`, `CS_LOGIN`, `disconnect`, failing completions | query queue, timer, view lists |
| database thread | `QueryQueue` under `QueryLock`, name buffers on the heap | `OP_GETINFO`, `OP_SAVEINFO`, `OP_CRAETE_ID` | writes a player's slot and puts it into the game |
| view lists | `m_view_list` under `m_view_lock`; the objects the client was told of | moves, teleports, deaths, NPC moves | `Send_*` packets |
| packet framing | `m_prev_remain`, the receive buffer | `OP_RECV`, `Recv`; `process_data` in the client | TCP |
| timer thread | `timer_queue` | `do_timer` | posts completions, heals players |
| chat record | `SaveMess` | `CS_CHAT`, `saveToFile` | a file |
| own status | `avatar` at the client against `m_hp`, `m_exp`, `m_level`, `m_max_hp` | `Send_Change_State_Packet`, `SC_STAT_CHANGE` | combat, timer |
| map | `layer`, `validnode` | `Load_Map_info` | moves, respawns |
| client | `players`, `avatar`, the window `g_left_x`, `g_top_y`, chat and teleport modes | main loop, `ProcessPacket`, `process_data`, drawing | server packets, `MAP.txt` |
| load generator | `connected`, `active_clients`, `client_to_close` | `Adjust_Number_Of_Client`, `Worker_Thread`, `DisconnectClient` | server |

What makes the code hard: flags and fields read in one step and used in another
(activation, judgement of a blow, duplicate logins); completions keyed by slot
number while slots are reused; a view list copied, compared and overwritten in
three critical sections; a character saved from a slot that may have a new owner;
index arithmetic at the borders of the map.  `PROJECT.json` lists each of these
hazards at its line, with the properties that cover it or the reason why none does.

What makes each component correct:

* *activation*: one pending turn per active NPC, none per sleeping one; turns come;
  unseen NPCs fall asleep, seen ones do not; an NPC that moves was set upon somebody.
* *grid*: the sector sets mirror the positions; a search finds whoever it should.
* *combat*: a kill is earned once, a fall noticed by somebody, hit points and
  experience fit the level although two locks guard them.
* *sessions and database*: a slot belongs to one connection; a name buffer is freed
  once; what is saved is what its user had; a login is answered; a user plays once; and
  where the design does not give these, the mishap that breaks them is one of a few.
* *view lists*: after two players have met or parted undisturbed their lists mirror
  each other and the map, and each client shows whom its player's list holds.
* *status and main loop*: what the client shows of its own player comes to be what
  the server has, whatever overlapped before.
* *load generator*: its counter is exact, a socket is closed once, the load comes
  down when the server is slow, unless the closing thread has overtaken clients.
* *framing*: packets are handled once, in order, whatever the fragments.

## 2. Modules and plan

| module | what it is | theorems |
|---|---|---|
| `NpcSchedule` | abstract: an NPC is asleep, queued or being moved by one thread | |
| `NpcActivity` | flag, timer events, completions, workers; implements `NpcSchedule` | `NpcActivityProofs` |
| `SectorGrid` | grid arithmetic, search, one player's moves | `SectorGridProofs` |
| `Combat` | hit points, experience, levels under two locks | `CombatProofs` |
| `PacketFifo`, `ServerStream`, `ClientStream`, `Connection` | an abstract FIFO, the two reassembly loops that implement it, and both as the two ends of a connection | `StreamProofs` |
| `Sessions` | accept, login, disconnect, query queue, name buffers, database thread | `SessionsProofs` |
| `ViewLists` | view lists at the server and the objects each client shows | `ViewListsProofs` |
| `StressLoad` | connections, counters and threads of the load generator | `StressLoadProofs` |
| `Status` | what a player is told of its own hit points, experience, level | |
| `ClientLoop` | keys, clicks, chat, packets, animation and map window of the client, with the server's answers | `ClientLoopProofs` |

The order was that of risk: activation first, because it is the most intricate protocol
between threads; then what it stands on (grid, combat), the two ends of a connection
(streams, sessions), what a client gets to see (view lists, status, main loop), and the load
generator.  Modules that compose two components: `ViewLists`, `Status` and `ClientLoop` each
contain the server's and the client's half of one conversation; `Connection` puts the two
streams side by side.  `NpcActivity` and the streams are shown to implement an abstract
module.  What one module shows is assumed by others by name: one thread moves an NPC
(`OneToken`), a connection is a FIFO (`ImplementsFifo`), a slot has one worker
(`OneHandler`, until a SEND fails), the search finds only what is in sight (`SearchIsLocal`).

History variables (`early` and `raced` in `Sessions`; `lost`, `crossed`, `mutual`, `placed`
and `shown` in `ViewLists`) record what no variable of the code does.  No action of the
code's depends on them, but for `lost`, which makes a search less reliable (section 8).
They let a property say in which cases the code keeps a promise it does not always keep,
instead of an assumption that would leave the other cases out.

Each component has an `MC...` module with the definitions its `.cfg` files substitute for
constants.  A `.cfg` changes constants only.  What could be added: an account store (a user
plays, a save follows, a load sees it) that `Sessions` implements as long as none of the
mishaps of section 7 happens; sector sets changed by several threads.

Definitions called *mutant* in a comment are deliberately wrong variants of the
definition after them; no specification uses them.  They document which bug each
property catches.

## 3. NpcActivity

**Correspondence.**  A slot of `clients` is a player or an NPC.  `state`, `pos`, `active`,
`target` are `m_state` (a slot is `unused` until it is first accepted), the position,
`_is_active` and `m_ai_target_obj`; `timer[n]` and `iocp[n]` count the `EV_RANDOM_MOVE`
events and `OP_NPC_MOVE` completions of `n`.  Every thread has a position `pc` and the
locals of the function it is in: `npc` (the completion's key), `ply` (the player whose
surroundings are searched), `todo`/`seen` (the running loop and `new_vl`) and `cur` (the
argument of `WakeUpNPC`).

| actions | code |
|---|---|
| `Accept`, `Disconnect` | 511-535, 473-482: the slot is handed out and stands at `Home`; it is free |
| `Login`, `LoginLook` | 190-218, 147-178 and 633-666: into the game, then one NPC after the other |
| `Move`, `Teleport` with `ScanLook`, `ScanDone` | 687-797, 972-1062: relocate, search, wake what was found |
| `KillNpc` | 896-946: the NPC reappears, nobody is woken |
| `WakeUpNPC`, `AlreadyActive`, `NotActive`, `CasFails`, `CasSucceeds`, `PushEvent` | 1129-1144, one step per access |
| `TimerFires` | 1151-1164 |
| `TakeNpcMove`, `LookAt`, `FallAsleep`, `Requeue` | 561-606 |
| `RandomStep`, `AttackTarget`, `KillTarget` | 1197-1450 |

Several threads may update one player at once: the database thread is still in its
loop when the first packet comes, and an NPC may kill a player that is moving.  No
handler of a packet asks for the state of its slot (537-549, 687, 828, 972), so a client
moves, and wakes NPCs, before its login is answered, and what is left of a buffer or of a
queue is handled after the slot is free: `Addressed` asks only for a slot that some client
has had.
Positions are abstract *places*; constants say which are in sight (`See`), found
by the search (`Found`, a subset: `SectorGrid` shows why), within the NPC's reach
and one step apart.

**Runs.**  `npc_activity` has two players, one NPC, one worker, the database and the timer
thread on three places (292 thousand states): two threads can be inside `WakeUpNPC` for the
NPC while a third one is about to handle it, and a completion may wait while the worker
handles a packet.  It checks types, `OneToken`, `TargetIsChosen` (an active NPC does not
still have the zero its target starts with, which names slot 0), that the machinery
implements `NpcSchedule` (`KeepsSchedule`), that queued turns come and end
(`TurnsComeAndEnd`), and that an NPC no player sees falls asleep for good
(`UnseenFallsAsleep`).  The last has a second premise, `OnlyPlayersAct`: a client that is
never logged in and goes on moving keeps the NPCs around it awake although no player is in
the game (without the premise TLC finds this), and an NPC that kills a player who has left
wakes those around the place where it reappears.  Two players and two workers together are
too many for the liveness checks; the safety properties are proved for any number (below),
and more NPCs do not interact: no variable is shared between them.  `npc_lost_wakeup`, with
two workers, is a counterexample: `SESSION.h:51` describes `_is_active` as "is there a
player around?", but a worker that has looked and found nobody clears the flag later, and a
wake-up in between is lost; the NPC then sleeps next to a player who stands still
(`WatchedIsActive`).

**Fairness.**  A thread that has work runs (weak fairness per thread); the timer
loop reaches every event (`timer_queue` is ordered by time, so finitely many come
first); the completion port is a queue, so a completion is not overtaken for ever
although the workers are busy again and again (strong fairness of `TakeNpcMove`).
Players owe nothing: arrivals have no fairness.

**Proofs** (`NpcActivityProofs`, any constants).  `OneToken` is not inductive:
a thread that is idle might hold an NPC.  `PcOK` says what a position implies for
the locals; `Base == TypeOK /\ PcOK` is inductive.  With it `OneToken` is: the three
steps that change the form of the token (`CasToken`, `PushToken`, `TakeToken`) are
lemmas of their own, every other step leaves what `OneTokenOf` depends on alone
(`SameToken`) or passes the token on.  `TargetKnown` needs the extra fact that
a thread before the CAS of `WakeUpNPC` has written the target, which nobody takes
back (`TargetsOK`).  `ImplementsSchedule` maps
`CasSucceeds` to `Wake`, `TakeNpcMove` to `Run`, `Requeue` to `Again`,
`FallAsleep` to `Sleep` and all other steps to stutters.

**Left out.**  `OP_AI_HELLO` completions (`WakeUpNPC` posts them at 1131-1135, no case of the
worker's switch handles them) and failures of `GetQueuedCompletionStatus`.

## 4. SectorGrid

One player at a time walks or teleports on the real arithmetic, scaled down:
sectors of seven tiles instead of fifteen and `VIEW_RANGE` equal to the sector
as in the code, on a map whose last sectors are cut off as those of the
2000 x 2000 map are.  `clipinglist` is a set of outcomes because
equal distances are ordered by a hash set.  The centres the loop at 1497 leaves
unset are arbitrary (`Garbage`).

`sector_grid` starts on every tile (2 050 states).  It shows that the sector set
follows the player (`InItsSector`), that the sector and its eight neighbours contain
everything in sight (`NeighboursCoverView`), that the wrap-around of the index
arithmetic never gets into a clipped search (`SearchIsLocal`), and how far a
clipped search is sure to see: less than half a sector although the view range is a
whole one (`SearchCoversNear`; the mutant with two neighbours sees less, and the
bound cannot be raised).  The last two do not hold next to a sector without a
centre and say so (`Tame`).

The search alone is stateless, so a small map with every kind of border is enough
for one sector size.  It does not stand for the others: the proofs below show where sizes
matter, and the server's (15 tiles, 134 by 134 sectors) are within their hypotheses.

**Proofs** (`SectorGridProofs`, any sizes of map and sector, any obstacles).
`TypeOK`: the player stays on the map, also at the inclusive bound of the random
index 973, for which the proof needs one obstacle (`GridAssumption`): without one
`index == W_WIDTH * W_HEIGHT` would be a tile below the map.  `InItsSector` is
inductive with `TypeOK`.  `NeighboursCoverView` needs
`VIEW_RANGE <= SECTOR_SIZE`: two coordinates at most a sector apart have quotients at
most one apart (`QuotientMonotone`), in either direction (`StripCovered`).

The two properties of the clipped search are consequences of `TypeOK` and of
`CentresKnown` (the centres `main` has set never change).  A sector is described by how
many columns and rows it lies away (`Right`, `Down`) and the player by how far it is off the
middle of its own (`Off`); `Neighbours` says what the index arithmetic can name.

* `SearchIsLocal` on a map of at least four by two sectors.  A sector around the border is
  three columns away or more and its middle farther than that of any of the eight
  around the own (`FarColumn`); three of those always exist (`ThreeAround`), so a
  choice of three that takes the far one leaves out a nearer one.  With three columns it
  is false: TLC finds the counterexample with sectors of six tiles on a map of 18 x 12,
  where a sector around the border is as near as one that touches the own, and the hash
  order decides.
* `SearchCoversNear` with four columns and `SECTOR_SIZE <= 19`.  `Crossing`: who gets into
  the next strip within `Sure` is off the middle on that side.  `TwoNearer`: then at most
  two other sectors are as near as that of the one looked for, so a choice of three has it.
  For a sector at a corner this takes `4a + 2b < 6 Sure + 6 - SECTOR_SIZE` for every `a, b`
  with `a^2 + b^2 <= Sure^2` (`CornerInReach`), which the rounding of integers gives up to
  nineteen tiles.  From twenty on it is false: TLC finds a player at (32, 16) with sectors of
  twenty tiles who misses another within nine tiles of it, because the sector beyond the
  corner is only the fourth nearest.  `SECTOR_SIZE` is a constant that can be edited
  in `stdafx.h`, and the search would get worse without any other sign.

## 5. Combat

**Correspondence.**  `hp`, `maxHp`, `exp`, `level` of players and `npcHp` of NPCs are
the fields; `npcLock` is an NPC's `m_hp_lock`, `expLock` a player's `m_exp_lock`.
A player's `m_hp_lock` protects single updates only and needs no variable.
`LockNpc`, `HitNpc`, `NpcDies`/`NpcSurvives` are 862-867 and 953; `Credit`,
`CountLevel`, `CountDone`, `LevelUp` are 869-885, one round of the `while` per
step because `m_level` is read elsewhere without the lock; `NpcStrikes`, `Spared`,
`Falls`, `Revive`, `LoseExp` are 1322-1338 and 1432; `HpUp` is 1165-1186.
Positions are left out: constants `Range` and `Prey` bound who may reach whom.
Packets of one session are handled one after the other (a RECV is armed
when the last one is done) and one thread moves an NPC (`OneToken` above).

**Run `combat`.**  Three threads; two players strike NPC 1 (level 31: its blow
kills outright and its death is worth two levels); NPC 1 and NPC 2 (two blows) strike
player 1; the timer heals at any time.  `DeadNpcIsClaimed`: a kill is earned by
exactly the thread that holds the lock.  `FallenIsNoticed`: though a player is
judged outside the lock, no fall goes unseen.  `HpFitsLevel` and `ExpFitsLevel`:
the values guarded by two locks agree outside a level-up.  Bounds: players stop
attacking at `MaxLevel`, and the timer leaves a player below `MinHp` alone
(otherwise -10, -11, -12, ... has no end while a thread is about to revive it);
1.5 million states.

**Proofs** (`CombatProofs`, any levels, players, NPCs, threads and bounds).  All five
invariants.  The strengthening is `Located` (what a position implies for the locals) and
`NpcOwned`, `ExpOwned` (a thread inside a critical section owns the lock).
`FallenIsNoticed` and `HpFitsLevel` are inductive relative to the types alone;
`DeadNpcIsClaimed` needs `NpcOwned` (or a second thread could lower or restore the
hit points), `ExpFitsLevel` needs `ExpOwned`.

**Left out.**  All-digit ids log in with level `INT_MAX`, and `level * 50` overflows;
`Accounts` excludes them.  Logins that load and saves that store these values belong to
`Sessions`.  A death paid twice (two NPCs both judge the player fallen) is
allowed by the code and by the model.

## 6. PacketFifo, ServerStream, ClientStream

**Correspondence.**  A byte is its number in the stream, so a packet that was torn,
repeated or shifted cannot look right by chance; values matter only where the code
reads them, in the two bytes of the size.  In `ServerStream`, `Receive(n)` is a
completed RECV of `n` bytes behind `m_prev_remain` (`SESSION.cpp:3-11`, 538-539),
`ProcessPacket` one round of the loop 540-549, `Rearm` lines 548-555.  The second
byte of the size may be a stale byte when the fragment ends after the first
(541): `packet_size` reads whatever the buffer holds.  In `ClientStream`, `Decode`,
`CompletePacket`, `SaveFragment` are lines 1176-1190 of `client.cpp`, and lines
201-219 of the load generator's `NetworkModule.cpp`; `DecodeHalf` is the decoding
with half a size.  The overlapping `memcpy` at 552 is taken to copy as `memmove`, as the x64
runtime does.

**Run `connection`.**  `Connection` has both streams.  They share no variable, so a behaviour
uses one of them (`direction`) and nothing is lost by not mixing their steps; 3 743 states.
Six packets of 3 to 8 bytes with a buffer of 8: every way to cut them into
fragments, packets that fill the buffer exactly, and stale bytes that are never 0
(server) or 0 by luck (client).  `ImplementsFifo` and `ClientImplementsFifo`
(refinements of `PacketFifo`): whole packets, once, in order.  `NothingWaits`: what is
complete is handled before the next RECV, so no request waits for the next one.
`RecvHasRoom`: a RECV into no room would complete with 0 bytes and end the session
(497).  `AllHandled` and `ClientHandlesAll`: what is sent is handled in the end.  The server
survives the half size because a wrong size is too big or, if not, decoded again from
the right bytes; the client keeps the wrong size.  After such a split (`c_pc = "lost"`) the
model of the client stops: its two properties are about streams up to there.

**Fairness.**  TCP delivers what was sent and the loop runs; nobody has to send.

**Proofs** (`StreamProofs`, any sizes from 3 up to the buffer's and below 256, any
stale bytes).  The server: `TypeOK`, `NothingWaits`, `RecvHasRoom`, `ImplementsFifo`.  The
inductive invariant says that the bytes at `p` are the next ones of the stream
and that what was handled plus what remains is what was received.
The client and the load generator, in the same module under the name `Client` because both
ends share the stream: `TypeOK`, `Carried`, `ImplementsFifo`.  The inductive
invariant `ClientInv` says that handled, saved and unseen bytes are what was received
(`ClientPlace`), that the saved ones begin the current packet (`ClientSaved`), and when the
size is known (`ClientSize`); a stream that is lost keeps the first two.  The one assumption
besides `StreamAssumption` is that stale bytes are bytes (`StaleBytes`, which `Connection`
states as `StaleAssumption`).

## 7. Sessions

**Correspondence.**  A connection is a socket and the login its client sends at
once.  The port knows the socket by its completion key, a slot number (`keyOf`), and all
that follows works on whatever the slot holds by then.  A character's fields are
abstracted to whose character they are, in two parts because a new connection sets only
`m_x` and `m_y` to zero (518-519): `owner` and `place` of a slot, `rows` and `spots` of the
database.  `heap` holds the name buffers (`new char[NAME_SIZE]`).

| actions | code |
|---|---|
| `Connect`, `Leave` | a client of `client.cpp`: the kernel completes the `AcceptEx`; it goes |
| `Accept`, `AcceptWhenFull`, `Alloc`, `SetUp` | 452-460, 511-535: `get_new_client_id` looks, then the slot is allocated |
| `TakeLogin`, `Refuse`, `Check`, `EnterTester`, `PushGetInfo` | 611-685: nobody with that id may play; ids of digits skip the database |
| `RecvFails`, `SendFails`, `CopyName`, `PushSaveInfo`, `CloseSocket`, `FreeSlot` | 494-508 and `disconnect`, 473-482 |
| `Pop`, `Load`, `SendLoginInfo`, `EnterGame`, `DeleteName`, `PushCreateId`, `GetInfoFails` | 100-242: a row is loaded or a character made up, the slot enters the game, a new row is ordered |
| `Store` | 243-300: `SavePlayerInfo` updates a row, `CreateID` adds one, with what the slot holds now |

Steps follow the shared data: `m_userid` is looked up in one step and set in another,
the state, the socket and the query queue change one after the other.  The
lookup over all slots (616) is one step: only the one slot that decides it matters.

**Mishaps.**  The repository promises none of the following without exception, and the
design does not give it.  So each property names the mishaps after which it may fail and says
that there are no others:

* `Spoilt(s)`: a SEND failed on a connection of the slot.  `disconnect` is called for that
  completion and again for the RECV, the second time maybe for the next player of the slot.
* `Hasty(s)`: a client left the slot before its login was over (`early`).  The slot is
  freed first, then the query puts it into the game.
* `Tested(s)`: a tester had the slot.  It is not loaded through the queue, so it is not behind
  the saves waiting there.
* `raced`: users of whom two logins were between packet and load at the same time.

| property | what it says | only excepted | without the exception |
|---|---|---|---|
| `OneHandler` | one RECV or one worker per slot, and no slot is handed out meanwhile | `Spoilt` | two workers of one slot |
| `UserPlaysOnce` | no two slots have one user | `raced` | both logins pass the check at 616 before either is loaded |
| `RowsKeepTheirOwner` | the row of a user is overwritten with the user's own character only; the position at most with nobody's | `Spoilt`, `Hasty`, `Tested` slots among those the user had | another user's character in the row |
| `NoGhosts` | a slot in the game has a connection or is about to be freed | `Spoilt`, `Hasty` | a player nobody controls |
| `LeftIsFreed` | the slot of a client that left comes back | `Hasty` | the ghost stays for ever |
| `LoginIsAnswered` | a login gets an answer | queries do not fail in this run | section 13 |
| `NamesHaveOneOwner` | a name buffer has one owner and is freed once | none | |

For each of the listed exceptions TLC finds a counterexample when it alone is taken
out.  That the position may be lost needs no mishap at all: the save of a player who has left
waits in the queue while the slot is accepted again, which zeroes the position, and then
stores the zero.

**Runs.**  Two, because the one needs two slots and the other all that can fail.  `sessions`
has two connections with the same user, two slots and two workers; clients leave when they
like (450 thousand states).  A slot is reused while the save of its last player is still
queued, a user comes back while that save is under way, or logs in twice at once.
`sessions_storm` has one slot that changes hands between a user with a row, one without
(whose row `CREATEID` adds) and a tester; clients leave at any time, SENDs and queries fail,
the server is full (3.1 million states).  There the name buffers still have one
owner each: `CREATEID` takes over the buffer of `GETINFO`, `disconnect` makes its own, `Refuse`
and a failed load leak.

**Bounds.**  Two connections make every pair of old and new player of a slot.  Six buffers are
never all in use (two logins, two RECVs and two SENDs that fail), so the guard `HasFresh`,
which the code does not have, never holds anybody up.  Larger numbers are left to the
proofs, which have no bounds.

**Fairness.**  The database thread runs and its queries return; completions are taken:
each connection makes finitely many, so weak fairness of taking any suffices; a
worker that has started goes on.  Clients owe nothing.

**Proofs** (`SessionsProofs`, any slots, connections, workers, users, testers and buffers,
SENDs and queries that fail or not).  Every safety property above, with the exceptions in its
statement and no other assumption.  `TypeOK` is not inductive: a completion has to
name a slot with a socket (`Keyed`), and there must be one accept at a time
(`AcceptsOne`), or `g_c_socket` would be used twice.  `NamesHaveOneOwner` also needs
`LoginNames` (which buffers hold a user's name).

`OneHandler` follows from `Exclusive`: a connection keeps its slot (`Socketed`), and a slot
that is not spoilt has one RECV or one handler and is not free meanwhile, so `Accept` cannot
take it (`One`).  What happens to other slots, spoilt or not, does not matter (`Elsewhere`).

`UserPlaysOnce`: a login is followed from the worker into the queue and to the database
thread (`Comes`, `Checked` once it has passed the check).  As long as a user is not raced
there is one of them (`OneLogin`), so nobody comes in under the name between
check and load (`NotYetIn`).

`NoGhosts` and `RowsKeepTheirOwner` are about slots that are neither spoilt nor hasty
(`Calm`): there the client of a login (`LogsIn`) stays until the login is over
(`LoginsWait`), so the slot is not freed or given a new socket meanwhile (`LeftSlots`,
`ClosedLeft`), has one login at a time (`LoginsOnce`), and what is stored from it is stored
before the next login of that slot is loaded, because the queue is a FIFO (`StoreFirst`).
If every slot the user has visited (`Visits`) is calm and had no tester, the slots hold
the user's own character while they hold the name or store for it (`OwnFields`).

**Left out.**  The `EV_HP_UP` event every login pushes (676 and the like); the
loops that tell other players (167, 207, 464, 655), which are in `ViewLists`; the packets of
a player in the game; socket handles used again.

## 8. ViewLists

**Correspondence.**  `view` is `m_view_list`, `screen[p][o]` the entry for `o` in the map
`players` of `p`'s client once all packets sent so far are handled (the connection is a
FIFO and nothing the client keeps comes back).  An entry is `absent`, `blank` (made by a
lookup `players[id]`, without name and texture, so that nothing appears) or `full`.  Before its
login is answered a client takes packets about slot 0 for packets about itself, because
`g_myid` is 0, but a move makes an entry all the same (`client.cpp` 1082).

| actions | code |
|---|---|
| `Accept` | 511-535: the slot gets a connection and keeps the list it had |
| `Login`, `Greet`, `Greeted` | 147-181 and 633-666: into the game, then one object after the other is told of the newcomer and the newcomer of it; no list is touched |
| `Leaves`, `PartFrom`, `Left` | 462-484: one player after the other is told; the lists stay |
| `Speak`, `HitNpc`, `KillNpc`, `NpcHits` | `CS_CHAT`, `CS_ATTACK`, the strike of an NPC: packets to the list |
| `Move`, `Teleport`, `Die`, `NpcMove` by `MoveTo` | the object is relocated: 687-728, 972-995, 1331-1365, 1241-1262 |
| `CopyList`, `Scan`, `Meet`, `MeetNpc`, `NpcMeets`, `Met`, `Leave`, `NpcLeaves`, `Overwrite` | the update that follows (729-796, 996-1060, 1266-1319, 1366-1429), one step per critical section or round of a loop |

A packet is handled whatever the state of its slot (`Served`): clients move, chat and
attack before they are logged in, and enter themselves in lists by that.  Only the packets of
one connection are handled one after the other; logins, disconnections, deaths and
NPC moves run beside them on other threads, also for the same player.  A slot that is free is
accepted again with its old list, old entries in other lists and old sector entry.

**What is promised.**  Lists and screens do go wrong when handlers overlap: a list is copied
(731), compared and overwritten (794) in three critical sections; a login introduces both
sides (167, 655) but enters nobody in a list; `disconnect` leaves all lists alone; an NPC
strikes a target that has left (1224).  What the handlers promise is that the next
undisturbed meeting or parting of two players puts the two right.  History variables say
which pairs of players that is true of:

* `lost`: players that two threads have moved at once.  Which sector set they are in is not
  known, so a search may overlook them (`Sure`).
* `crossed[t]`: the objects whose handlers have overlapped that of thread `t`.
* `mutual`: pairs that no overlapping handlers have touched since they were last put
  right, and `Overwrite` puts right whom the object met or left undisturbed (`PutRight`).
* `placed`, a part of it: nor has one of them logged in since.
* `shown`, a part of that: nor has a packet been sent about one of them that was not in
  the game, or while its list was being updated, nor its slot been accepted.

| property | what it says | with a weaker premise |
|---|---|---|
| `ListsMutual` | a `mutual` pair, at rest, is in each other's list or neither is, through logins, leaves and new owners of the slots | without it broken by two threads, but not by one |
| `ListsTrue` | a `placed` pair in the game lists each other only in sight, and surely if each would find the other | `mutual` is not enough even with one thread: a login enters nobody |
| `ScreenFollowsList` | the clients of a `shown` pair show each other exactly if listed and not left; the packets are differences, so one missing or too many would never be made good | `placed` is not enough even with one thread, with an NPC or without |

The last column was found by TLC.  That an NPC in sight is *shown* is not a property: an
NPC and a player keep separate lists, and after a kill, or when the player walks out of sight
and back, an NPC that still has the player in its list sends `SC_MOVE_OBJECT` only; the
entry stays `blank` (section 13).

**Runs.**  `view_lists` has two players and two threads, so any two handlers overlap
step by step; its first slot is slot 0 (3.4 million states).  `view_lists_npc` adds an NPC that
moves, strikes and kills, also players who have left or not logged in, and is killed, with
one thread (3.5 million states).

**Bounds.**  Two places of which one sees only those on the same; the search is sure to
find others on the first place only, because at the second they may stand beyond a
sector's border.  That gives every combination of in sight or not, found or not, a way out
of sight and back.  A list holds objects independently of each other, so two players have
all the relations there are between two.

**Proofs** (`ViewListsProofs`, any places, players, NPCs and threads).  `TypeOK`,
`ListsMutual` and `ListsTrue`, with no assumption about who does what when: `ViewAssumption`
says only that sight is symmetric and that a search finds what is in sight.
The steps are first reduced to the kinds that differ in what they do to lists (`Shapes`).
`Aware`: handlers under way know of each other through `crossed`, so for a pair in order the
handler of one has the other to itself (`Alone`, `NobodyElse`).  `Progress` says what
that handler has done to the other's list by now: those met list the player, those left do
not.  `Worth` says that its copy is still the list, and that the two lists agree
until the handler comes to that player.  At the end (`OverwriteAgrees`) the new list and
what was done to the other's are the same.  `ListsTrue` adds what the search found (`Seen`)
and that logins leave no pair in place (`Standing`).  `ScreenFollowsList` is only
model-checked.

**Left out.**  Packets to the slots of NPCs (they have no socket), `WakeUpNPC` (section 3),
the contents of the packets; a second `disconnect` of a slot that is already free
(`Sessions` has it).

## 9. StressLoad

**Correspondence.**  Clients are indices of `g_clients`; `connected`, `client_socket`,
`num_connections`, `client_to_close`, `active_clients`, `max_limit`, `increasing` are
the variables of `NetworkModule.cpp`.  `recv` is the client's receive, `answer` the server's
answer to its login.  `ClearFlag`, `CloseSocket`, `Uncount` are `DisconnectClient`
(97-103); `TakeLogin`, `TakePacket`, `Count`, `Rearm`, `TakeFailure`, `SendFails` the
workers (127-242); `HoldOn`, `CloseOldest`, `Connect`, `ConnectFails` are
`Adjust_Number_Of_Client` (258-339), `MoveClosed` and `DismissBox` the rest of the test
thread (341-364).  Times are left out: any delay may be long enough.  `global_delay` is known
against the two limits only.

**Run `stress_load`.**  A worker and the test thread, five clients, at most four of them
active, a reserve of two instead of 100 (1.6 million states).  Logins are answered at any
time or never, receives and sends fail: on a closed socket always, on an open one for the
clients in `Frail` (two of them in the run; with three it passes as well).
`CountIsExact`: `active_clients` is wrong only by what threads are about to
add or take off.  `ClosedOnce`: one `closesocket` per socket though the test thread and
several failed completions are about the same client.

`client_to_close` is compared with nothing, although it indexes `g_clients`.  A login answered
after the test thread has come by to close its client leaves a client that
thread never closes (`Overtaken`).  `CloserOverruns`: the index leaves the clients there are
only if those overtaken, with those workers are just disconnecting, make up the reserve.
What follows then in memory is not modelled: a thread that disconnects a client past
the end gets no further.  `LoadBacksOff`: while the server stays slow the load comes down to
the reserve again and again, unless overtaken clients are left.  The exception is
needed: with five clients TLC finds a load that stays at the reserve for ever because
nobody closes those that make it up.  Four clients are too few for that, which is why the
run has five.

**Fairness.**  Threads run on; between two rounds of moves the test thread has
another chance to disconnect somebody (strong fairness of `CloseOldest`: other threads
may lower the count below the reserve and the server may answer in between); somebody
dismisses message boxes.

**Proofs** (`StressLoadProofs`, any numbers).  `Inv` says of a client what its flag,
socket, receive and answer are against `num_connections`, and that only one thread
is between flag and socket of a client (`OneCloser`); that gives `ClosedOnce`.
`CountIsExact` is about cardinalities: each step moves one thread or one client into
or out of one of three sets (`Balance`, `BusyChange`, `ConnectedChange`).
`CloserOverruns` uses it: the index grows only with `active_clients >= Reserve`, and once it
has passed all clients there are, every connected one was overtaken (`AllOvertaken`).

**Worth knowing.**  At `MAX_TEST` active clients or `MAX_CLIENTS` connections nothing is
adjusted any more (264-265), `delay_multiplier` is never reset (285), below 100
active clients an overloaded server is not relieved (276), and a failed connect
leaves its index to the next client, so a late completion disconnects that one (333).
The comment at 66 speaks of a limit of 1000, the code has 100 and 150 (254-255).

## 10. Status

**Correspondence.**  `exp`, `hp`, `level`, `max_hp` are the player's, `packet[t]` the
`SC_STAT_CHANGE` thread `t` is building with four reads without a lock (`SESSION.cpp`
121-134), `avatar` the client's copy.  `Kill`, `CountLevel`, `CountDone`, `LevelUp`, `RaiseMax`
are 868-887, `Strike`, `Spared`, `Revive`, `LoseExp` 1321-1340 and 1432, `HpUp` 1165-1187.
`Announces` is what the client puts into its message window when the packet comes.
Two writes that follow each other without a lock and without a packet between them are one
step.

**Run `status`.**  The worker of the player, one NPC, the timer; 934 thousand states.
Packets may be torn between two updates or overtake each other, so the client may
announce a defeat that was none or a level taken back, and nothing forbids it.
`StatsConverge`: once nobody fights any more the client comes to show the player as
it is and has nothing new to announce.  That holds only because `EV_HP_UP` repeats the state
whether it has changed or not: the mutant that sends changes only leaves the
client wrong for ever.

**Bounds.**  Levels are scaled: a level is worth one point instead of 100, a
strike takes one, a tenth is the whole.  Two levels make one level-up; a player at the
bound stops killing.  The timer lets a player below zero alone, as in `Combat`.

**Fairness.**  A thread that has begun goes on and the timer comes back: its event
re-arms itself while the player is in the game.  Nobody has to fight.

**Worth knowing.**  `EV_HP_UP` sends the state to the player itself once, and once more
for each NPC of its view list (1176-1180): other players never learn that it heals.

## 11. ClientLoop

**Correspondence.**  `x, y, dir` are the player's at the server, `avatar, facing` the client's;
`up` and `down` the packets on the way.  `Arrow`, `Control`, `Click`, `Erase`, `Type`, `Enter`
are the events of `main` (`client.cpp` 1295-1404), `Frame` is one round of the rest: at most
one packet (`client_main`, 1194), the animation (`CHARECTOR::draw`, 521), and
the teleport asked for by a click.  `Login`, `Answer`, `Move`, `Ignore`, `Teleport`,
`Die` are the server.  `Layer`, `Cell` and `Blocked` are the map, read by two loaders with
two tables (`client.cpp` 260, `MapInfoLoad.h` 17) from one file.

**Run `client_loop`.**  A map of four by three tiles with obstacles in the corner, at
the border and inside, a window of four, two packets on the way; 1.05 million states.
`PlaceAgrees`: once nothing is on the way, avatar and window are where the server has the
player, though refused steps are not answered and keys count before the login is.
`FacingAgrees`: the client turns at the key, the server at the packet, nobody tells the
client, and they agree, unless the player last pushed against the left or right border or
has a slot whose last player looked left (`aligned`).  `WallsAreSeen`: a step the server
refuses is one into a picture on the screen beside the avatar, although the drawing
loop runs past all borders.  `ComesToRest`: once the keys are let alone the avatar comes to stand.

**Bounds.**  Two packets on the way let a key overtake an answer in both directions; the
proofs have no such bound.  A chat of one character has the three cases empty, in
between and full.  Each number in the map file is followed by a comma, and every
number that stops a player has a picture (`ClientLoopAssumption`; the map file itself
is not in the repository).

**Fairness.**  The server handles what it gets; the client goes on drawing frames, in each of
which a packet may have come, time may have passed for the animation, or a
teleport is to be sent.  The player owes nothing.

**Proofs** (`ClientLoopProofs`, any map, window and number of packets on the way).  `PlaceAgrees`:
the last packet to the client knows where the player is, or with none the client does
(`PlaceInv`).  `FacingAgrees`: the last key left or right still on the way tells how
the client faces; with none the server agrees (`FacingInv`).  `WallsAreSeen` follows
from `PlaceInv` and the arithmetic of the window.

**Worth knowing.**  The column right of the map shows the next row's first tile, and two
corner cells read one past the layer (324).  A message of exactly `CHAT_SIZE`
characters has its end mark written behind the buffer (1341); a backspace with
nothing to erase counts as a character (1319); a second click in the same frame takes a
teleport back (832); arrows move the player while one types.

**Left out.**  Two server threads that move one player (an NPC kills it while its `CS_MOVE` is
handled) may send their packets in the other order than they wrote the position: the
model has one thread at the server.  Other objects are in `ViewLists`, the own state in
`Status`.

## 12. What is proved and what is only checked

Proved for all values of the constants, from the named `ASSUME`s of the modules only, which
TLC evaluates on every run:

| module | properties |
|---|---|
| `NpcActivity` | `TypeOK`, `OneToken`, `TargetIsChosen`, `KeepsSchedule` (refinement) |
| `SectorGrid` | `TypeOK`, `InItsSector`; `NeighboursCoverView` if `VIEW_RANGE <= SECTOR_SIZE`; `SearchIsLocal` from 4 x 2 sectors on; `SearchCoversNear` from 4 columns on and up to 19 tiles to a sector |
| `Combat` | `TypeOK`, `DeadNpcIsClaimed`, `FallenIsNoticed`, `HpFitsLevel`, `ExpFitsLevel` |
| `ServerStream` | `TypeOK`, `RecvHasRoom`, `NothingWaits`, `ImplementsFifo` (refinement) |
| `ClientStream` | `TypeOK`, `Carried`, `ImplementsFifo` (refinement) |
| `Sessions` | `TypeOK`, `NamesHaveOneOwner`, `OneHandler`, `UserPlaysOnce`, `NoGhosts`, `RowsKeepTheirOwner` |
| `ViewLists` | `TypeOK`, `ListsMutual`, `ListsTrue` |
| `StressLoad` | `TypeOK`, `CountIsExact`, `ClosedOnce`, `CloserOverruns` |
| `ClientLoop` | `TypeOK`, `PlaceAgrees`, `FacingAgrees`, `WallsAreSeen` |

The type invariants in the table are proved; only that of `NpcActivity` is also in a run.

Checked on small instances only: `ScreenFollowsList`, and liveness, which with fairness and
`ENABLED` is beyond the prover (`TurnsComeAndEnd`, `UnseenFallsAsleep`, `AllHandled`,
`ClientHandlesAll`, `LoginIsAnswered`, `LeftIsFreed`, `LoadBacksOff`, `StatsConverge`,
`ComesToRest`).

## 13. Findings and divergences

One disagreement between the code and its own comments has a run: the lost
wake-up (`npc_lost_wakeup`, section 3).  The others are steps of the models that can
be read off the code:

* `protocol.h:67` says that direction 2 is LEFT.  The `break` at 699 belongs to the `if`, so
  at the left border the player goes right (`GoesRight` in `SectorGrid` and
  `ClientLoop`), and at both side borders client and server come to face different ways.
* The comment at 1331 asks "if the hit points are 0?" (체력이 0이라면?), the code tests for
  less than 0: a player with exactly 0 is spared (`Spared`), and a tenth of 0 to 9 heals nobody.
* The comment at 233 announces a failure packet (실패 패킷), the branch is empty: after
  a failed query the client waits for ever and the slot is never released (`GetInfoFails`).
* The comment at 1295 says that the player keeps seeing the NPC (플레이어가 계속 보고 있음),
  but the test is about the NPC's list: after the client has removed the NPC it stays invisible
  in sight (`NpcMeets`, an entry `blank`).

## 14. Not modelled

* The three earlier servers, which `SERVER.vcxproj` does not build; SFML and Lua; the
  OpenGL drawing of the load generator.
* `chatrecord` and `saveToFile`: nothing reads them back.
* Sector sets that several threads change at once: `SectorGrid` moves one player, and
  `ViewLists` takes a player two threads have moved for one a search may overlook (`lost`).
* Fonts, hover effects, bars and bubbles of the client: layout only.
* The Lua state of an NPC: it is created and never called while NPCs move.
* Socket set-up, the creation of threads, the stored procedures in the database.
