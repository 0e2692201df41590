------------------------------- MODULE Status -------------------------------
(***************************************************************************)
(* What a player is told about its own hit points, experience and level.   *)
(* The thread that handles the player's packets, those that run NPCs and   *)
(* the timer change them under two locks (Combat) and then send            *)
(* SC_STAT_CHANGE, built from four reads without any lock: packets may mix *)
(* old and new values, and overtake each other on the way to the socket.   *)
(* The client believes each of them.                                       *)
(*                                                                         *)
(* One player.  The connection is a FIFO and nothing the client keeps      *)
(* comes back: a packet is handled when it is sent.  Who hits whom is left *)
(* open.  The packets about other players are left out.                    *)
(***************************************************************************)
EXTENDS Integers

CONSTANTS
  Reader,        \* the worker that handles the player's packets, one at a time
  Npcs,          \* workers at the turn of an NPC beside the player
  Timer,
  PerLevel,      \* hit points of a level, and experience that is worth one: 100
  KillExp,       \* experience of a kill: m_level * 10
  Blow,          \* damage of a strike: m_level * 10
  Part,          \* EV_HP_UP gives back one tenth of the hit points: 10
  MaxLevel       \* bound: the player stops killing

ASSUME StatusAssumption ==
  /\ Reader # Timer /\ {Reader, Timer} \cap Npcs = {}
  /\ {KillExp, PerLevel} \subseteq Nat /\ Blow \in Nat /\ MaxLevel \in Nat /\ Part \in Nat \ {0}

Fighters == Npcs \cup {Reader}
Threads == Fighters \cup {Timer}

VARIABLES
  exp, hp, level, max_hp,   \* of the player's SESSION
  pc,               \* where each thread is
  packet,           \* the packet it is building
  avatar            \* the client's copy

player == <<exp, hp, level, max_hp>>
vars == <<exp, hp, level, max_hp, pc, packet, avatar>>

Fresh == [exp |-> 0, hp |-> PerLevel, level |-> 1, max_hp |-> PerLevel]
Current == [exp |-> exp, hp |-> hp, level |-> level, max_hp |-> max_hp]
Fields == DOMAIN Fresh

Init ==
  /\ exp = Fresh.exp /\ hp = Fresh.hp /\ level = Fresh.level /\ max_hp = Fresh.max_hp
  /\ pc = [t \in Threads |-> "idle"]
  /\ packet = [t \in Threads |-> Fresh]
  /\ avatar = Fresh

Step(t, from, to) == pc[t] = from /\ pc' = [pc EXCEPT ![t] = to]
ExpLocked == pc[Reader] = "count"
HpLocked == pc[Reader] = "raise"
-----------------------------------------------------------------------------
(* CS_ATTACK that kills.                                                   *)

Kill ==
  /\ level < MaxLevel /\ Step(Reader, "idle", "count")
  /\ exp' = exp + KillExp
  /\ UNCHANGED <<hp, max_hp, level, packet, avatar>>

\* KillExp is worth no more than one level: one round of the loop.
CountLevel ==
  /\ exp > level * PerLevel /\ Step(Reader, "count", "levelup")
  /\ exp' = exp - level * PerLevel /\ level' = level + 1
  /\ UNCHANGED <<hp, max_hp, packet, avatar>>

CountDone ==
  /\ exp <= level * PerLevel /\ Step(Reader, "count", "exp")
  /\ UNCHANGED <<player, packet, avatar>>

\* Both are set inside m_hp_lock, but read without it.
LevelUp ==
  /\ ~HpLocked /\ Step(Reader, "levelup", "raise")
  /\ hp' = level * PerLevel
  /\ UNCHANGED <<exp, level, max_hp, packet, avatar>>

RaiseMax ==
  /\ Step(Reader, "raise", "exp")
  /\ max_hp' = level * PerLevel
  /\ UNCHANGED <<exp, hp, level, packet, avatar>>
-----------------------------------------------------------------------------
(* A strike of an NPC.                                                     *)

Strike(t) ==
  /\ ~HpLocked /\ Step(t, "idle", "check")
  /\ hp' = hp - Blow
  /\ UNCHANGED <<exp, level, max_hp, packet, avatar>>

Spared(t) ==
  /\ hp >= 0 /\ Step(t, "check", "exp")
  /\ UNCHANGED <<player, packet, avatar>>

Revive(t) ==
  /\ hp < 0 /\ ~HpLocked /\ Step(t, "check", "penalty")
  /\ hp' = level * PerLevel
  /\ UNCHANGED <<exp, level, max_hp, packet, avatar>>

LoseExp(t) ==
  /\ ~ExpLocked /\ Step(t, "penalty", "exp")
  /\ exp' = exp \div 2
  /\ UNCHANGED <<hp, level, max_hp, packet, avatar>>
-----------------------------------------------------------------------------
(* EV_HP_UP, again and again while the player is in the game.  The packet *)
(* is repeated for each NPC of the view list: one stands for all.          *)

Healed == LET up == hp + hp \div Part IN IF up > max_hp THEN max_hp ELSE up

\* Bound: a player below zero, who is about to be revived, is let alone.
MayHeal == hp >= 0 /\ ~HpLocked

\* Mutant: nothing is sent if nothing has changed.
HpUpIfHurt ==
  /\ MayHeal /\ Healed # hp /\ Step(Timer, "idle", "exp")
  /\ hp' = Healed
  /\ UNCHANGED <<exp, level, max_hp, packet, avatar>>

HpUp ==
  /\ MayHeal /\ Step(Timer, "idle", "exp")
  /\ hp' = Healed
  /\ UNCHANGED <<exp, level, max_hp, packet, avatar>>
-----------------------------------------------------------------------------
(* Send_Change_State_Packet, and SC_STAT_CHANGE at the client.             *)

After == [exp |-> "hp", hp |-> "level", level |-> "max_hp", max_hp |-> "send"]

Read(t, f) ==
  /\ Step(t, f, After[f])
  /\ packet' = [packet EXCEPT ![t][f] = Current[f]]
  /\ UNCHANGED <<player, avatar>>

Send(t) ==
  /\ Step(t, "send", "idle")
  /\ avatar' = packet[t]
  /\ packet' = [packet EXCEPT ![t] = Fresh]
  /\ UNCHANGED player

\* What the client announces when it handles packet p.
Announces(p) ==
  {what \in {"level", "gain", "defeat", "hp"} :
     CASE what = "level"  -> p.level # avatar.level
       [] what = "gain"   -> p.level = avatar.level /\ p.exp > avatar.exp
       [] what = "defeat" -> p.level = avatar.level /\ p.exp < avatar.exp
       [] what = "hp"     -> /\ p.level = avatar.level /\ p.exp >= avatar.exp
                             /\ p.hp # avatar.hp}
-----------------------------------------------------------------------------
Run(t) ==
  \/ Spared(t) \/ Revive(t) \/ LoseExp(t)
  \/ \E f \in Fields : Read(t, f)
  \/ Send(t)

CountKill == CountLevel \/ CountDone \/ LevelUp \/ RaiseMax

Next ==
  \/ Kill \/ CountKill
  \/ \E t \in Npcs : Strike(t)
  \/ \E t \in Threads : Run(t)
  \/ HpUp

\* A thread runs on, and the timer comes back to the player.
Fairness == /\ WF_vars(CountKill) /\ \A t \in Threads : WF_vars(Run(t))
            /\ WF_vars(HpUp)

Spec == Init /\ [][Next]_vars
FairSpec == Spec /\ Fairness
-----------------------------------------------------------------------------
NothingNew == \A t \in Threads : Send(t) => Announces(packet[t]) = {}

\* A packet may be torn or late: it may show a false defeat, a level that is taken
\* back, more experience than a level has.  Because EV_HP_UP sends the state again
\* and again, changed or not, once nobody fights any more the client comes to show
\* the player as it is and has nothing to announce.
StatsConverge ==
  <>[](\A t \in Fighters : pc[t] = "idle") =>
    <>[](avatar = Current) /\ <>[][NothingNew]_vars
=============================================================================
