--------------------------- MODULE ViewListsProofs ---------------------------
(***************************************************************************)
(* Theorems about view lists, for any map, any number of players, NPCs and *)
(* threads, and without any assumption about who does what when: two       *)
(* players nothing has come between are in each other's list or not at     *)
(* all, and the lists are those of the places.                             *)
(*                                                                         *)
(* The steps of ViewLists are first reduced to the few kinds that differ   *)
(* in what they do to lists.  The invariant then has three parts: who may  *)
(* be under way when a pair counts as undisturbed; what the handler of one *)
(* player has done by now to the list of another; and that, as far as the  *)
(* two are in good order, its copies are worth what they were.             *)
(***************************************************************************)
EXTENDS ViewLists, TLAPS

Screens == [Players -> [Objects -> Entries]]

\* The parts of the type invariant that one kind of variable makes up.
TypeSlots ==
  /\ state \in [Players -> {"unused", "ALLOC", "INGAME", "FREE"}]
  /\ pos \in [Objects -> Places]
  /\ view \in [Objects -> SUBSET Objects]
TypeWork ==
  /\ pc \in [Threads -> {"idle", "copy", "scan", "announce", "withdraw",
                         "greet", "part"}]
  /\ who \in [Threads -> Objects \cup {NoOne}] /\ kind \in [Threads -> Kinds]
  /\ old \in [Threads -> SUBSET Objects] /\ new \in [Threads -> SUBSET Objects]
  /\ todo \in [Threads -> SUBSET Objects]
TypeHistory ==
  /\ lost \subseteq Players /\ crossed \in [Threads -> SUBSET Objects]
  /\ mutual \subseteq Pairs /\ placed \subseteq mutual /\ shown \subseteq placed

\* A thread in a handler has an object.
Coupled == \A t \in Threads : pc[t] = "idle" <=> who[t] = NoOne

Typed == TypeSlots /\ TypeWork /\ TypeHistory /\ screen \in Screens /\ Coupled

LEMMA TypedIsType == TypeOK /\ Coupled <=> Typed
BY DEF TypeOK, Typed, TypeSlots, TypeWork, TypeHistory, Screens

LEMMA HandleType ==
  ASSUME NEW scr \in Screens, NEW S, NEW O, NEW packet
  PROVE  Handle(scr, S, O, packet) \in Screens
BY DEF Handle, Entry, Entries, Screens

LEMMA SendType ==
  ASSUME Typed, NEW S, NEW O, NEW packet
  PROVE  Send(S, O, packet) \in Screens
BY HandleType DEF Send, Typed, Screens

LEMMA BeginType ==
  ASSUME Typed, NEW t \in Threads, NEW o \in Objects, NEW k \in Kinds, Begin(t, o, k)
  PROVE  /\ TypeHistory'
         /\ who' \in [Threads -> Objects \cup {NoOne}] /\ kind' \in [Threads -> Kinds]
<1>1. lost' \subseteq Players /\ crossed' \in [Threads -> SUBSET Objects]
  BY DEF Begin, Typed, TypeWork, TypeHistory
<1>2. mutual' \subseteq Pairs /\ placed' \subseteq mutual' /\ shown' \subseteq placed'
  <2>. DEFINE Others == {who[s] : s \in Threads} \ {NoOne}
              Broken == PairsOf(o, IF o \in Others THEN Players ELSE Others)
              Unshown == IF k = "login" \/ ~Playing(o) THEN PairsOf(o, Players) ELSE {}
  <2>1. /\ mutual' = mutual \ Broken
        /\ placed' = placed \ (Broken \cup IF k = "login" THEN Unshown ELSE {})
        /\ shown' = shown \ (Broken \cup Unshown)
    BY DEF Begin
  <2>2. mutual \subseteq Pairs /\ placed \subseteq mutual /\ shown \subseteq placed
    BY DEF Typed, TypeHistory
  <2>. HIDE DEF Others, Broken, Unshown
  <2>. QED  BY <2>1, <2>2
<1>3. who' \in [Threads -> Objects \cup {NoOne}] /\ kind' \in [Threads -> Kinds]
  BY DEF Begin, Typed, TypeWork, TypeHistory
<1>. QED  BY <1>1, <1>2, <1>3 DEF TypeHistory

LEMMA MentionedType ==
  ASSUME Typed, NEW p \in Players, Mentioned(p)
  PROVE  TypeHistory'
<1>1. crossed' \in [Threads -> SUBSET Objects]
  BY DEF Mentioned, Typed, TypeHistory, Objects
<1>2. shown' \subseteq shown /\ UNCHANGED <<lost, mutual, placed>>
  BY DEF Mentioned
<1>. QED  BY <1>1, <1>2 DEF Typed, TypeHistory

LEMMA EndType ==
  ASSUME Typed, NEW t \in Threads, End(t)
  PROVE  TypeWork' /\ crossed' \in [Threads -> SUBSET Objects]
BY DEF End, Typed, TypeWork, TypeHistory, Kinds

LEMMA PutRightType ==
  ASSUME Typed, NEW t \in Threads, PutRight(t), crossed' \in [Threads -> SUBSET Objects]
  PROVE  TypeHistory'
<1>. DEFINE o == who[t]
            U == Undisturbed(t)
            Apart == {q \in U : q \in old[t] \ new[t]}
            Fresh == {q \in U : q \in new[t] \ old[t] /\ {o, q} \in mutual}
            Told == {q \in Apart \cup Fresh : Playing(q) /\ Playing(o)}
<1>1. /\ mutual' = mutual \cup PairsOf(o, U \cap (old[t] \cup new[t]))
      /\ placed' = placed \cup (PairsOf(o, U) \cap mutual')
      /\ shown' = shown \cup PairsOf(o, Told)
      /\ lost' = lost
  BY DEF PutRight
<1>2. PairsOf(o, Told) \subseteq PairsOf(o, U)
  <2>1. Told \subseteq U
    OBVIOUS
  <2>. QED  BY <2>1 DEF PairsOf
<1>3. PairsOf(o, Told) \subseteq PairsOf(o, U \cap (old[t] \cup new[t]))
  <2>1. Told \subseteq U \cap (old[t] \cup new[t])
    OBVIOUS
  <2>. QED  BY <2>1 DEF PairsOf
<1>4. PairsOf(o, U \cap (old[t] \cup new[t])) \subseteq Pairs
  BY DEF PairsOf
<1>5. mutual \subseteq Pairs /\ placed \subseteq mutual /\ shown \subseteq placed
      /\ lost \subseteq Players
  BY DEF Typed, TypeHistory
<1>. HIDE DEF o, U, Apart, Fresh, Told
<1>. QED  BY <1>1, <1>2, <1>3, <1>4, <1>5 DEF TypeHistory

LEMMA TypeStep == Typed /\ [Next]_vars => Typed'
<1>. SUFFICES ASSUME Typed, [Next]_vars
              PROVE  Typed'
  OBVIOUS
<1>. USE ViewAssumption
<1>1. ASSUME NEW p \in Players, Accept(p)
      PROVE  Typed'
  BY <1>1 DEF Accept, Typed, Coupled, TypeSlots, TypeWork, TypeHistory, local, Objects
<1>2. ASSUME NEW p \in Players, Speak(p)
      PROVE  Typed'
  BY <1>2, SendType, HandleType, MentionedType DEF Speak, Typed, Coupled, TypeSlots, TypeWork, slots, local
<1>3. ASSUME NEW p \in Players, NEW n \in Npcs, HitNpc(p, n)
      PROVE  Typed'
  BY <1>3, SendType, HandleType, MentionedType DEF HitNpc, Typed, Coupled, TypeSlots, TypeWork, slots, local
<1>4. ASSUME NEW p \in Players, NEW n \in Npcs, KillNpc(p, n)
      PROVE  Typed'
  BY <1>4, SendType, HandleType, MentionedType DEF KillNpc, Typed, Coupled, TypeSlots, TypeWork, slots, local, Objects
<1>5. ASSUME NEW p \in Players, NEW n \in Npcs, NpcHits(n, p)
      PROVE  Typed'
  BY <1>5, SendType, HandleType, MentionedType DEF NpcHits, Typed, Coupled, TypeSlots, TypeWork, slots, local
<1>6. ASSUME NEW t \in Threads, NEW p \in Players, Login(t, p)
      PROVE  Typed'
  <2>1. Coupled'
    BY <1>6 DEF Login, MoveTo, Begin, Typed, Coupled, TypeWork, Objects
  <2>. QED  BY <1>6, <2>1, BeginType DEF Login, MoveTo, Typed, TypeSlots, TypeWork, Kinds, Objects, slots
<1>7. ASSUME NEW t \in Threads, NEW p \in Players, Leaves(t, p)
      PROVE  Typed'
  <2>1. Coupled'
    BY <1>7 DEF Leaves, MoveTo, Begin, Typed, Coupled, TypeWork, Objects
  <2>. QED  BY <1>7, <2>1, BeginType DEF Leaves, MoveTo, Typed, TypeSlots, TypeWork, Kinds, Objects, slots
<1>8. ASSUME NEW t \in Threads, NEW p \in Players, Move(t, p)
      PROVE  Typed'
  <2>1. Coupled'
    BY <1>8 DEF Move, MoveTo, Begin, Typed, Coupled, TypeWork, Objects
  <2>. QED  BY <1>8, <2>1, BeginType DEF Move, MoveTo, Typed, TypeSlots, TypeWork, Kinds, Objects, slots
<1>9. ASSUME NEW t \in Threads, NEW p \in Players, Teleport(t, p)
      PROVE  Typed'
  <2>1. Coupled'
    BY <1>9 DEF Teleport, MoveTo, Begin, Typed, Coupled, TypeWork, Objects
  <2>. QED  BY <1>9, <2>1, BeginType DEF Teleport, MoveTo, Typed, TypeSlots, TypeWork, Kinds, Objects, slots
<1>10. ASSUME NEW t \in Threads, NEW p \in Players, NEW n \in Npcs, Die(t, n, p)
      PROVE  Typed'
  <2>1. Coupled'
    BY <1>10 DEF Die, MoveTo, Begin, Typed, Coupled, TypeWork, Objects
  <2>. QED  BY <1>10, <2>1, BeginType DEF Die, MoveTo, Typed, TypeSlots, TypeWork, Kinds, Objects, slots
<1>11. ASSUME NEW t \in Threads, NEW n \in Npcs, NpcMove(t, n)
      PROVE  Typed'
  <2>1. Coupled'
    BY <1>11 DEF NpcMove, MoveTo, Begin, Typed, Coupled, TypeWork, Objects
  <2>. QED  BY <1>11, <2>1, BeginType DEF NpcMove, MoveTo, Typed, TypeSlots, TypeWork, Kinds, Objects, slots
<1>12. ASSUME NEW t \in Threads, NEW o \in Objects, Greet(t, o)
      PROVE  Typed'
  BY <1>12, SendType, HandleType DEF Greet, Introduce, Notify, Typed, Coupled, TypeSlots, TypeWork, TypeHistory, slots, local, history
<1>13. ASSUME NEW t \in Threads, Greeted(t)
      PROVE  Typed'
  <2>1. Coupled'
    BY <1>13 DEF Greeted, End, Typed, Coupled, TypeWork
  <2>. QED  BY <1>13, <2>1, EndType, PutRightType DEF Greeted, slots, history, Typed, TypeSlots, TypeWork, TypeHistory
<1>14. ASSUME NEW t \in Threads, NEW q \in Players, PartFrom(t, q)
      PROVE  Typed'
  BY <1>14, SendType, HandleType DEF PartFrom, Introduce, Notify, Typed, Coupled, TypeSlots, TypeWork, TypeHistory, slots, local, history
<1>15. ASSUME NEW t \in Threads, Left(t)
      PROVE  Typed'
  <2>1. Coupled'
    BY <1>15 DEF Left, End, Typed, Coupled, TypeWork
  <2>2. screen' \in Screens
    BY <1>15 DEF Left, Typed, Screens, Entries
  <2>. QED  BY <1>15, <2>1, <2>2, EndType DEF Left, history, Typed, TypeSlots, TypeHistory
<1>16. ASSUME NEW t \in Threads, CopyList(t)
      PROVE  Typed'
  BY <1>16 DEF CopyList, Around, Typed, Coupled, TypeSlots, TypeWork, TypeHistory,  slots, local, history
<1>17. ASSUME NEW t \in Threads, Scan(t)
      PROVE  Typed'
  BY <1>17 DEF Scan, Around, Typed, Coupled, TypeSlots, TypeWork, TypeHistory,  slots, local, history
<1>18. ASSUME NEW t \in Threads, NEW q \in Players, Meet(t, q)
      PROVE  Typed'
  BY <1>18, SendType, HandleType DEF Meet, Introduce, Notify, Typed, Coupled, TypeSlots, TypeWork, TypeHistory, slots, local, history
<1>19. ASSUME NEW t \in Threads, NEW n \in Npcs, MeetNpc(t, n)
      PROVE  Typed'
  BY <1>19, SendType, HandleType DEF MeetNpc, Introduce, Notify, Typed, Coupled, TypeSlots, TypeWork, TypeHistory, slots, local, history
<1>20. ASSUME NEW t \in Threads, NEW p \in Players, NpcMeets(t, p)
      PROVE  Typed'
  BY <1>20, SendType, HandleType DEF NpcMeets, Introduce, Notify, Typed, Coupled, TypeSlots, TypeWork, TypeHistory, slots, local, history
<1>21. ASSUME NEW t \in Threads, Met(t)
      PROVE  Typed'
  BY <1>21 DEF Met, Around, Typed, Coupled, TypeSlots, TypeWork, TypeHistory,  slots, local, history
<1>22. ASSUME NEW t \in Threads, NEW o \in Objects, Leave(t, o)
      PROVE  Typed'
  BY <1>22, SendType, HandleType DEF Leave, Introduce, Notify, Typed, Coupled, TypeSlots, TypeWork, TypeHistory, slots, local, history
<1>23. ASSUME NEW t \in Threads, NEW p \in Players, NpcLeaves(t, p)
      PROVE  Typed'
  <2>1. screen' \in Screens
    BY <1>23, SendType DEF NpcLeaves, Typed
  <2>. QED  BY <1>23, <2>1 DEF NpcLeaves, Typed, Coupled, TypeSlots, TypeWork, TypeHistory, slots, local, history
<1>24. ASSUME NEW t \in Threads, Overwrite(t)
      PROVE  Typed'
  <2>1. Coupled'
    BY <1>24 DEF Overwrite, End, Typed, Coupled, TypeWork
  <2>. QED  BY <1>24, <2>1, EndType, PutRightType DEF Overwrite, slots, history, Typed, TypeSlots, TypeWork, TypeHistory
<1>25. CASE UNCHANGED vars
  BY <1>25 DEF vars, Typed, Coupled, TypeSlots, TypeWork, TypeHistory
<1>. QED
  BY <1>1, <1>2, <1>3, <1>4, <1>5, <1>6, <1>7, <1>8, <1>9, <1>10,
     <1>11, <1>12, <1>13, <1>14, <1>15, <1>16, <1>17, <1>18, <1>19,
     <1>20, <1>21, <1>22, <1>23, <1>24, <1>25
     DEF Next, Brief, Arrive, Continue

LEMMA AlwaysTyped == Spec => []Typed
<1>1. Init => Typed
  BY ViewAssumption DEF Init, Typed, TypeSlots, TypeWork, TypeHistory, Screens, Coupled,
     Entries, Kinds, Objects
<1>. QED  BY <1>1, TypeStep, PTL DEF Spec

\* Slots, lists, screens and the copies of the threads are what the declarations say,
\* and each pair in better order is also in the lesser orders.
THEOREM TypeCorrect == Spec => []TypeOK
BY AlwaysTyped, TypedIsType, PTL

-----------------------------------------------------------------------------
(* Kinds of steps.                                                         *)

\* A step that does nothing to lists of players and to what is known of them.
Calm ==
  /\ UNCHANGED <<view, pc, who, old, new, mutual, placed, lost>>
  /\ \A t \in Threads :
       /\ todo'[t] \subseteq todo[t]
       /\ crossed[t] \subseteq crossed'[t] /\ crossed'[t] \subseteq crossed[t] \cup {who[t]}
       /\ who[t] \in Players /\ pc[t] \in {"announce", "withdraw"} =>
            \A q \in Players : q \in todo'[t] <=> q \in todo[t]
  /\ \A p \in Players : Playing(p)' => Playing(p) /\ pos'[p] = pos[p]

\* The handler of o begins.
Starts(t, o, k) ==
  /\ Begin(t, o, k)
  /\ UNCHANGED <<view, old, new>>
  /\ pc' = [pc EXCEPT ![t] = CASE k = "login" -> "greet" [] k = "leave" -> "part"
                               [] OTHER -> "copy"]
  /\ \A s \in Threads \ {t} : todo'[s] = todo[s]
  /\ \A p \in Players : p # o => pos'[p] = pos[p] /\ state'[p] = state[p]
  /\ k # "login" => state' = state
  /\ k = "leave" => pos' = pos

\* A handler that has touched no list ends.
Ends(t) ==
  /\ pc[t] \in {"greet", "part"} /\ End(t)
  /\ UNCHANGED <<view, mutual, placed, lost>>
  /\ \A p \in Players : Playing(p)' => Playing(p) /\ pos'[p] = pos[p]

Works(t) ==
  \/ CopyList(t) \/ Scan(t) \/ Met(t)
  \/ \E q \in Players : Meet(t, q)
  \/ \E o \in Objects : Leave(t, o)

LEMMA Shapes ==
  ASSUME Typed, [Next]_vars
  PROVE  \/ Calm
         \/ \E t \in Threads :
              \/ \E o \in Objects, k \in Kinds : Starts(t, o, k)
              \/ Ends(t) \/ Works(t) \/ Overwrite(t)
<1>. DEFINE Goal == \/ Calm
                    \/ \E t \in Threads :
                         \/ \E o \in Objects, k \in Kinds : Starts(t, o, k)
                         \/ Ends(t) \/ Works(t) \/ Overwrite(t)
<1>. USE ViewAssumption
<1>1. ASSUME NEW p \in Players, Accept(p)
      PROVE  Goal
  BY <1>1 DEF Accept, Calm, Mentioned, Playing, Connected, Typed, TypeSlots, TypeWork, TypeHistory, slots, local, Objects
<1>2. ASSUME NEW p \in Players, Speak(p)
      PROVE  Goal
  BY <1>2 DEF Speak, Calm, Mentioned, Playing, Connected, Typed, TypeSlots, TypeWork, TypeHistory, slots, local, Objects
<1>3. ASSUME NEW p \in Players, NEW n \in Npcs, HitNpc(p, n)
      PROVE  Goal
  BY <1>3 DEF HitNpc, Calm, Mentioned, Playing, Connected, Typed, TypeSlots, TypeWork, TypeHistory, slots, local, Objects
<1>4. ASSUME NEW p \in Players, NEW n \in Npcs, KillNpc(p, n)
      PROVE  Goal
  BY <1>4 DEF KillNpc, Calm, Mentioned, Playing, Connected, Typed, TypeSlots, TypeWork, TypeHistory, slots, local, Objects
<1>5. ASSUME NEW p \in Players, NEW n \in Npcs, NpcHits(n, p)
      PROVE  Goal
  BY <1>5 DEF NpcHits, Calm, Mentioned, Playing, Connected, Typed, TypeSlots, TypeWork, TypeHistory, slots, local, Objects
<1>6. ASSUME NEW t \in Threads, NEW p \in Players, Login(t, p)
      PROVE  Goal
  <2>1. Starts(t, p, "login")
    BY <1>6 DEF Login, Starts, slots, Typed, TypeSlots, TypeWork, Objects
  <2>. QED  BY <2>1 DEF Objects, Kinds
<1>7. ASSUME NEW t \in Threads, NEW p \in Players, Leaves(t, p)
      PROVE  Goal
  <2>1. Starts(t, p, "leave")
    BY <1>7 DEF Leaves, Starts, slots, Typed, TypeSlots, TypeWork, Objects
  <2>. QED  BY <2>1 DEF Objects, Kinds
<1>8. ASSUME NEW t \in Threads, NEW p \in Players, Move(t, p)
      PROVE  Goal
  <2>1. Starts(t, p, "move")
    BY <1>8 DEF Move, MoveTo, Starts, Typed, TypeSlots, TypeWork, Objects
  <2>. QED  BY <2>1 DEF Objects, Kinds
<1>9. ASSUME NEW t \in Threads, NEW p \in Players, Teleport(t, p)
      PROVE  Goal
  <2>1. Starts(t, p, "teleport")
    BY <1>9 DEF Teleport, MoveTo, Starts, Typed, TypeSlots, TypeWork, Objects
  <2>. QED  BY <2>1 DEF Objects, Kinds
<1>10. ASSUME NEW t \in Threads, NEW p \in Players, NEW n \in Npcs, Die(t, n, p)
      PROVE  Goal
  <2>1. Starts(t, p, "death")
    BY <1>10 DEF Die, MoveTo, Starts, Typed, TypeSlots, TypeWork, Objects
  <2>. QED  BY <2>1 DEF Objects, Kinds
<1>11. ASSUME NEW t \in Threads, NEW n \in Npcs, NpcMove(t, n)
      PROVE  Goal
  <2>1. Starts(t, n, "move")
    BY <1>11 DEF NpcMove, MoveTo, Starts, Typed, TypeSlots, TypeWork, Objects
  <2>. QED  BY <2>1 DEF Objects, Kinds
<1>12. ASSUME NEW t \in Threads, NEW o \in Objects, Greet(t, o)
      PROVE  Goal
  BY <1>12 DEF Greet, Calm, Playing, Typed, TypeSlots, TypeWork, TypeHistory, slots, local, history, Objects
<1>13. ASSUME NEW t \in Threads, Greeted(t)
      PROVE  Goal
  <2>1. Ends(t)
    BY <1>13 DEF Greeted, Ends, Playing, slots, history, Typed, TypeSlots
  <2>. QED  BY <2>1
<1>14. ASSUME NEW t \in Threads, NEW q \in Players, PartFrom(t, q)
      PROVE  Goal
  BY <1>14 DEF PartFrom, Calm, Playing, Typed, TypeSlots, TypeWork, TypeHistory, slots, local, history, Objects
<1>15. ASSUME NEW t \in Threads, Left(t)
      PROVE  Goal
  <2>1. Ends(t)
    BY <1>15 DEF Left, Ends, Playing, slots, history, Typed, TypeSlots
  <2>. QED  BY <2>1
<1>16. ASSUME NEW t \in Threads, CopyList(t)
      PROVE  Goal
  BY <1>16 DEF Works
<1>17. ASSUME NEW t \in Threads, Scan(t)
      PROVE  Goal
  BY <1>17 DEF Works
<1>18. ASSUME NEW t \in Threads, NEW q \in Players, Meet(t, q)
      PROVE  Goal
  BY <1>18 DEF Works
<1>19. ASSUME NEW t \in Threads, NEW n \in Npcs, MeetNpc(t, n)
      PROVE  Goal
  BY <1>19 DEF MeetNpc, Calm, Playing, Typed, TypeSlots, TypeWork, TypeHistory, slots, local, history, Objects
<1>20. ASSUME NEW t \in Threads, NEW p \in Players, NpcMeets(t, p)
      PROVE  Goal
  BY <1>20 DEF NpcMeets, Calm, Playing, Typed, TypeSlots, TypeWork, TypeHistory, slots, local, history, Objects
<1>21. ASSUME NEW t \in Threads, Met(t)
      PROVE  Goal
  BY <1>21 DEF Works
<1>22. ASSUME NEW t \in Threads, NEW o \in Objects, Leave(t, o)
      PROVE  Goal
  BY <1>22 DEF Works
<1>23. ASSUME NEW t \in Threads, NEW p \in Players, NpcLeaves(t, p)
      PROVE  Goal
  BY <1>23 DEF NpcLeaves, Calm, Playing, Typed, TypeSlots, TypeWork, TypeHistory, slots, local, history, Objects
<1>24. ASSUME NEW t \in Threads, Overwrite(t)
      PROVE  Goal
  BY <1>24
<1>25. CASE UNCHANGED vars
  BY <1>25 DEF vars, Calm, Playing, Typed, TypeWork, TypeHistory
<1>. QED
  BY <1>1, <1>2, <1>3, <1>4, <1>5, <1>6, <1>7, <1>8, <1>9, <1>10,
     <1>11, <1>12, <1>13, <1>14, <1>15, <1>16, <1>17, <1>18, <1>19,
     <1>20, <1>21, <1>22, <1>23, <1>24, <1>25
     DEF Next, Brief, Arrive, Continue

-----------------------------------------------------------------------------
(* Pairs in order, and who is under way.                                   *)

InMutual(p, q) == {p, q} \in mutual
InPlaced(p, q) == {p, q} \in placed

LEMMA PairsOfIs ==
  ASSUME NEW p \in Players, NEW q \in Players, p # q, NEW o, NEW S
  PROVE  {p, q} \in PairsOf(o, S) <=> (o = p /\ q \in S) \/ (o = q /\ p \in S)
BY DEF PairsOf, Pairs

LEMMA PairSymmetric ==
  ASSUME NEW p, NEW q
  PROVE  /\ InMutual(p, q) <=> InMutual(q, p)
         /\ InPlaced(p, q) <=> InPlaced(q, p)
<1>1. {p, q} = {q, p}
  OBVIOUS
<1>. QED  BY <1>1 DEF InMutual, InPlaced

\* A pair is no longer in order when the handlers of the two overlap, or two of one.
LEMMA BeginPair ==
  ASSUME Typed, NEW t \in Threads, NEW o \in Objects, NEW k \in Kinds, Begin(t, o, k),
         NEW p \in Players, NEW q \in Players, p # q
  PROVE  /\ InMutual(p, q)' => /\ InMutual(p, q)
                               /\ o \in {p, q} => \A s \in Threads : who[s] \notin {p, q}
         /\ InPlaced(p, q)' => /\ InPlaced(p, q)
                               /\ k = "login" => o \notin {p, q}
<1>. DEFINE Others == {who[s] : s \in Threads} \ {NoOne}
            Broken == PairsOf(o, IF o \in Others THEN Players ELSE Others)
            Unshown == IF k = "login" \/ ~Playing(o) THEN PairsOf(o, Players) ELSE {}
<1>1. /\ mutual' = mutual \ Broken
      /\ placed' = placed \ (Broken \cup IF k = "login" THEN Unshown ELSE {})
  BY DEF Begin
<1>2. {p, q} \in Broken <=> \/ o = p /\ q \in (IF o \in Others THEN Players ELSE Others)
                            \/ o = q /\ p \in (IF o \in Others THEN Players ELSE Others)
  BY PairsOfIs
<1>3. k = "login" /\ o \in {p, q} => {p, q} \in Unshown
  BY PairsOfIs
<1>4. ASSUME NEW s \in Threads, who[s] \in {p, q}
      PROVE  who[s] \in Others
  BY <1>4, ViewAssumption DEF Objects
<1>5. o \in {p, q} /\ (\E s \in Threads : who[s] \in {p, q}) => {p, q} \in Broken
  <2>. SUFFICES ASSUME o \in {p, q}, NEW s \in Threads, who[s] \in {p, q}
                PROVE  {p, q} \in Broken
    OBVIOUS
  <2>1. who[s] \in Others
    BY <1>4
  <2>. HIDE DEF Others, Broken
  <2>. QED  BY <1>2, <2>1
<1>. HIDE DEF Others, Broken, Unshown
<1>6. ({p, q} \in mutual') => {p, q} \in mutual /\ {p, q} \notin Broken
  BY <1>1
<1>7. ({p, q} \in placed') => {p, q} \in placed /\ ({p, q} \notin Unshown \/ k # "login")
  BY <1>1
<1>. QED  BY <1>3, <1>5, <1>6, <1>7 DEF InMutual, InPlaced

LEMMA OverwritePair ==
  ASSUME Typed, NEW t \in Threads, PutRight(t),
         NEW p \in Players, NEW q \in Players, p # q
  PROVE  /\ InMutual(p, q)' => \/ InMutual(p, q)
                               \/ who[t] = p /\ q \in Undisturbed(t) \cap (old[t] \cup new[t])
                               \/ who[t] = q /\ p \in Undisturbed(t) \cap (old[t] \cup new[t])
         /\ InPlaced(p, q)' => \/ InPlaced(p, q)
                               \/ /\ InMutual(p, q)'
                                  /\ \/ who[t] = p /\ q \in Undisturbed(t)
                                     \/ who[t] = q /\ p \in Undisturbed(t)
<1>. DEFINE U == Undisturbed(t)
            V == U \cap (old[t] \cup new[t])
<1>1. /\ mutual' = mutual \cup PairsOf(who[t], V)
      /\ placed' = placed \cup (PairsOf(who[t], U) \cap mutual')
  BY DEF PutRight
<1>. HIDE DEF U, V
<1>2. /\ {p, q} \in PairsOf(who[t], V) => (who[t] = p /\ q \in V) \/ (who[t] = q /\ p \in V)
      /\ {p, q} \in PairsOf(who[t], U) => (who[t] = p /\ q \in U) \/ (who[t] = q /\ p \in U)
  BY PairsOfIs
<1>3. /\ ({p, q} \in mutual') => {p, q} \in mutual \/ {p, q} \in PairsOf(who[t], V)
      /\ ({p, q} \in placed') => {p, q} \in placed \/ ({p, q} \in PairsOf(who[t], U)
                                                     /\ ({p, q} \in mutual'))
  BY <1>1
<1>. QED  BY <1>2, <1>3 DEF InMutual, InPlaced, U, V

\* Two handlers under way know of each other; two of one player cost it every pair; and
\* a pair in order has not crossed.
Aware ==
  /\ \A s, t \in Threads : s # t /\ who[s] # NoOne /\ who[t] # NoOne => who[s] \in crossed[t]
  /\ \A s, t \in Threads : s # t /\ who[s] = who[t] /\ who[s] \in Players => who[s] \in lost
  /\ \A p, q \in Players : p # q /\ InMutual(p, q) =>
       /\ p \notin lost
       /\ \A t \in Threads : who[t] = p => q \notin crossed[t]

\* The handler of p has q to itself, as far as that matters.
Alone(t, p, q) ==
  /\ who[t] = p /\ p # q
  /\ InMutual(p, q) \/ q \in Undisturbed(t)

LEMMA NobodyElse ==
  ASSUME Typed, Aware, NEW t \in Threads, NEW p \in Players, NEW q \in Players,
         Alone(t, p, q)
  PROVE  /\ q \notin lost /\ q \notin crossed[t]
         /\ \A s \in Threads : s # t => who[s] \notin {p, q}
<1>. USE ViewAssumption DEF Aware, Alone, Objects
<1>1. CASE InMutual(p, q)
  <2>1. InMutual(q, p)
    BY <1>1, PairSymmetric
  <2>. QED  BY <1>1, <2>1
<1>2. CASE q \in Undisturbed(t)
  BY <1>2 DEF Undisturbed
<1>. QED  BY <1>1, <1>2

\* What changes while the handler of thread t goes on.
LEMMA StaysAlone ==
  ASSUME Typed, Aware, [Next]_vars, NEW t \in Threads, NEW p \in Players, NEW q \in Players,
         who[t] = p, Alone(t, p, q)'
  PROVE  Alone(t, p, q) /\ (InMutual(p, q)' => InMutual(p, q))
<1>. USE ViewAssumption DEF Objects
<1>1. p # q /\ who'[t] = p
  BY DEF Alone
<1>2. CASE Calm
  BY <1>1, <1>2 DEF Calm, Alone, InMutual, Undisturbed
<1>3. ASSUME NEW s \in Threads, NEW o \in Objects, NEW k \in Kinds, Starts(s, o, k)
      PROVE  Alone(t, p, q) /\ (InMutual(p, q)' => InMutual(p, q))
  <2>1. s # t
    BY <1>3 DEF Starts, Begin, Typed, Coupled, TypeWork
  <2>2. InMutual(p, q)' => InMutual(p, q)
    BY <1>1, <1>3, BeginPair DEF Starts
  <2>3. crossed[t] \subseteq crossed'[t] /\ lost \subseteq lost'
    BY <1>1, <1>3, <2>1 DEF Starts, Begin, Typed, TypeWork, TypeHistory
  <2>. QED  BY <1>1, <2>2, <2>3 DEF Alone, Undisturbed
<1>4. ASSUME NEW s \in Threads, Ends(s)
      PROVE  Alone(t, p, q) /\ (InMutual(p, q)' => InMutual(p, q))
  <2>1. s # t
    BY <1>1, <1>4 DEF Ends, End, Typed, TypeWork
  <2>2. crossed'[t] = crossed[t] /\ lost' = lost /\ mutual' = mutual
    BY <1>4, <2>1 DEF Ends, End, Typed, TypeHistory
  <2>. QED  BY <1>1, <2>2 DEF Alone, Undisturbed, InMutual
<1>5. ASSUME NEW s \in Threads, Works(s)
      PROVE  Alone(t, p, q) /\ (InMutual(p, q)' => InMutual(p, q))
  <2>1. crossed' = crossed /\ lost' = lost /\ mutual' = mutual
    BY <1>5 DEF Works, CopyList, Scan, Met, Meet, Leave, history
  <2>. QED  BY <1>1, <2>1 DEF Alone, Undisturbed, InMutual
<1>6. ASSUME NEW s \in Threads, Overwrite(s)
      PROVE  Alone(t, p, q) /\ (InMutual(p, q)' => InMutual(p, q))
  <2>1. s # t
    BY <1>1, <1>6 DEF Overwrite, End, Typed, TypeWork
  <2>2. crossed'[t] = crossed[t] /\ lost' = lost
    BY <1>6, <2>1 DEF Overwrite, End, PutRight, Typed, TypeHistory
  <2>3. who[s] # NoOne
    BY <1>6 DEF Overwrite, Typed, Coupled
  <2>4. p \in crossed[s]
    BY <1>1, <2>1, <2>3 DEF Aware
  <2>5. InMutual(p, q)' => InMutual(p, q)
    BY <1>1, <1>6, <2>4, OverwritePair DEF Overwrite, Undisturbed
  <2>. QED  BY <1>1, <2>2, <2>5 DEF Alone, Undisturbed
<1>. QED  BY <1>2, <1>3, <1>4, <1>5, <1>6, Shapes

LEMMA AwareStep ==
  ASSUME Typed, Aware, [Next]_vars
  PROVE  Aware'
<1>. USE ViewAssumption DEF Objects
<1>. DEFINE Known == \A s, t \in Threads : s # t /\ who[s] # NoOne /\ who[t] # NoOne
                       => who[s] \in crossed[t]
            Twice == \A s, t \in Threads : s # t /\ who[s] = who[t] /\ who[s] \in Players
                       => who[s] \in lost
            Clear(p, q) == InMutual(p, q) =>
                             /\ p \notin lost
                             /\ \A t \in Threads : who[t] = p => q \notin crossed[t]
            Clean == \A p, q \in Players : p # q => Clear(p, q)
<1>0. Known /\ Twice /\ Clean
  BY DEF Aware
<1>. SUFFICES Known' /\ Twice' /\ Clean'
  BY DEF Aware
<1>1. CASE Calm
  <2>1. Known' /\ Twice'
    BY <1>0, <1>1 DEF Calm
  <2>2. Clean'
    BY <1>0, <1>1 DEF Calm, InMutual
  <2>. QED  BY <2>1, <2>2
<1>2. ASSUME NEW s \in Threads, NEW o \in Objects, NEW k \in Kinds, Starts(s, o, k)
      PROVE  Known' /\ Twice' /\ Clean'
  <2>. DEFINE Others == {who[r] : r \in Threads} \ {NoOne}
  <2>1. /\ who' = [who EXCEPT ![s] = o] /\ who[s] = NoOne
        /\ lost' = lost \cup (Others \cap {o} \cap Players)
        /\ crossed' = [r \in Threads |-> IF r = s THEN Others
                                         ELSE IF who[r] = NoOne THEN {}
                                         ELSE crossed[r] \cup {o}]
    BY <1>2 DEF Starts, Begin, Typed, Coupled
  <2>2. Known'
    BY <1>0, <2>1 DEF Typed, TypeWork, TypeHistory
  <2>3. Twice'
    BY <1>0, <2>1 DEF Typed, TypeWork, TypeHistory
  <2>4. ASSUME NEW p \in Players, NEW q \in Players, p # q, InMutual(p, q)'
        PROVE  /\ p \notin lost'
               /\ \A t \in Threads : who'[t] = p => q \notin crossed'[t]
    <3>1. /\ InMutual(p, q)
          /\ o \in {p, q} => \A t \in Threads : who[t] \notin {p, q}
      BY <1>2, <2>4, BeginPair DEF Starts
    <3>2. /\ p \notin lost
          /\ \A t \in Threads : who[t] = p => q \notin crossed[t]
      BY <1>0, <2>4, <3>1
    <3>. QED  BY <2>1, <2>4, <3>1, <3>2 DEF Typed, TypeWork, TypeHistory
  <2>. QED  BY <2>2, <2>3, <2>4
<1>3. ASSUME NEW s \in Threads, Ends(s)
      PROVE  Known' /\ Twice' /\ Clean'
  <2>1. /\ who' = [who EXCEPT ![s] = NoOne] /\ lost' = lost /\ mutual' = mutual
        /\ crossed' = [crossed EXCEPT ![s] = {}]
    BY <1>3 DEF Ends, End
  <2>. QED  BY <1>0, <2>1 DEF InMutual, Typed, TypeWork, TypeHistory
<1>4. ASSUME NEW s \in Threads, Works(s)
      PROVE  Known' /\ Twice' /\ Clean'
  <2>1. UNCHANGED <<who, crossed, lost, mutual>>
    BY <1>4 DEF Works, CopyList, Scan, Met, Meet, Leave, history, local
  <2>. QED  BY <1>0, <2>1 DEF InMutual
<1>5. ASSUME NEW s \in Threads, Overwrite(s)
      PROVE  Known' /\ Twice' /\ Clean'
  <2>1. /\ who' = [who EXCEPT ![s] = NoOne] /\ lost' = lost
        /\ crossed' = [crossed EXCEPT ![s] = {}] /\ who[s] # NoOne
    BY <1>5 DEF Overwrite, End, PutRight, Typed, Coupled
  <2>2. Known' /\ Twice'
    BY <1>0, <2>1 DEF Typed, TypeWork, TypeHistory
  <2>3. ASSUME NEW p \in Players, NEW q \in Players, p # q, InMutual(p, q)'
        PROVE  /\ p \notin lost'
               /\ \A t \in Threads : who'[t] = p => q \notin crossed'[t]
    <3>1. CASE InMutual(p, q)
      BY <1>0, <2>1, <2>3, <3>1 DEF Typed, TypeWork, TypeHistory
    <3>2. CASE ~InMutual(p, q)
      <4>1. \/ who[s] = p /\ q \in Undisturbed(s)
            \/ who[s] = q /\ p \in Undisturbed(s)
        BY <1>5, <2>3, <3>2, OverwritePair DEF Overwrite
      <4>2. p \notin lost /\ {p, q} \cap crossed[s] = {}
        BY <4>1, <2>3 DEF Undisturbed
      <4>3. ASSUME NEW t \in Threads, t # s
            PROVE  who[t] \notin {p, q}
        BY <1>0, <2>1, <4>2, <4>3
      <4>. QED  BY <2>1, <4>2, <4>3 DEF Typed, TypeWork, TypeHistory
    <3>. QED  BY <3>1, <3>2
  <2>. QED  BY <2>2, <2>3
<1>. QED  BY <1>1, <1>2, <1>3, <1>4, <1>5, Shapes

-----------------------------------------------------------------------------
(* What a handler under way has done to the list of another player.        *)

Agree(p, q) == q \in view[p] <=> p \in view[q]

\* The first loop runs over new_vl, the second over those who have gone out of sight.
Shrunk ==
  \A t \in Threads : /\ pc[t] = "announce" => todo[t] \subseteq new[t]
                     /\ pc[t] = "withdraw" => todo[t] \cap new[t] = {}

\* Those it has met list p by now, and those it has left do not.
Progress(t, p, q) ==
  /\ pc[t] = "announce" /\ q \in new[t] \ todo[t] => p \in view[q]
  /\ pc[t] = "withdraw" /\ q \in new[t] => p \in view[q]
  /\ pc[t] = "withdraw" /\ q \in (old[t] \ new[t]) \ todo[t] => p \notin view[q]

\* For a pair in order the copy is the list, and agrees with what q lists as long as
\* the handler has done nothing about q.
Worth(t, p, q) ==
  /\ pc[t] \in {"scan", "announce", "withdraw"} => (q \in old[t] <=> q \in view[p])
  /\ pc[t] \in {"copy", "scan", "greet", "part"} => Agree(p, q)
  /\ pc[t] = "announce" /\ q \notin new[t] \ todo[t] => Agree(p, q)
  /\ pc[t] = "withdraw" /\ q \notin old[t] \cup new[t] => p \notin view[q]

AtWork(t, p, q) ==
  /\ Alone(t, p, q) => Progress(t, p, q)
  /\ InMutual(p, q) => Worth(t, p, q)

Resting(p, q) == InMutual(p, q) /\ ~Busy(p) /\ ~Busy(q) => Agree(p, q)

ListsInv ==
  /\ Typed /\ Aware /\ Shrunk
  /\ \A p, q \in Players : p # q =>
       /\ Resting(p, q)
       /\ \A t \in Threads : who[t] = p => AtWork(t, p, q)

\* Lists of two players change with regard to each other only by handlers of theirs.
LEMMA ListFrame ==
  ASSUME Typed, NEW s \in Threads, Works(s) \/ Overwrite(s),
         NEW p \in Players, NEW q \in Players, p # q, who[s] \notin {p, q}
  PROVE  (q \in view'[p] <=> q \in view[p]) /\ (p \in view'[q] <=> p \in view[q])
<1>. USE DEF Typed, TypeSlots
<1>1. CASE CopyList(s) \/ Scan(s) \/ Met(s)
  BY <1>1 DEF CopyList, Scan, Met, slots
<1>2. ASSUME NEW x \in Players, Meet(s, x)
      PROVE  (q \in view'[p] <=> q \in view[p]) /\ (p \in view'[q] <=> p \in view[q])
  BY <1>2 DEF Meet, Objects
<1>3. ASSUME NEW o \in Objects, Leave(s, o)
      PROVE  (q \in view'[p] <=> q \in view[p]) /\ (p \in view'[q] <=> p \in view[q])
  BY <1>3 DEF Leave, Objects
<1>4. CASE Overwrite(s)
  BY <1>4 DEF Overwrite, Objects
<1>. QED  BY <1>1, <1>2, <1>3, <1>4 DEF Works

\* Nobody touches the variables of another thread.
LEMMA ThreadFrame ==
  ASSUME Typed, NEW s \in Threads, NEW t \in Threads, s # t,
         \/ \E o \in Objects, k \in Kinds : Starts(s, o, k)
         \/ Ends(s) \/ Works(s) \/ Overwrite(s)
  PROVE  /\ pc'[t] = pc[t] /\ who'[t] = who[t] /\ old'[t] = old[t] /\ new'[t] = new[t]
         /\ todo'[t] = todo[t]
<1>. USE DEF Typed, TypeWork
<1>1. ASSUME NEW o \in Objects, NEW k \in Kinds, Starts(s, o, k)
      PROVE  pc'[t] = pc[t] /\ who'[t] = who[t] /\ old'[t] = old[t] /\ new'[t] = new[t]
             /\ todo'[t] = todo[t]
  BY <1>1 DEF Starts, Begin
<1>2. CASE Ends(s) \/ Overwrite(s)
  BY <1>2 DEF Ends, Overwrite, End
<1>3. CASE Works(s)
  BY <1>3 DEF Works, CopyList, Scan, Met, Meet, Leave, local
<1>. QED  BY <1>1, <1>2, <1>3

LEMMA ShrunkStep ==
  ASSUME Typed, Shrunk, [Next]_vars
  PROVE  Shrunk'
<1>. DEFINE Fits(t) == /\ pc[t] = "announce" => todo[t] \subseteq new[t]
                       /\ pc[t] = "withdraw" => todo[t] \cap new[t] = {}
<1>. SUFFICES ASSUME NEW t \in Threads
              PROVE  Fits(t)'
  BY DEF Shrunk
<1>. USE DEF Typed, TypeWork
<1>1. CASE Calm
  BY <1>1 DEF Calm, Shrunk
<1>2. ASSUME NEW s \in Threads, s # t,
             \/ \E o \in Objects, k \in Kinds : Starts(s, o, k)
             \/ Ends(s) \/ Works(s) \/ Overwrite(s)
      PROVE  Fits(t)'
  BY <1>2, ThreadFrame DEF Shrunk
<1>3. CASE \/ \E o \in Objects, k \in Kinds : Starts(t, o, k)
           \/ Ends(t) \/ Overwrite(t)
  BY <1>3 DEF Starts, Ends, Overwrite, End
<1>4. CASE CopyList(t) \/ Scan(t) \/ Met(t)
  BY <1>4 DEF CopyList, Scan, Met, local, Shrunk
<1>5. ASSUME NEW q \in Players, Meet(t, q)
      PROVE  Fits(t)'
  BY <1>5 DEF Meet, local, Shrunk
<1>6. ASSUME NEW o \in Objects, Leave(t, o)
      PROVE  Fits(t)'
  BY <1>6 DEF Leave, local, Shrunk
<1>. QED  BY <1>1, <1>2, <1>3, <1>4, <1>5, <1>6, Shapes DEF Works

\* The pair when the handler of p, alone with q, has overwritten the list of p.
LEMMA OverwriteAgrees ==
  ASSUME ListsInv, NEW t \in Threads, NEW p \in Players, NEW q \in Players, p # q,
         who[t] = p, Overwrite(t), InMutual(p, q)'
  PROVE  Agree(p, q)'
<1>1. view'[p] = new[t] /\ view'[q] = view[q] /\ pc[t] = "withdraw" /\ todo[t] = {}
  BY DEF Overwrite, ListsInv, Typed, TypeSlots, Objects
<1>2. \/ InMutual(p, q)
      \/ q \in Undisturbed(t) \cap (old[t] \cup new[t])
      \/ who[t] = q
  BY OverwritePair DEF Overwrite, ListsInv
<1>3. Alone(t, p, q) /\ Progress(t, p, q) /\ (InMutual(p, q) => Worth(t, p, q))
  BY <1>2 DEF Alone, ListsInv, AtWork
<1>. QED  BY <1>1, <1>2, <1>3 DEF Progress, Worth, Agree

LEMMA AgreeSymmetric ==
  ASSUME NEW p, NEW q
  PROVE  Agree(p, q) <=> Agree(q, p)
BY DEF Agree

LEMMA RestingStep ==
  ASSUME ListsInv, [Next]_vars, NEW p \in Players, NEW q \in Players, p # q
  PROVE  Resting(p, q)'
<1>. USE ViewAssumption DEF Objects
<1>. SUFFICES ASSUME InMutual(p, q)', ~Busy(p)', ~Busy(q)'
              PROVE  Agree(p, q)'
  BY DEF Resting
<1>0. Typed /\ Aware /\ Resting(p, q)
  BY DEF ListsInv
<1>1. CASE Calm
  BY <1>0, <1>1 DEF Calm, Resting, Agree, InMutual, Busy
<1>2. ASSUME NEW s \in Threads, NEW o \in Objects, NEW k \in Kinds, Starts(s, o, k)
      PROVE  Agree(p, q)'
  <2>1. who[s] = NoOne /\ \A t \in Threads \ {s} : who'[t] = who[t]
    BY <1>0, <1>2 DEF Starts, Begin, Typed, Coupled, TypeWork
  <2>2. InMutual(p, q) /\ view' = view
    BY <1>0, <1>2, BeginPair DEF Starts
  <2>3. ~Busy(p) /\ ~Busy(q)
    BY <2>1 DEF Busy
  <2>. QED  BY <1>0, <2>2, <2>3 DEF Resting, Agree
<1>3. ASSUME NEW s \in Threads, Ends(s)
      PROVE  Agree(p, q)'
  <2>1. InMutual(p, q) /\ view' = view /\ pc[s] \in {"greet", "part"}
    BY <1>3 DEF Ends, InMutual
  <2>2. CASE who[s] \notin {p, q}
    <3>1. ~Busy(p) /\ ~Busy(q)
      BY <1>0, <1>3, <2>2, ThreadFrame DEF Busy
    <3>. QED  BY <1>0, <2>1, <3>1 DEF Resting, Agree
  <2>3. CASE who[s] = p
    BY <2>1, <2>3 DEF ListsInv, AtWork, Worth, Agree
  <2>4. CASE who[s] = q
    <3>1. Worth(s, q, p)
      BY <2>1, <2>4, PairSymmetric DEF ListsInv, AtWork
    <3>. QED  BY <2>1, <3>1 DEF Worth, Agree
  <2>. QED  BY <2>2, <2>3, <2>4
<1>4. ASSUME NEW s \in Threads, Works(s)
      PROVE  Agree(p, q)'
  <2>1. InMutual(p, q) /\ who' = who
    BY <1>4 DEF Works, CopyList, Scan, Met, Meet, Leave, local, history, InMutual
  <2>2. ~Busy(p) /\ ~Busy(q)
    BY <2>1 DEF Busy
  <2>3. who[s] \notin {p, q}
    BY <2>2 DEF Busy
  <2>. QED  BY <1>0, <1>4, <2>1, <2>2, <2>3, ListFrame DEF Resting, Agree
<1>5. ASSUME NEW s \in Threads, Overwrite(s)
      PROVE  Agree(p, q)'
  <2>1. CASE who[s] \notin {p, q}
    <3>1. ~Busy(p) /\ ~Busy(q)
      BY <1>0, <1>5, <2>1, ThreadFrame DEF Busy
    <3>2. InMutual(p, q)
      BY <1>0, <1>5, <2>1, OverwritePair DEF Overwrite
    <3>. QED  BY <1>0, <1>5, <2>1, <3>1, <3>2, ListFrame DEF Resting, Agree
  <2>2. CASE who[s] = p
    BY <1>5, <2>2, OverwriteAgrees
  <2>3. CASE who[s] = q
    <3>1. InMutual(q, p)'
      BY PairSymmetric DEF InMutual
    <3>2. Agree(q, p)'
      BY <1>5, <2>3, <3>1, OverwriteAgrees
    <3>. QED  BY <3>2 DEF Agree
  <2>. QED  BY <2>1, <2>2, <2>3
<1>. QED  BY <1>0, <1>1, <1>2, <1>3, <1>4, <1>5, Shapes

\* A step of the handler itself.
LEMMA OwnStep ==
  ASSUME ListsInv, NEW t \in Threads, NEW p \in Players, NEW q \in Players, p # q,
         who[t] = p, AtWork(t, p, q), Works(t)
  PROVE  AtWork(t, p, q)'
<1>. USE DEF Typed, TypeSlots, TypeWork, Objects
<1>0. /\ Typed
      /\ pc[t] = "announce" => todo[t] \subseteq new[t]
      /\ pc[t] = "withdraw" => todo[t] \cap new[t] = {}
  BY DEF ListsInv, Shrunk
<1>1. UNCHANGED <<who, crossed, lost, mutual>>
  BY DEF Works, CopyList, Scan, Met, Meet, Leave, local, history
<1>2. Alone(t, p, q)' <=> Alone(t, p, q)
  BY <1>1 DEF Alone, InMutual, Undisturbed
<1>3. InMutual(p, q)' <=> InMutual(p, q)
  BY <1>1 DEF InMutual
<1>4. CASE CopyList(t) \/ Scan(t)
  <2>1. Progress(t, p, q)'
    BY <1>0, <1>4 DEF CopyList, Scan, Progress
  <2>2. Worth(t, p, q) => Worth(t, p, q)'
    BY <1>0, <1>4 DEF CopyList, Scan, Worth, Agree, slots
  <2>. QED  BY <1>2, <1>3, <2>1, <2>2 DEF AtWork
<1>5. CASE Met(t)
  <2>1. Progress(t, p, q) => Progress(t, p, q)'
    BY <1>0, <1>5 DEF Met, Progress, slots, local
  <2>2. Worth(t, p, q) => Worth(t, p, q)'
    BY <1>0, <1>5 DEF Met, Worth, Agree, slots, local
  <2>. QED  BY <1>2, <1>3, <2>1, <2>2 DEF AtWork
<1>6. ASSUME NEW x \in Players, Meet(t, x)
      PROVE  AtWork(t, p, q)'
  <2>1. Progress(t, p, q) => Progress(t, p, q)'
    BY <1>0, <1>6 DEF Meet, Progress, local
  <2>2. Worth(t, p, q) => Worth(t, p, q)'
    BY <1>0, <1>6 DEF Meet, Worth, Agree, local
  <2>. QED  BY <1>2, <1>3, <2>1, <2>2 DEF AtWork
<1>7. ASSUME NEW o \in Objects, Leave(t, o)
      PROVE  AtWork(t, p, q)'
  <2>1. Progress(t, p, q) => Progress(t, p, q)'
    BY <1>0, <1>7 DEF Leave, Progress, local
  <2>2. Worth(t, p, q) => Worth(t, p, q)'
    BY <1>0, <1>7 DEF Leave, Worth, Agree, local
  <2>. QED  BY <1>2, <1>3, <2>1, <2>2 DEF AtWork
<1>. QED  BY <1>4, <1>5, <1>6, <1>7 DEF Works

LEMMA AtWorkStep ==
  ASSUME ListsInv, [Next]_vars, NEW p \in Players, NEW q \in Players, p # q,
         NEW t \in Threads, who'[t] = p
  PROVE  AtWork(t, p, q)'
<1>. USE ViewAssumption DEF Objects
<1>0. Typed /\ Aware /\ Resting(p, q) /\ (who[t] = p => AtWork(t, p, q))
  BY DEF ListsInv
<1>1. CASE Calm
  <2>1. who[t] = p /\ (Alone(t, p, q)' => Alone(t, p, q)) /\ (InMutual(p, q)' => InMutual(p, q))
    BY <1>1 DEF Calm, Alone, InMutual, Undisturbed
  <2>2. Progress(t, p, q) => Progress(t, p, q)'
    BY <1>1, <2>1 DEF Calm, Progress
  <2>3. Worth(t, p, q) => Worth(t, p, q)'
    BY <1>1, <2>1 DEF Calm, Worth, Agree
  <2>. QED  BY <1>0, <2>1, <2>2, <2>3 DEF AtWork
<1>2. ASSUME NEW o \in Objects, NEW k \in Kinds, Starts(t, o, k)
      PROVE  AtWork(t, p, q)'
  <2>1. o = p /\ pc'[t] \in {"copy", "greet", "part"} /\ view' = view
    BY <1>0, <1>2 DEF Starts, Begin, Typed, TypeWork
  <2>2. Progress(t, p, q)'
    BY <2>1 DEF Progress
  <2>3. InMutual(p, q)' => Agree(p, q)
    BY <1>0, <1>2, <2>1, BeginPair DEF Starts, Resting, Busy
  <2>. QED  BY <2>1, <2>2, <2>3 DEF AtWork, Worth, Agree
<1>3. CASE Ends(t) \/ Overwrite(t)
  BY <1>0, <1>3 DEF Ends, Overwrite, End, Typed, TypeWork
<1>4. CASE Works(t)
  <2>1. who' = who
    BY <1>4 DEF Works, CopyList, Scan, Met, Meet, Leave, local
  <2>. QED  BY <1>0, <1>4, <2>1, OwnStep
<1>5. ASSUME NEW s \in Threads, s # t,
             \/ \E o \in Objects, k \in Kinds : Starts(s, o, k)
             \/ Ends(s) \/ Works(s) \/ Overwrite(s)
      PROVE  AtWork(t, p, q)'
  <2>1. /\ pc'[t] = pc[t] /\ who[t] = p /\ old'[t] = old[t] /\ new'[t] = new[t]
        /\ todo'[t] = todo[t]
    BY <1>0, <1>5, ThreadFrame
  <2>2. Alone(t, p, q)' => Alone(t, p, q) /\ (InMutual(p, q)' => InMutual(p, q))
    BY <1>0, <2>1, StaysAlone
  <2>3. InMutual(p, q)' => Alone(t, p, q)'
    BY <2>1, <1>5, ThreadFrame, <1>0 DEF Alone
  <2>4. ASSUME Alone(t, p, q)
        PROVE  (q \in view'[p] <=> q \in view[p]) /\ (p \in view'[q] <=> p \in view[q])
    <3>1. who[s] \notin {p, q}
      BY <1>0, <1>5, <2>4, NobodyElse
    <3>2. CASE \/ \E o \in Objects, k \in Kinds : Starts(s, o, k)
               \/ Ends(s)
      BY <3>2 DEF Starts, Ends
    <3>. QED  BY <1>0, <1>5, <3>1, <3>2, ListFrame
  <2>5. Alone(t, p, q) => /\ Progress(t, p, q) => Progress(t, p, q)'
                          /\ Worth(t, p, q) => Worth(t, p, q)'
    BY <2>1, <2>4 DEF Progress, Worth, Agree
  <2>. QED  BY <1>0, <2>1, <2>2, <2>3, <2>5 DEF AtWork
<1>. QED  BY <1>0, <1>1, <1>2, <1>3, <1>4, <1>5, Shapes

LEMMA ListsStep == ListsInv /\ [Next]_vars => ListsInv'
<1>. SUFFICES ASSUME ListsInv, [Next]_vars
              PROVE  ListsInv'
  OBVIOUS
<1>1. Typed /\ Aware /\ Shrunk
  BY DEF ListsInv
<1>2. Typed' /\ Aware' /\ Shrunk'
  BY <1>1, TypeStep, AwareStep, ShrunkStep
<1>. QED  BY <1>2, RestingStep, AtWorkStep DEF ListsInv

LEMMA InitLists == Init => ListsInv
<1>. SUFFICES ASSUME Init
              PROVE  ListsInv
  OBVIOUS
<1>1. Typed
  BY ViewAssumption DEF Init, Typed, TypeSlots, TypeWork, TypeHistory, Screens,
     Coupled, Entries, Kinds, Objects
<1>2. Aware /\ Shrunk
  BY ViewAssumption DEF Init, Aware, Shrunk, Objects
<1>3. \A p, q \in Players : Resting(p, q)
  BY DEF Init, Resting, Agree, Objects
<1>4. \A p \in Players, t \in Threads : who[t] # p
  BY ViewAssumption DEF Init, Objects
<1>. QED  BY <1>1, <1>2, <1>3, <1>4 DEF ListsInv

LEMMA AlwaysLists == Spec => []ListsInv
BY InitLists, ListsStep, PTL DEF Spec

\* Two players between whom nothing has come, or who have met or parted undisturbed
\* since, are in each other's list or not at all.
THEOREM ListsCorrect == Spec => []ListsMutual
<1>1. ListsInv => ListsMutual
  <2>. SUFFICES ASSUME ListsInv, NEW p \in Players, NEW q \in Players, {p, q} \in mutual,
                       AtRest({p, q})
                PROVE  q \in view[p] <=> p \in view[q]
    BY DEF ListsMutual
  <2>1. CASE p = q
    BY <2>1
  <2>2. CASE p # q
    BY <2>2 DEF ListsInv, Resting, AtRest, InMutual, Agree
  <2>. QED  BY <2>1, <2>2
<1>. QED  BY <1>1, AlwaysLists, PTL

-----------------------------------------------------------------------------
(* Lists and places.                                                       *)

BothPlay(p, q) == Playing(p) /\ Playing(q)

Right(p, q) ==
  /\ q \in view[p] => InSight(p, q)
  /\ Finds(p, q) /\ Finds(q, p) => q \in view[p]

RestingRight(p, q) ==
  InPlaced(p, q) /\ BothPlay(p, q) /\ ~Busy(p) /\ ~Busy(q) => Right(p, q)

\* What the search found stays true while the handler is alone with q.
Seen(t, p, q) ==
  Alone(t, p, q) /\ BothPlay(p, q) /\ pc[t] \in {"announce", "withdraw"} =>
    /\ q \in new[t] => InSight(p, q)
    /\ Finds(p, q) => q \in new[t]

\* A login leaves no pair in place; one who leaves does not move.
Standing(t, p, q) ==
  /\ pc[t] = "greet" => ~InPlaced(p, q)
  /\ pc[t] = "part" /\ InPlaced(p, q) /\ BothPlay(p, q) => Right(p, q)

RightInv ==
  /\ ListsInv
  /\ \A p, q \in Players : p # q =>
       /\ RestingRight(p, q)
       /\ \A t \in Threads : who[t] = p => Seen(t, p, q) /\ Standing(t, p, q)

LEMMA SightSymmetric ==
  ASSUME Typed, NEW p \in Players, NEW q \in Players
  PROVE  /\ InSight(p, q) <=> InSight(q, p)
         /\ Finds(p, q) => InSight(p, q)
BY ViewAssumption DEF InSight, Finds, Typed, TypeSlots, Objects

LEMMA RightSymmetric ==
  ASSUME Typed, NEW p \in Players, NEW q \in Players, Agree(p, q), Right(q, p)
  PROVE  Right(p, q)
BY SightSymmetric DEF Agree, Right

\* Players stay where they are and what they are while lists are brought up to date.
LEMMA PlacesFrame ==
  ASSUME Typed, NEW s \in Threads, Works(s) \/ Overwrite(s)
  PROVE  UNCHANGED <<pos, state>>
BY DEF Works, Overwrite, CopyList, Scan, Met, Meet, Leave, slots

LEMMA PlacedIsMutual ==
  ASSUME Typed, NEW p, NEW q
  PROVE  InPlaced(p, q) => InMutual(p, q)
BY DEF Typed, TypeHistory, InPlaced, InMutual

\* The handler of p has overwritten the list of p.
LEMMA OverwriteRight ==
  ASSUME RightInv, Typed', NEW t \in Threads, NEW p \in Players, NEW q \in Players, p # q,
         who[t] = p, Overwrite(t), InPlaced(p, q)', BothPlay(p, q)
  PROVE  Right(p, q)'
<1>1. view'[p] = new[t] /\ pc[t] = "withdraw" /\ UNCHANGED <<pos, state>>
  BY DEF Overwrite, RightInv, ListsInv, Typed, TypeSlots, Objects
<1>2. InPlaced(p, q) \/ q \in Undisturbed(t) \/ who[t] = q
  BY OverwritePair DEF Overwrite, RightInv, ListsInv
<1>3. Alone(t, p, q)
  BY <1>2, PlacedIsMutual DEF Alone, RightInv, ListsInv
<1>. QED  BY <1>1, <1>3 DEF RightInv, Seen, Right, InSight, Finds

LEMMA RestingRightStep ==
  ASSUME RightInv, ListsInv', [Next]_vars, NEW p \in Players, NEW q \in Players, p # q
  PROVE  RestingRight(p, q)'
<1>. USE ViewAssumption DEF Objects
<1>. SUFFICES ASSUME InPlaced(p, q)', BothPlay(p, q)', ~Busy(p)', ~Busy(q)'
              PROVE  Right(p, q)'
  BY DEF RestingRight
<1>0. Typed /\ Typed' /\ Aware /\ RestingRight(p, q) /\ ListsInv
  BY DEF RightInv, ListsInv
<1>1. CASE Calm
  <2>1. BothPlay(p, q) /\ pos'[p] = pos[p] /\ pos'[q] = pos[q]
    BY <1>1 DEF Calm, BothPlay
  <2>. QED  BY <1>0, <1>1, <2>1 DEF Calm, RestingRight, Right, InPlaced, Busy, InSight, Finds
<1>2. ASSUME NEW s \in Threads, NEW o \in Objects, NEW k \in Kinds, Starts(s, o, k)
      PROVE  Right(p, q)'
  <2>1. who'[s] = o /\ who[s] = NoOne /\ \A t \in Threads \ {s} : who'[t] = who[t]
    BY <1>0, <1>2 DEF Starts, Begin, Typed, Coupled, TypeWork
  <2>2. ~Busy(p) /\ ~Busy(q) /\ o \notin {p, q}
    BY <2>1 DEF Busy
  <2>3. InPlaced(p, q) /\ view' = view
    BY <1>0, <1>2, BeginPair DEF Starts
  <2>4. /\ pos'[p] = pos[p] /\ state'[p] = state[p]
        /\ pos'[q] = pos[q] /\ state'[q] = state[q]
    BY <1>2, <2>2 DEF Starts
  <2>. QED  BY <1>0, <2>2, <2>3, <2>4 DEF RestingRight, Right, InSight, Finds, BothPlay, Playing
<1>3. ASSUME NEW s \in Threads, Ends(s)
      PROVE  Right(p, q)'
  <2>1. /\ InPlaced(p, q) /\ BothPlay(p, q) /\ view' = view /\ pc[s] \in {"greet", "part"}
        /\ pos'[p] = pos[p] /\ pos'[q] = pos[q]
    BY <1>3 DEF Ends, InPlaced, BothPlay
  <2>2. Right(p, q) => Right(p, q)'
    BY <2>1 DEF Right, InSight, Finds
  <2>3. CASE who[s] \notin {p, q}
    <3>1. ~Busy(p) /\ ~Busy(q)
      BY <1>0, <1>3, <2>3, ThreadFrame DEF Busy
    <3>. QED  BY <1>0, <2>1, <2>2, <3>1 DEF RestingRight
  <2>4. CASE who[s] = p
    BY <2>1, <2>2, <2>4 DEF RightInv, Standing
  <2>5. CASE who[s] = q
    <3>1. InPlaced(q, p) /\ InMutual(q, p)
      BY <1>0, <2>1, PairSymmetric, PlacedIsMutual
    <3>2. Right(q, p)
      BY <2>1, <2>5, <3>1 DEF RightInv, Standing, BothPlay
    <3>3. Agree(q, p)
      BY <2>1, <2>5, <3>1 DEF RightInv, ListsInv, AtWork, Worth
    <3>4. Right(p, q)
      BY <1>0, <3>2, <3>3, AgreeSymmetric, RightSymmetric
    <3>. QED  BY <2>2, <3>4
  <2>. QED  BY <2>3, <2>4, <2>5
<1>4. ASSUME NEW s \in Threads, Works(s)
      PROVE  Right(p, q)'
  <2>1. InPlaced(p, q) /\ who' = who
    BY <1>4 DEF Works, CopyList, Scan, Met, Meet, Leave, local, history, InPlaced
  <2>2. ~Busy(p) /\ ~Busy(q)
    BY <2>1 DEF Busy
  <2>3. who[s] \notin {p, q}
    BY <2>2 DEF Busy
  <2>4. (q \in view'[p] <=> q \in view[p]) /\ UNCHANGED <<pos, state>>
    BY <1>0, <1>4, <2>3, ListFrame, PlacesFrame
  <2>. QED  BY <1>0, <2>1, <2>2, <2>4 DEF RestingRight, Right, InSight, Finds, BothPlay, Playing
<1>5. ASSUME NEW s \in Threads, Overwrite(s)
      PROVE  Right(p, q)'
  <2>0. UNCHANGED <<pos, state>>
    BY <1>0, <1>5, PlacesFrame
  <2>1. BothPlay(p, q) /\ BothPlay(q, p)
    BY <2>0 DEF BothPlay, Playing
  <2>2. CASE who[s] \notin {p, q}
    <3>1. ~Busy(p) /\ ~Busy(q)
      BY <1>0, <1>5, <2>2, ThreadFrame DEF Busy
    <3>2. InPlaced(p, q)
      BY <1>0, <1>5, <2>2, OverwritePair DEF Overwrite
    <3>3. q \in view'[p] <=> q \in view[p]
      BY <1>0, <1>5, <2>2, ListFrame
    <3>. QED  BY <1>0, <2>0, <2>1, <3>1, <3>2, <3>3 DEF RestingRight, Right, InSight, Finds
  <2>3. CASE who[s] = p
    BY <1>0, <1>5, <2>1, <2>3, OverwriteRight
  <2>4. CASE who[s] = q
    <3>1. InPlaced(q, p)' /\ InMutual(p, q)'
      BY <1>0, PairSymmetric DEF InPlaced, InMutual, Typed, TypeHistory
    <3>2. Right(q, p)'
      BY <1>0, <1>5, <2>1, <2>4, <3>1, OverwriteRight
    <3>3. Agree(p, q)'
      BY <3>1 DEF ListsInv, Resting
    <3>4. /\ InSight(p, q) <=> InSight(q, p)
      BY <1>0, SightSymmetric
    <3>5. /\ InSight(p, q)' <=> InSight(q, p)'
      BY <2>0, <3>4 DEF InSight
    <3>. QED  BY <3>2, <3>3, <3>5 DEF Right, Agree
  <2>. QED  BY <2>2, <2>3, <2>4
<1>. QED  BY <1>0, <1>1, <1>2, <1>3, <1>4, <1>5, Shapes

\* The handler that begins on another thread is not that of either.
LEMMA StartsElsewhere ==
  ASSUME Typed, NEW t \in Threads, NEW p \in Players, NEW q \in Players, who[t] = p,
         Alone(t, p, q)', NEW s \in Threads, s # t,
         NEW o \in Objects, NEW k \in Kinds, Starts(s, o, k)
  PROVE  o \notin {p, q}
<1>. USE ViewAssumption DEF Objects
<1>1. p # q
  BY DEF Alone
<1>2. CASE InMutual(p, q)'
  BY <1>1, <1>2, BeginPair DEF Starts
<1>3. CASE q \in Undisturbed(t)'
  <2>1. crossed'[t] = crossed[t] \cup {o} /\ who'[t] = p
    BY DEF Starts, Begin, Typed, TypeWork
  <2>. QED  BY <1>3, <2>1 DEF Undisturbed
<1>. QED  BY <1>2, <1>3 DEF Alone

LEMMA SeenStep ==
  ASSUME RightInv, [Next]_vars, NEW p \in Players, NEW q \in Players, p # q,
         NEW t \in Threads, who'[t] = p
  PROVE  Seen(t, p, q)'
<1>. USE ViewAssumption DEF Objects
<1>. SUFFICES ASSUME Alone(t, p, q)', BothPlay(p, q)', pc'[t] \in {"announce", "withdraw"}
              PROVE  /\ q \in new'[t] => InSight(p, q)'
                     /\ Finds(p, q)' => q \in new'[t]
  BY DEF Seen
<1>. DEFINE Goal == /\ q \in new'[t] => InSight(p, q)'
                    /\ Finds(p, q)' => q \in new'[t]
<1>0. Typed /\ Aware /\ (who[t] = p => Seen(t, p, q))
  BY DEF RightInv, ListsInv
<1>1. CASE Calm
  <2>1. /\ who[t] = p /\ pc'[t] = pc[t] /\ new'[t] = new[t]
        /\ BothPlay(p, q) /\ pos'[p] = pos[p] /\ pos'[q] = pos[q]
    BY <1>1 DEF Calm, BothPlay
  <2>2. Alone(t, p, q)
    BY <1>0, <2>1, StaysAlone
  <2>. QED  BY <1>0, <2>1, <2>2 DEF Seen, InSight, Finds
<1>2. CASE \/ \E o \in Objects, k \in Kinds : Starts(t, o, k)
           \/ Ends(t) \/ Overwrite(t)
  BY <1>0, <1>2 DEF Starts, Ends, Overwrite, End, Typed, TypeWork
<1>3. CASE Works(t)
  <2>1. who[t] = p
    BY <1>3 DEF Works, CopyList, Scan, Met, Meet, Leave, local
  <2>2. Alone(t, p, q)
    BY <1>0, <2>1, StaysAlone
  <2>3. UNCHANGED <<pos, state>>
    BY <1>0, <1>3, PlacesFrame
  <2>4. BothPlay(p, q) /\ (InSight(p, q)' <=> InSight(p, q)) /\ (Finds(p, q)' <=> Finds(p, q))
    BY <2>3 DEF BothPlay, Playing, InSight, Finds
  <2>5. CASE Scan(t)
    <3>1. q \notin lost
      BY <1>0, <2>2, NobodyElse
    <3>2. PICK S \in SUBSET Around(p) : Sure(p) \subseteq S /\ new' = [new EXCEPT ![t] = S]
      BY <2>1, <2>5 DEF Scan
    <3>3. new'[t] = S
      BY <1>0, <3>2 DEF Typed, TypeWork
    <3>4. q \in Around(p) <=> InSight(q, p)
      BY <2>4 DEF Around, BothPlay
    <3>5. Finds(p, q) /\ q \in Around(p) => q \in Sure(p)
      BY <3>1 DEF Sure, Finds
    <3>. QED  BY <1>0, <2>4, <3>2, <3>3, <3>4, <3>5, SightSymmetric
  <2>6. CASE ~Scan(t)
    <3>1. new'[t] = new[t] /\ pc[t] \in {"announce", "withdraw"}
      BY <1>0, <1>3, <2>6 DEF Works, CopyList, Met, Meet, Leave, local, Typed, TypeWork
    <3>. QED  BY <1>0, <2>1, <2>2, <2>4, <3>1 DEF Seen
  <2>. QED  BY <2>5, <2>6
<1>4. ASSUME NEW s \in Threads, s # t,
             \/ \E o \in Objects, k \in Kinds : Starts(s, o, k)
             \/ Ends(s) \/ Works(s) \/ Overwrite(s)
      PROVE  Goal
  <2>1. pc'[t] = pc[t] /\ who[t] = p /\ new'[t] = new[t]
    BY <1>0, <1>4, ThreadFrame
  <2>2. Alone(t, p, q)
    BY <1>0, <2>1, StaysAlone
  <2>3. BothPlay(p, q) /\ pos'[p] = pos[p] /\ pos'[q] = pos[q]
    <3>1. ASSUME NEW o \in Objects, NEW k \in Kinds, Starts(s, o, k)
          PROVE  BothPlay(p, q) /\ pos'[p] = pos[p] /\ pos'[q] = pos[q]
      <4>1. o \notin {p, q}
        BY <1>0, <1>4, <2>1, <3>1, StartsElsewhere
      <4>2. /\ pos'[p] = pos[p] /\ state'[p] = state[p]
            /\ pos'[q] = pos[q] /\ state'[q] = state[q]
        BY <3>1, <4>1 DEF Starts
      <4>. QED  BY <4>2 DEF BothPlay, Playing
    <3>2. CASE Ends(s)
      BY <3>2 DEF Ends, BothPlay
    <3>3. CASE Works(s) \/ Overwrite(s)
      BY <1>0, <3>3, PlacesFrame DEF BothPlay, Playing
    <3>. QED  BY <1>4, <3>1, <3>2, <3>3
  <2>. QED  BY <1>0, <2>1, <2>2, <2>3 DEF Seen, InSight, Finds
<1>. QED  BY <1>0, <1>1, <1>2, <1>3, <1>4, Shapes

LEMMA StandingStep ==
  ASSUME RightInv, Typed', [Next]_vars, NEW p \in Players, NEW q \in Players, p # q,
         NEW t \in Threads, who'[t] = p
  PROVE  Standing(t, p, q)'
<1>. USE ViewAssumption DEF Objects
<1>0. Typed /\ Aware /\ RestingRight(p, q) /\ (who[t] = p => Standing(t, p, q))
  BY DEF RightInv, ListsInv
<1>1. CASE Calm
  BY <1>0, <1>1 DEF Calm, Standing, Right, InPlaced, BothPlay, InSight, Finds
<1>2. ASSUME NEW o \in Objects, NEW k \in Kinds, Starts(t, o, k)
      PROVE  Standing(t, p, q)'
  <2>1. /\ o = p /\ view' = view
        /\ pc'[t] = (CASE k = "login" -> "greet" [] k = "leave" -> "part" [] OTHER -> "copy")
    BY <1>0, <1>2 DEF Starts, Begin, Typed, TypeWork
  <2>2. InPlaced(p, q)' => InMutual(p, q)'
    BY DEF InPlaced, InMutual, Typed, TypeHistory
  <2>3. InPlaced(p, q)' => InPlaced(p, q) /\ k # "login" /\ ~Busy(p) /\ ~Busy(q)
    BY <1>0, <1>2, <2>1, <2>2, BeginPair DEF Starts, Busy
  <2>4. k = "leave" => UNCHANGED <<pos, state>>
    BY <1>2 DEF Starts
  <2>. QED  BY <1>0, <2>1, <2>3, <2>4
            DEF Standing, RestingRight, Right, BothPlay, Playing, InSight, Finds
<1>3. CASE Ends(t) \/ Overwrite(t)
  BY <1>0, <1>3 DEF Ends, Overwrite, End, Typed, TypeWork
<1>4. CASE Works(t)
  <2>1. pc'[t] \notin {"greet", "part"}
    BY <1>0, <1>4 DEF Works, CopyList, Scan, Met, Meet, Leave, Typed, TypeWork
  <2>. QED  BY <2>1 DEF Standing
<1>5. ASSUME NEW s \in Threads, s # t,
             \/ \E o \in Objects, k \in Kinds : Starts(s, o, k)
             \/ Ends(s) \/ Works(s) \/ Overwrite(s)
      PROVE  Standing(t, p, q)'
  <2>. SUFFICES ASSUME InPlaced(p, q)'
                PROVE  Standing(t, p, q)'
    BY DEF Standing
  <2>1. pc'[t] = pc[t] /\ who[t] = p
    BY <1>0, <1>5, ThreadFrame
  <2>2. Alone(t, p, q)'
    BY <2>1 DEF Alone, InPlaced, InMutual, Typed, TypeHistory
  <2>3. Alone(t, p, q) /\ InMutual(p, q)
    BY <1>0, <2>1, <2>2, StaysAlone DEF InPlaced, InMutual, Typed, TypeHistory
  <2>4. who[s] \notin {p, q}
    BY <1>0, <1>5, <2>3, NobodyElse
  <2>5. /\ InPlaced(p, q) /\ (q \in view'[p] <=> q \in view[p])
        /\ BothPlay(p, q)' => BothPlay(p, q) /\ pos'[p] = pos[p] /\ pos'[q] = pos[q]
    <3>1. ASSUME NEW o \in Objects, NEW k \in Kinds, Starts(s, o, k)
          PROVE  /\ InPlaced(p, q) /\ (q \in view'[p] <=> q \in view[p])
                 /\ BothPlay(p, q)' => BothPlay(p, q) /\ pos'[p] = pos[p] /\ pos'[q] = pos[q]
      <4>1. o \notin {p, q}
        BY <1>0, <1>5, <2>1, <2>2, <3>1, StartsElsewhere
      <4>2. /\ pos'[p] = pos[p] /\ state'[p] = state[p]
            /\ pos'[q] = pos[q] /\ state'[q] = state[q]
        BY <3>1, <4>1 DEF Starts
      <4>3. InPlaced(p, q) /\ view' = view
        BY <1>0, <3>1, BeginPair DEF Starts
      <4>. QED  BY <4>2, <4>3 DEF BothPlay, Playing
    <3>2. CASE Ends(s)
      BY <3>2 DEF Ends, BothPlay, InPlaced
    <3>3. CASE Works(s)
      <4>1. InPlaced(p, q)
        BY <3>3 DEF Works, CopyList, Scan, Met, Meet, Leave, history, InPlaced
      <4>. QED  BY <1>0, <2>4, <3>3, <4>1, PlacesFrame, ListFrame DEF BothPlay, Playing
    <3>4. CASE Overwrite(s)
      <4>1. InPlaced(p, q)
        BY <1>0, <2>4, <3>4, OverwritePair DEF Overwrite
      <4>. QED  BY <1>0, <2>4, <3>4, <4>1, PlacesFrame, ListFrame DEF BothPlay, Playing
    <3>. QED  BY <1>5, <3>1, <3>2, <3>3, <3>4
  <2>. QED  BY <1>0, <2>1, <2>5 DEF Standing, Right, InSight, Finds
<1>. QED  BY <1>0, <1>1, <1>2, <1>3, <1>4, <1>5, Shapes

LEMMA RightStep == RightInv /\ [Next]_vars => RightInv'
<1>. SUFFICES ASSUME RightInv, [Next]_vars
              PROVE  RightInv'
  OBVIOUS
<1>1. ListsInv' /\ Typed'
  BY ListsStep DEF RightInv, ListsInv
<1>. QED  BY <1>1, RestingRightStep, SeenStep, StandingStep DEF RightInv

\* Two players who have both been in the game while one of them moved, and whom nothing
\* has come between since, are listed only if in sight, and surely if each would find
\* the other.
THEOREM ListsUpToDate == Spec => []ListsTrue
<1>1. ASSUME Init
      PROVE  RightInv
  <2>1. ListsInv
    BY <1>1, InitLists
  <2>2. \A p \in Players : state[p] = "unused" /\ p \notin Npcs
    BY <1>1, ViewAssumption DEF Init
  <2>3. \A p \in Players, t \in Threads : who[t] # p
    BY <1>1, ViewAssumption DEF Init, Objects
  <2>. QED  BY <2>1, <2>2, <2>3 DEF RightInv, RestingRight, BothPlay, Playing
<1>2. RightInv => ListsTrue
  <2>. SUFFICES ASSUME RightInv, NEW p \in Players, NEW q \in Players, {p, q} \in placed,
                       AtRest({p, q}), Playing(p), Playing(q)
                PROVE  Right(p, q)
    BY DEF ListsTrue, Right
  <2>1. p # q
    <3>1. {p, q} \in Pairs
      BY DEF RightInv, ListsInv, Typed, TypeHistory
    <3>. QED  BY <3>1 DEF Pairs
  <2>. QED  BY <2>1 DEF RightInv, RestingRight, AtRest, InPlaced, BothPlay
<1>. QED  BY <1>1, <1>2, RightStep, PTL DEF Spec

=============================================================================
