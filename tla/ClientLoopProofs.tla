-------------------------- MODULE ClientLoopProofs --------------------------
(***************************************************************************)
(* Theorems about the main loop of the game client: on any map and with    *)
(* any number of packets on the way, client and server come to agree on    *)
(* place and facing, and what stops the player is on the screen.           *)
(***************************************************************************)
EXTENDS ClientLoop, TLAPS

UpPacket == [type : {"login", "attack", "chat", "teleport"}]
            \cup [type : {"move"}, direction : 0 .. 3]
DownPacket == [type : {"info", "move"}, at : Tiles]

Wires == up \in Seq(UpPacket) /\ down \in Seq(DownPacket)

\* The last packet on the way to the client, or else the client itself, knows
\* where the player is; the client knows who it is or is about to hear it.
PlaceInv ==
  session = "INGAME" =>
    IF down = <<>>
    THEN /\ known /\ avatar = <<x, y>>
         /\ g_left_x = x - SCREEN \div 2 /\ g_top_y = y - SCREEN \div 2
    ELSE /\ down[Len(down)].at = <<x, y>>
         /\ known \/ \E k \in 1 .. Len(down) : down[k].type = "info"

Turns(s) == {k \in 1 .. Len(s) : s[k].type = "move" /\ s[k].direction \in {2, 3}}

\* The last key left or right that is still on the way tells how the client
\* faces; without one the server agrees, unless its last step was another.
FacingInv ==
  /\ \A k \in Turns(up) :
       (\A j \in Turns(up) : j <= k) => facing = 2 * up[k].direction - 5
  /\ Turns(up) = {} /\ aligned => facing = dir

-----------------------------------------------------------------------------
(* Types.                                                                  *)

LEMMA TilesType == /\ Tiles \subseteq Int \X Int /\ <<0, 0>> \in Tiles
                   /\ \A t \in Tiles : t[1] \in 0 .. W_WIDTH - 1 /\ t[2] \in 0 .. W_HEIGHT - 1
                   /\ \A a \in 0 .. W_WIDTH - 1, b \in 0 .. W_HEIGHT - 1 : <<a, b>> \in Tiles
<1>1. W_WIDTH \in Nat \ {0} /\ W_HEIGHT \in Nat \ {0}
  BY ClientLoopAssumption
<1>2. \A t \in Tiles : t[1] \in 0 .. W_WIDTH - 1 /\ t[2] \in 0 .. W_HEIGHT - 1
  BY DEF Tiles
<1>3. \A a \in 0 .. W_WIDTH - 1, b \in 0 .. W_HEIGHT - 1 : <<a, b>> \in Tiles
  BY DEF Tiles
<1>4. Tiles \subseteq Int \X Int /\ <<0, 0>> \in Tiles
  BY <1>1 DEF Tiles
<1> QED BY <1>2, <1>3, <1>4

LEMMA TargetOnMap == ASSUME <<x, y>> \in Tiles, NEW d \in 0 .. 3 PROVE Target(d) \in Tiles
<1> x \in 0 .. W_WIDTH - 1 /\ y \in 0 .. W_HEIGHT - 1 /\ W_WIDTH \in Nat /\ W_HEIGHT \in Nat
  BY ClientLoopAssumption DEF Tiles
<1>1. CASE d = 0 /\ y > 0
  <2>1. Target(d) = <<x, y - 1>>
    BY <1>1 DEF Target, GoesLeft, GoesRight
  <2> QED BY <1>1, <2>1, TilesType
<1>2. CASE d = 1 /\ y < W_HEIGHT - 1
  <2>1. Target(d) = <<x, y + 1>>
    BY <1>2 DEF Target, GoesLeft, GoesRight
  <2> QED BY <1>2, <2>1, TilesType
<1>3. CASE GoesLeft(d)
  <2>1. Target(d) = <<x - 1, y>>
    BY <1>3 DEF Target, GoesLeft, GoesRight
  <2> QED BY <1>3, <2>1, TilesType DEF GoesLeft
<1>4. CASE GoesRight(d)
  <2>1. Target(d) = <<x + 1, y>>
    BY <1>4 DEF Target, GoesLeft, GoesRight
  <2> QED BY <1>4, <2>1, TilesType DEF GoesRight
<1>5. CASE ~(d = 0 /\ y > 0) /\ ~(d = 1 /\ y < W_HEIGHT - 1) /\ ~GoesLeft(d) /\ ~GoesRight(d)
  <2>1. Target(d) = <<x, y>>
    BY <1>5 DEF Target
  <2> QED BY <2>1
<1> QED BY <1>1, <1>2, <1>3, <1>4, <1>5

\* What the first packet on the way to the server is.
LEMMA HeadUp ==
  ASSUME Wires, up # <<>>
  PROVE  /\ Head(up) \in UpPacket /\ Tail(up) \in Seq(UpPacket)
         /\ Head(up) = up[1] /\ Len(up) \in Nat \ {0} /\ Len(Tail(up)) = Len(up) - 1
         /\ \A k \in 1 .. Len(up) - 1 : Tail(up)[k] = up[k + 1]
         /\ Head(up).type = "move" => Head(up).direction \in 0 .. 3
BY DEF Wires, UpPacket

LEMMA HeadDown ==
  ASSUME Wires, down # <<>>
  PROVE  /\ Head(down) \in DownPacket /\ Tail(down) \in Seq(DownPacket)
         /\ Head(down) = down[1] /\ Len(down) \in Nat \ {0} /\ Len(Tail(down)) = Len(down) - 1
         /\ \A k \in 1 .. Len(down) - 1 : Tail(down)[k] = down[k + 1]
BY DEF Wires

LEMMA WiresInit == ASSUME Init PROVE Wires
BY DEF Init, Wires, UpPacket

\* Packets sent and packets taken leave packets.
LEMMA WiresStep == ASSUME TypeOK, Wires, [Next]_vars PROVE Wires'
<1> USE DEF Post
<1>1. ASSUME NEW d \in 0 .. 3, Arrow(d) PROVE Wires'
  BY <1>1 DEF Arrow, Wires, UpPacket
<1>2. CASE Control
  BY <1>2 DEF Control, Wires, UpPacket
<1>3. CASE Enter
  <2>1. up' = up \/ up' = Append(up, [type |-> "chat"])
    BY <1>3 DEF Enter
  <2>2. down' = down
    BY <1>3 DEF Enter
  <2> QED BY <2>1, <2>2 DEF Wires, UpPacket
<1>8. ASSUME NEW button \in {"chat", "teleport", "none"}, Click(button) PROVE Wires'
  BY <1>8 DEF Click, Wires
<1>9. CASE Erase \/ Type \/ UNCHANGED vars
  BY <1>9 DEF Erase, Type, vars, Wires
<1>4. CASE Frame
  <2>1. up' \in Seq(UpPacket)
    BY SMTT(30), <1>4 DEF Frame, AskTeleport, Wires, UpPacket
  <2>2. down' \in Seq(DownPacket)
    BY <1>4, HeadDown DEF Frame, Receive, Wires
  <2> QED BY <2>1, <2>2 DEF Wires
<1>5. CASE Login \/ Ignore
  BY <1>5, HeadUp DEF Login, Ignore, Take, Wires
<1>6. CASE Answer \/ Teleport \/ Die
  <2>1. \E t \in Tiles, type \in {"info", "move"} : Reply(type, t)
    BY <1>6 DEF Answer, Teleport, Die, Jump
  <2>2. up' \in Seq(UpPacket)
    BY <1>6, HeadUp DEF Answer, Teleport, Die, Take, Wires
  <2> QED BY <2>1, <2>2 DEF Reply, Wires, DownPacket
<1>7. CASE Move
  <2>1. Head(up).direction \in 0 .. 3 /\ up' \in Seq(UpPacket)
    BY <1>7, HeadUp DEF Move, Take
  <2>2. Target(Head(up).direction) \in Tiles
    BY <2>1, TargetOnMap DEF TypeOK
  <2>3. [type |-> "move", at |-> Target(Head(up).direction)] \in DownPacket
    BY <2>2 DEF DownPacket
  <2> QED BY SMTT(30), <1>7, <2>1, <2>3 DEF Move, Reply, Wires
<1> QED BY <1>1, <1>2, <1>3, <1>4, <1>5, <1>6, <1>7, <1>8, <1>9 DEF Next, Event, Serve

LEMMA TypeInit == ASSUME Init PROVE TypeOK
<1>1. aligned \in BOOLEAN
  BY DEF Init
<1>2. Wires
  BY WiresInit
<1>3. /\ \A p \in UpPacket : p.type \in {"login", "move", "attack", "chat", "teleport"}
      /\ \A p \in DownPacket : p.type \in {"info", "move"} /\ p.at \in Tiles
  BY DEF UpPacket, DownPacket
<1>4. /\ \A k \in 1 .. Len(up) : up[k] \in UpPacket
      /\ \A k \in 1 .. Len(down) : down[k] \in DownPacket
  BY <1>2 DEF Wires
<1>5. /\ \A k \in 1 .. Len(up) : up[k].type \in {"login", "move", "attack", "chat", "teleport"}
      /\ \A k \in 1 .. Len(down) : down[k].type \in {"info", "move"} /\ down[k].at \in Tiles
  BY <1>3, <1>4
<1>6. <<x, y>> \in Tiles /\ dir \in {-1, 1} /\ session = "ALLOC"
  BY TilesType DEF Init
<1>7. /\ m_KeyFrame \in 0 .. animationframe - 1 /\ chatcontent \in 0 .. CHAT_SIZE
      /\ known \in BOOLEAN /\ facing = 1 /\ m_state = "IDLE"
      /\ bChattingmode \in BOOLEAN /\ btelselectmode \in BOOLEAN
  <2>1. animationframe \in Nat \ {0} /\ CHAT_SIZE \in Nat
    BY ClientLoopAssumption
  <2>2. client_initialize
    BY DEF Init
  <2>3. m_KeyFrame = 0 /\ chatcontent = 0
    BY <2>2 DEF client_initialize
  <2>4. m_KeyFrame \in 0 .. animationframe - 1 /\ chatcontent \in 0 .. CHAT_SIZE
    BY <2>1, <2>3
  <2> QED BY <2>2, <2>4 DEF client_initialize
<1> QED BY <1>1, <1>5, <1>6, <1>7 DEF TypeOK

LEMMA TypeStep == ASSUME TypeOK, Wires, [Next]_vars PROVE TypeOK'
<1> Wires'
  BY WiresStep
<1>1. /\ \A k \in 1 .. Len(up') : up'[k].type \in {"login", "move", "attack", "chat", "teleport"}
      /\ \A k \in 1 .. Len(down') : down'[k].type \in {"info", "move"} /\ down'[k].at \in Tiles
  <2>1. /\ \A p \in UpPacket : p.type \in {"login", "move", "attack", "chat", "teleport"}
        /\ \A p \in DownPacket : p.type \in {"info", "move"} /\ p.at \in Tiles
    BY DEF UpPacket, DownPacket
  <2>2. /\ \A k \in 1 .. Len(up') : up'[k] \in UpPacket
        /\ \A k \in 1 .. Len(down') : down'[k] \in DownPacket
    BY DEF Wires
  <2> QED BY <2>1, <2>2
<1> SUFFICES /\ session' \in {"ALLOC", "asked", "INGAME"}
             /\ <<x', y'>> \in Tiles /\ dir' \in {-1, 1} /\ aligned' \in BOOLEAN
             /\ known' \in BOOLEAN /\ facing' \in {-1, 1}
             /\ m_state' \in {"IDLE", "WALK", "ATTACK"} /\ m_KeyFrame' \in 0 .. animationframe - 1
             /\ bChattingmode' \in BOOLEAN /\ btelselectmode' \in BOOLEAN
             /\ chatcontent' \in 0 .. CHAT_SIZE
  BY <1>1 DEF TypeOK
<1> CHAT_SIZE \in Nat \ {0} /\ animationframe \in Nat \ {0}
  BY ClientLoopAssumption
<1> USE DEF TypeOK, slot, self, input
<1>2. ASSUME NEW d \in 0 .. 3, Arrow(d) PROVE TypeOK'
  BY <1>1, <1>2 DEF Arrow
<1>3. ASSUME NEW button \in {"chat", "teleport", "none"}, Click(button) PROVE TypeOK'
  BY <1>1, <1>3 DEF Click
<1>4. CASE Control \/ UNCHANGED vars
  BY <1>1, <1>4 DEF Control, vars
<1>9. CASE Erase \/ Type
  BY <1>1, <1>9 DEF Erase, Type
<1>10. CASE Enter
  <2>1. chatcontent' = 0 /\ bChattingmode' \in BOOLEAN
    BY <1>10 DEF Enter
  <2>2. UNCHANGED <<session, x, y, dir, aligned, known, facing, m_state, m_KeyFrame, btelselectmode>>
    BY <1>10 DEF Enter
  <2> QED BY <1>1, <2>1, <2>2
<1>5. CASE Frame
  <2>1. m_KeyFrame' \in 0 .. animationframe - 1 /\ m_state' \in {"IDLE", "WALK", "ATTACK"}
    BY <1>5 DEF Frame, Animate
  <2>2. known' \in BOOLEAN
    BY <1>5 DEF Frame, Receive
  <2> QED BY <1>1, <1>5, <2>1, <2>2 DEF Frame, AskTeleport
<1>6. CASE Login \/ Ignore
  BY <1>1, <1>6 DEF Login, Ignore
<1>7. CASE Answer \/ Teleport \/ Die
  <2>1. <<x', y'>> \in Tiles
    BY <1>7, TilesType DEF Answer, Teleport, Die, Jump
  <2> QED BY <1>1, <1>7, <2>1 DEF Answer, Teleport, Die, Jump
<1>8. CASE Move
  <2>1. Head(up).direction \in 0 .. 3
    BY <1>8, HeadUp DEF Move, Take
  <2>2. Target(Head(up).direction) \in Tiles
    BY <2>1, TargetOnMap
  <2>3. <<x', y'>> \in Tiles
    BY <1>8, <2>2, TilesType DEF Move
  <2>4. dir' \in {-1, 1} /\ aligned' \in BOOLEAN
    BY <1>8 DEF Move, Facing, Aligned
  <2> QED BY <1>1, <1>8, <2>3, <2>4 DEF Move
<1> QED BY <1>2, <1>3, <1>4, <1>5, <1>6, <1>7, <1>8, <1>9, <1>10 DEF Next, Event, Serve

-----------------------------------------------------------------------------
(* Place.                                                                  *)

LEMMA PlaceStep == ASSUME Wires, PlaceInv, [Next]_vars PROVE PlaceInv'
<1>1. CASE Event \/ Ignore \/ UNCHANGED vars
  <2>1. UNCHANGED <<session, x, y, down, known, avatar, g_left_x, g_top_y>>
    <3>1. ASSUME NEW d, Arrow(d) PROVE UNCHANGED <<session, x, y, down, known, avatar, g_left_x, g_top_y>>
      BY <3>1 DEF Arrow, slot
    <3>2. ASSUME NEW button, Click(button)
          PROVE  UNCHANGED <<session, x, y, down, known, avatar, g_left_x, g_top_y>>
      BY <3>2 DEF Click, slot, self
    <3> QED BY <1>1, <3>1, <3>2 DEF Event, Control, Erase, Type, Enter, Ignore, vars, slot, self
  <2> QED BY <2>1 DEF PlaceInv
<1>2. CASE Frame
  <2>1. UNCHANGED <<session, x, y>>
    BY <1>2 DEF Frame, slot
  <2>2. CASE UNCHANGED <<down, known, avatar, g_left_x, g_top_y>>
    BY <2>1, <2>2 DEF PlaceInv
  <2>3. CASE down # <<>> /\ down' = Tail(down)
    <3> SUFFICES ASSUME session = "INGAME" PROVE PlaceInv'
      BY <2>1 DEF PlaceInv
    <3>1. /\ Len(down) \in Nat \ {0} /\ Head(down) = down[1] /\ Len(down') = Len(down) - 1
          /\ \A k \in 1 .. Len(down) - 1 : down'[k] = down[k + 1]
      BY <2>3, HeadDown
    <3>2. /\ known \/ down[1].type = "info" => known'
          /\ known' => /\ avatar' = down[1].at
                        /\ g_left_x' = down[1].at[1] - SCREEN \div 2
                        /\ g_top_y' = down[1].at[2] - SCREEN \div 2
      <4>1. down' # down
        BY <3>1
      <4>2. /\ known' = (known \/ Head(down).type = "info")
            /\ known' => /\ avatar' = Head(down).at
                          /\ g_left_x' = Head(down).at[1] - SCREEN \div 2
                          /\ g_top_y' = Head(down).at[2] - SCREEN \div 2
        BY <1>2, <4>1, Zenon DEF Frame, Receive
      <4>3. known \/ Head(down).type = "info" => known'
        BY <4>2, Zenon
      <4> QED BY <3>1, <4>2, <4>3
    <3>3. /\ down[Len(down)].at = <<x, y>>
          /\ known \/ \E k \in 1 .. Len(down) : down[k].type = "info"
      BY <2>3 DEF PlaceInv
    <3>4. CASE Len(down) = 1
      <4>1. down' = <<>>
        BY <2>3, <3>4, HeadDown
      <4>2. known' /\ down[1].at = <<x, y>>
        BY <3>2, <3>3, <3>4
      <4>3. avatar' = down[1].at /\ g_left_x' = down[1].at[1] - SCREEN \div 2
                                  /\ g_top_y' = down[1].at[2] - SCREEN \div 2
        BY <3>2, <4>2
      <4> QED BY <2>1, <4>1, <4>2, <4>3 DEF PlaceInv
    <3>5. CASE Len(down) # 1
      <4>1. Len(down') \in Nat \ {0} /\ down'[Len(down')] = down[Len(down)] /\ down' # <<>>
        BY <3>1, <3>5
      <4>2. known' \/ \E k \in 1 .. Len(down') : down'[k].type = "info"
        <5>1. CASE known \/ down[1].type = "info"
          BY <3>2, <5>1
        <5>2. ASSUME NEW k \in 1 .. Len(down), down[k].type = "info", k # 1
              PROVE  \E j \in 1 .. Len(down') : down'[j].type = "info"
          <6>1. k - 1 \in 1 .. Len(down') /\ down'[k - 1] = down[k]
            BY <3>1, <5>2
          <6> QED BY <5>2, <6>1
        <5> QED BY <3>3, <5>1, <5>2
      <4> QED BY <2>1, <3>3, <4>1, <4>2 DEF PlaceInv
    <3> QED BY <3>4, <3>5
  <2> QED BY <1>2, <2>2, <2>3 DEF Frame, Receive
<1>3. CASE Login
  BY <1>3 DEF Login, PlaceInv
<1>4. ASSUME NEW type, NEW t, Reply(type, t), x' = t[1], y' = t[2], t = <<t[1], t[2]>>,
             UNCHANGED <<known>>,
             type = "info" \/ session' = session
      PROVE  PlaceInv'
  <2>1. /\ Len(down) \in Nat /\ Len(down') = Len(down) + 1 /\ down' # <<>>
        /\ down'[Len(down')] = [type |-> type, at |-> t]
        /\ \A k \in 1 .. Len(down) : down'[k] = down[k]
    BY SMTT(30), <1>4 DEF Reply, Wires
  <2>2. down'[Len(down')].at = <<x', y'>> /\ down'[Len(down')].type = type
    BY <1>4, <2>1
  <2>3. session' = "INGAME" => known' \/ \E k \in 1 .. Len(down') : down'[k].type = "info"
    <3>1. CASE type = "info"
      BY <2>1, <2>2, <3>1
    <3>2. CASE session' = session
      BY <1>4, <2>1, <3>2 DEF PlaceInv
    <3> QED BY <1>4, <3>1, <3>2
  <2> QED BY <2>1, <2>2, <2>3 DEF PlaceInv
<1>5. CASE Answer
  <2>1. PICK t \in Tiles : x' = t[1] /\ y' = t[2] /\ Reply("info", t) /\ UNCHANGED known
    BY <1>5 DEF Answer, self
  <2> QED BY <1>4, <2>1 DEF Tiles
<1>6. CASE Teleport \/ Die
  <2>1. PICK t \in Tiles : x' = t[1] /\ y' = t[2] /\ Reply("move", t) /\ UNCHANGED <<known, session>>
    BY <1>6 DEF Teleport, Die, Jump, self
  <2> QED BY <1>4, <2>1 DEF Tiles
<1>7. CASE Move
  <2>1. Head(up).direction \in 0 .. 3
    BY <1>7, HeadUp DEF Move, Take
  <2>2. CASE Blocked(Target(Head(up).direction))
    BY <1>7, <2>2 DEF Move, PlaceInv, self
  <2>3. CASE ~Blocked(Target(Head(up).direction))
    <3> DEFINE t == Target(Head(up).direction)
    <3>1. x' = t[1] /\ y' = t[2] /\ Reply("move", t) /\ UNCHANGED <<known, session>>
      BY <1>7, <2>3 DEF Move, self
    <3>2. t = <<t[1], t[2]>>
      BY DEF Target
    <3> HIDE DEF t
    <3> QED BY <1>4, <3>1, <3>2
  <2> QED BY <2>2, <2>3
<1> QED BY <1>1, <1>2, <1>3, <1>5, <1>6, <1>7 DEF Next, Serve

-----------------------------------------------------------------------------
(* Facing.                                                                 *)

\* A packet that is no key left or right changes nothing.
LEMMA TurnsAppend ==
  ASSUME Wires, NEW p, up' = Append(up, p), ~(p.type = "move" /\ p.direction \in {2, 3}),
         UNCHANGED <<facing, dir, aligned>>, FacingInv
  PROVE  FacingInv'
<1>1. /\ Len(up) \in Nat /\ Len(up') = Len(up) + 1 /\ up'[Len(up')] = p
      /\ \A k \in 1 .. Len(up) : up'[k] = up[k]
  BY DEF Wires
<1>2. Turns(up') = Turns(up)
  BY <1>1 DEF Turns
<1>3. \A k \in Turns(up) : up'[k] = up[k]
  BY <1>1 DEF Turns
<1> QED BY <1>2, <1>3 DEF FacingInv

LEMMA FacingStep == ASSUME Wires, FacingInv, [Next]_vars PROVE FacingInv'
<1>1. ASSUME NEW d \in 0 .. 3, Arrow(d) PROVE FacingInv'
  <2>1. up' = Append(up, [type |-> "move", direction |-> d]) /\ UNCHANGED <<dir, aligned>>
    BY <1>1 DEF Arrow, Post, slot
  <2>2. CASE d \in {0, 1}
    <3>1. facing' = facing
      BY <1>1, <2>2 DEF Arrow
    <3> QED BY <2>1, <2>2, <3>1, TurnsAppend
  <2>3. CASE d \in {2, 3}
    <3>1. facing' = 2 * d - 5
      BY <1>1, <2>3 DEF Arrow
    <3>2. /\ Len(up) \in Nat /\ Len(up') = Len(up) + 1 /\ up'[Len(up')].direction = d
          /\ up'[Len(up')].type = "move"
      BY <2>1 DEF Wires
    <3>3. Len(up') \in Turns(up') /\ \A k \in Turns(up') : k \in 1 .. Len(up')
      BY <2>3, <3>2 DEF Turns
    <3>4. ASSUME NEW k \in Turns(up'), \A j \in Turns(up') : j <= k
          PROVE  facing' = 2 * up'[k].direction - 5
      <4>1. k = Len(up')
        BY <3>2, <3>3, <3>4
      <4> QED BY <3>1, <3>2, <4>1
    <3> QED BY <3>3, <3>4 DEF FacingInv
  <2> QED BY <2>2, <2>3
<1>2. CASE UNCHANGED <<up, facing, dir, aligned>>
  BY <1>2 DEF FacingInv
<1>3. CASE Control \/ Enter
  <2>1. \/ \E p \in [type : {"attack", "chat"}] : up' = Append(up, p)
        \/ UNCHANGED up
    BY <1>3 DEF Control, Enter, Post
  <2>2. UNCHANGED <<facing, dir, aligned>>
    BY <1>3 DEF Control, Enter, slot, self
  <2> QED BY <1>2, <2>1, <2>2, TurnsAppend
<1>4. CASE Frame
  <2>1. up' = Append(up, [type |-> "teleport"]) \/ UNCHANGED up
    BY <1>4 DEF Frame, AskTeleport, Post
  <2>2. UNCHANGED <<facing, dir, aligned>>
    BY <1>4 DEF Frame, slot
  <2> QED BY <1>2, <2>1, <2>2, TurnsAppend
<1>5. ASSUME up # <<>>, up' = Tail(up), UNCHANGED facing,
             \/ Head(up).type # "move" /\ UNCHANGED <<dir, aligned>>
             \/ /\ Head(up).type = "move"
                /\ LET d == Head(up).direction IN
                     /\ d \in 0 .. 3
                     /\ dir' = Facing(d)
                     /\ aligned' = Aligned(d)
      PROVE  FacingInv'
  <2>1. /\ Len(up) \in Nat \ {0} /\ Head(up) = up[1] /\ Len(up') = Len(up) - 1
        /\ \A k \in 1 .. Len(up) - 1 : up'[k] = up[k + 1]
    BY <1>5, HeadUp
  <2>2. \A k \in Turns(up') : k + 1 \in Turns(up) /\ up'[k] = up[k + 1]
    BY <2>1 DEF Turns
  <2>3. \A k \in Turns(up) : k = 1 \/ k - 1 \in Turns(up')
    BY <2>1 DEF Turns
  <2>4. ASSUME NEW k \in Turns(up'), \A j \in Turns(up') : j <= k
        PROVE  facing' = 2 * up'[k].direction - 5
    <3>1. \A j \in Turns(up) : j <= k + 1
      BY <2>1, <2>3, <2>4 DEF Turns
    <3> QED BY <1>5, <2>2, <3>1 DEF FacingInv
  <2>5. ASSUME Turns(up') = {}, aligned' PROVE facing' = dir'
    <3>1. CASE Turns(up) = {}
      <4>1. ~(Head(up).type = "move" /\ Head(up).direction \in {2, 3})
        BY <2>1, <3>1 DEF Turns
      <4>2. dir' = dir /\ aligned' = aligned
        BY <1>5, <4>1 DEF Facing, Aligned, GoesLeft, GoesRight
      <4> QED BY <1>5, <2>5, <3>1, <4>2 DEF FacingInv
    <3>2. CASE Turns(up) # {}
      <4>1. Turns(up) = {1}
        BY <2>3, <2>5, <3>2
      <4>2. up[1].type = "move" /\ up[1].direction \in {2, 3}
        BY <4>1 DEF Turns
      <4>3. facing = 2 * up[1].direction - 5
        BY <4>1 DEF FacingInv
      <4>4. dir' = Facing(up[1].direction) /\ aligned' = Aligned(up[1].direction)
        BY <1>5, <2>1, <4>2
      <4> QED BY <1>5, <2>5, <4>2, <4>3, <4>4 DEF Aligned
    <3> QED BY <3>1, <3>2
  <2> QED BY <2>4, <2>5 DEF FacingInv
<1>6. CASE Login \/ Ignore \/ Teleport
  <2>1. up # <<>> /\ up' = Tail(up) /\ Head(up).type # "move"
    BY <1>6 DEF Login, Ignore, Teleport, Take
  <2>2. UNCHANGED <<facing, dir, aligned>>
    BY <1>6 DEF Login, Ignore, Teleport, Jump, slot, self
  <2> QED BY <1>5, <2>1, <2>2
<1>7. CASE Move
  <2>1. up # <<>> /\ up' = Tail(up) /\ Head(up).type = "move" /\ Head(up).direction \in 0 .. 3
    BY <1>7, HeadUp DEF Move, Take
  <2>2. dir' = Facing(Head(up).direction) /\ aligned' = Aligned(Head(up).direction) /\ UNCHANGED facing
    BY <1>7 DEF Move, self
  <2> QED BY <1>5, <2>1, <2>2
<1>8. ASSUME NEW button, Click(button) PROVE FacingInv'
  <2> UNCHANGED <<up, facing, dir, aligned>>
    BY <1>8 DEF Click, slot, self
  <2> QED BY <1>2
<1>9. CASE Erase \/ Type \/ Answer \/ Die \/ UNCHANGED vars
  <2> UNCHANGED <<up, facing, dir, aligned>>
    BY <1>9 DEF Erase, Type, Answer, Die, Jump, vars, slot, self
  <2> QED BY <1>2
<1> QED BY <1>1, <1>3, <1>4, <1>6, <1>7, <1>8, <1>9 DEF Next, Event, Serve

-----------------------------------------------------------------------------
Inv == TypeOK /\ Wires /\ PlaceInv /\ FacingInv

LEMMA SpecInv == Spec => []Inv
<1>1. Init => Inv
  <2> SUFFICES ASSUME Init PROVE PlaceInv /\ FacingInv
    BY TypeInit, WiresInit DEF Inv
  <2>1. PlaceInv
    BY DEF Init, PlaceInv
  <2>2. up = <<[type |-> "login"]>> /\ facing = 1 /\ aligned = (dir = 1)
    BY DEF Init, client_initialize
  <2>3. Turns(up) = {}
    BY <2>2 DEF Turns
  <2> QED BY <2>1, <2>2, <2>3 DEF FacingInv
<1>2. Inv /\ [Next]_vars => Inv'
  BY TypeStep, WiresStep, PlaceStep, FacingStep DEF Inv
<1> QED BY <1>1, <1>2, PTL DEF Spec

\* Whatever is pressed and however long packets take, every variable of client and
\* server keeps its type: no step, teleport or death leads off the map.
THEOREM TypeCorrect == Spec => []TypeOK
<1>1. Inv => TypeOK
  BY DEF Inv
<1> QED BY SpecInv, <1>1, PTL

\* Client and server agree on the place of the player as soon as nothing is on the
\* way between them, also after steps before the login was answered.
THEOREM PlaceCorrect == Spec => []PlaceAgrees
<1>1. Inv => PlaceAgrees
  BY DEF Inv, PlaceInv, PlaceAgrees, Settled
<1> QED BY SpecInv, <1>1, PTL

\* The client turns the avatar before the server knows and is never corrected;
\* still both agree, unless the last turn was refused at an end of the map.
THEOREM FacingCorrect == Spec => []FacingAgrees
<1>1. Inv => FacingAgrees
  <2> SUFFICES ASSUME Inv, up = <<>>, aligned PROVE facing = dir
    BY DEF FacingAgrees, Settled
  <2>1. Turns(up) = {}
    BY DEF Turns
  <2> QED BY <2>1 DEF Inv, FacingInv
<1> QED BY SpecInv, <1>1, PTL

LEMMA IndexInLayer == ASSUME NEW t \in Tiles PROVE Index(t) \in 0 .. Last - 1
<1>1. t[1] \in 0 .. W_WIDTH - 1 /\ t[2] \in 0 .. W_HEIGHT - 1 /\ W_WIDTH \in Nat /\ W_HEIGHT \in Nat
  BY ClientLoopAssumption DEF Tiles
<1>2. t[2] * W_WIDTH <= (W_HEIGHT - 1) * W_WIDTH /\ t[2] * W_WIDTH \in Nat
  BY <1>1
<1>3. (W_HEIGHT - 1) * W_WIDTH = W_WIDTH * W_HEIGHT - W_WIDTH
  BY <1>1
<1> QED BY <1>1, <1>2, <1>3 DEF Index, Last

\* What stops the player at the server is drawn beside the avatar, also at the
\* borders of the map, beyond which the drawing loop reads.
THEOREM WallsSeen == Spec => []WallsAreSeen
<1>1. Inv => WallsAreSeen
  <2> SUFFICES ASSUME Inv, Settled, NEW t \in Tiles, Blocked(t),
                      t[1] - x \in -1 .. 1, t[2] - y \in -1 .. 1
               PROVE  Cell(1, t[1] - g_left_x, t[2] - g_top_y) = {Layer(1)[Index(t)]}
    BY DEF WallsAreSeen
  <2>1. /\ g_left_x \in Int /\ t[1] - g_left_x \in 0 .. SCREEN - 1
        /\ g_top_y \in Int /\ t[2] - g_top_y \in 0 .. SCREEN - 1
    <3>1. g_left_x = x - SCREEN \div 2 /\ g_top_y = y - SCREEN \div 2
      BY DEF Inv, PlaceInv, Settled
    <3>2. /\ x \in Int /\ y \in Int /\ t[1] \in Int /\ t[2] \in Int
          /\ SCREEN \in Nat /\ SCREEN >= 3
      BY ClientLoopAssumption DEF Inv, TypeOK, Tiles
    <3>3. SCREEN \div 2 \in 1 .. SCREEN - 2
      BY <3>2
    <3> QED BY <3>1, <3>2, <3>3
  <2>2. t[1] \in 0 .. W_WIDTH - 1 /\ t[2] \in 0 .. W_HEIGHT - 1 /\ W_WIDTH \in Nat /\ W_HEIGHT \in Nat
    BY ClientLoopAssumption DEF Tiles
  <2>3. t[1] - g_left_x + g_left_x = t[1] /\ t[2] - g_top_y + g_top_y = t[2]
    BY <2>1, <2>2
  <2>4. Index(t) \in 0 .. Last - 1 /\ Last \in Nat
    BY IndexInLayer, <2>2 DEF Last
  <2>5. Layer(1)[Index(t)] \in mapnums
    <3>1. Layer(1)[Index(t)] = File[Last + Index(t) + 1] /\ Last + Index(t) + 1 \in 1 .. 2 * Last
      BY <2>4 DEF Layer
    <3>2. Layer(1)[Index(t)] \in mapnums \cup {Blank}
      BY <3>1, ClientLoopAssumption
    <3> QED BY <3>2, ClientLoopAssumption DEF Blocked
  <2>6. Cell(1, t[1] - g_left_x, t[2] - g_top_y) = {Layer(1)[Index(t)]} \cap mapnums
    BY <2>1, <2>2, <2>3, <2>4 DEF Cell, Index
  <2> QED BY <2>5, <2>6
<1> QED BY SpecInv, <1>1, PTL
=============================================================================
