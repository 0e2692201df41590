----------------------------- MODULE ClientLoop -----------------------------
(***************************************************************************)
(* The main loop of the game client and what the player sees of itself:    *)
(* place, facing, animation, and the window of 16 by 16 tiles around it.   *)
(* The client turns at once when a key is pressed and steps when the       *)
(* server says so; the server decides both on its own copy of the map,     *)
(* read from the same file.  A frame handles events, then at most one      *)
(* packet, and draws; frames follow each other faster than packets need.   *)
(*                                                                         *)
(* One client whose account exists and is not in use (Sessions), one       *)
(* thread of the server at a time, a FIFO in each direction (ServerStream, *)
(* ClientStream).  The map is a file of numbers, each followed by a comma. *)
(***************************************************************************)
EXTENDS Integers, Sequences

CONSTANTS
  W_WIDTH, W_HEIGHT,
  SCREEN,       \* SCREEN_WIDTH = SCREEN_HEIGHT = 16
  File,         \* the numbers of MAP.txt: ground, then obstacles
  mapnums,      \* numbers the client has a picture for
  Walkable,     \* numbers that do not stop anybody at the server
  Blank,        \* any other number
  CHAT_SIZE, animationframe,
  MaxWire       \* bound: packets on the way when an event is handled

Tiles == (0 .. W_WIDTH - 1) \X (0 .. W_HEIGHT - 1)
Last == W_WIDTH * W_HEIGHT

ASSUME ClientLoopAssumption ==
  /\ {W_WIDTH, W_HEIGHT, SCREEN, CHAT_SIZE, animationframe} \subseteq Nat \ {0}
  /\ SCREEN >= 3
  /\ File \in Seq(mapnums \cup {Blank}) /\ Len(File) = 2 * Last
  \* Every number of the shipped map that stops a player has a picture.
  /\ Walkable \subseteq mapnums \cup {Blank} /\ Blank \in Walkable \ mapnums

VARIABLES
  \* the slot of the client at the server
  session,            \* ST_ALLOC, login being looked up, ST_INGAME
  x, y, dir,          \* m_x, m_y, m_dir
  aligned,            \* history: the last key left or right decided dir, or none did yet
  \* the connection
  up, down,
  \* the client
  known,              \* g_myid is set
  avatar,             \* avatar.m_x, m_y
  facing,             \* avatar.m_dir
  m_state, m_KeyFrame,
  g_left_x, g_top_y,
  bChattingmode,
  chatcontent,        \* its length
  btelselectmode

slot == <<session, x, y, dir, aligned>>
self == <<known, avatar, facing, m_state, m_KeyFrame, g_left_x, g_top_y>>
input == <<bChattingmode, chatcontent, btelselectmode>>
vars == <<session, x, y, dir, aligned, up, down, known, avatar, facing, m_state,
          m_KeyFrame, g_left_x, g_top_y, bChattingmode, chatcontent, btelselectmode>>

TypeOK ==
  /\ session \in {"ALLOC", "asked", "INGAME"}
  /\ <<x, y>> \in Tiles /\ dir \in {-1, 1} /\ aligned \in BOOLEAN
  /\ \A k \in 1 .. Len(up) : up[k].type \in {"login", "move", "attack", "chat", "teleport"}
  /\ \A k \in 1 .. Len(down) : down[k].type \in {"info", "move"} /\ down[k].at \in Tiles
  /\ known \in BOOLEAN /\ facing \in {-1, 1}
  /\ m_state \in {"IDLE", "WALK", "ATTACK"} /\ m_KeyFrame \in 0 .. animationframe - 1
  /\ bChattingmode \in BOOLEAN /\ btelselectmode \in BOOLEAN
  /\ chatcontent \in 0 .. CHAT_SIZE

client_initialize ==
  /\ known = FALSE /\ avatar = <<4, 4>> /\ facing = 1
  /\ m_state = "IDLE" /\ m_KeyFrame = 0 /\ g_left_x = 0 /\ g_top_y = 0
  /\ bChattingmode = FALSE /\ chatcontent = 0 /\ btelselectmode = FALSE

\* dir of a slot used before is the one its last player had.
Init ==
  /\ session = "ALLOC" /\ x = 0 /\ y = 0 /\ dir \in {-1, 1} /\ aligned = (dir = 1)
  /\ client_initialize /\ up = <<[type |-> "login"]>> /\ down = <<>>
-----------------------------------------------------------------------------
(* The map, loaded on both sides: a number at a comma goes to the layer    *)
(* being filled, and after W_WIDTH * W_HEIGHT of them the next one is.     *)

Layer(l) == [n \in 0 .. Last - 1 |-> File[l * Last + n + 1]]

Index(t) == t[1] + t[2] * W_WIDTH
Blocked(t) == Layer(1)[Index(t)] \notin Walkable

\* Mutant: rows are taken to be as long as columns.
CellTransposed(l, i, j) ==
  LET tile_x == i + g_left_x
      tile_y == j + g_top_y
      idx == tile_x + tile_y * W_HEIGHT
  IN  IF \/ i \notin 0 .. SCREEN - 1 \/ j \notin 0 .. SCREEN - 1
         \/ tile_x < 0 \/ tile_y < 0 \/ tile_x > W_WIDTH \/ tile_y > W_HEIGHT
         \/ idx >= Last
      THEN {} ELSE {Layer(l)[idx]} \cap mapnums

\* What is drawn of layer l at column i, row j of the screen.  The column behind
\* the right border shows the next row's first tile; index Last, which two corner
\* cells ask for, is read past the end and may give any number.
Cell(l, i, j) ==
  LET tile_x == i + g_left_x
      tile_y == j + g_top_y
      idx == tile_x + tile_y * W_WIDTH
  IN  IF \/ i \notin 0 .. SCREEN - 1 \/ j \notin 0 .. SCREEN - 1
         \/ tile_x < 0 \/ tile_y < 0 \/ tile_x > W_WIDTH \/ tile_y > W_HEIGHT
         \/ idx > Last
      THEN {}
      ELSE (IF idx = Last THEN mapnums ELSE {Layer(l)[idx]}) \cap mapnums
-----------------------------------------------------------------------------
(* Events of the window.                                                   *)

Room == Len(up) + Len(down) < MaxWire
Post(packet) == up' = Append(up, packet)

\* An arrow key, whatever the player is doing.
Arrow(d) ==
  /\ Room /\ Post([type |-> "move", direction |-> d])
  /\ facing' = CASE d = 2 -> -1 [] d = 3 -> 1 [] OTHER -> facing
  /\ m_state' = "WALK"
  /\ UNCHANGED <<slot, down, known, avatar, m_KeyFrame, g_left_x, g_top_y, input>>

Control ==
  /\ Room /\ Post([type |-> "attack"])
  /\ m_state' = "ATTACK"
  /\ UNCHANGED <<slot, down, known, avatar, facing, m_KeyFrame, g_left_x, g_top_y, input>>

\* ClickUI: any click off the chat button ends chatting, any click off the
\* teleport button takes back a teleport asked for in the same frame.
Click(button) ==
  /\ bChattingmode' = (button = "chat")
  /\ chatcontent' = IF button = "chat" /\ bChattingmode THEN chatcontent ELSE 0
  /\ btelselectmode' = (button = "teleport")
  /\ Room
  /\ UNCHANGED <<slot, up, down, self>>

\* TextEntered.  A backspace with nothing to erase counts as a character.
Erase ==
  /\ bChattingmode /\ chatcontent > 0
  /\ chatcontent' = chatcontent - 1
  /\ UNCHANGED <<slot, up, down, self, bChattingmode, btelselectmode>>

Type ==
  /\ bChattingmode /\ chatcontent < CHAT_SIZE
  /\ chatcontent' = chatcontent + 1
  /\ UNCHANGED <<slot, up, down, self, bChattingmode, btelselectmode>>

Enter ==
  /\ bChattingmode
  /\ IF chatcontent = 0
     THEN bChattingmode' = FALSE /\ UNCHANGED up
     ELSE Room /\ Post([type |-> "chat"]) /\ UNCHANGED bChattingmode
  /\ chatcontent' = 0
  /\ UNCHANGED <<slot, down, self, btelselectmode>>

Event ==
  \/ \E d \in 0 .. 3 : Arrow(d)
  \/ Control
  \/ \E button \in {"chat", "teleport", "none"} : Click(button)
  \/ Erase \/ Type \/ Enter
-----------------------------------------------------------------------------
(* The rest of a frame and the top of the next: client_main receives and   *)
(* draws, then the teleport that was asked for is sent.                    *)

\* SC_LOGIN_INFO, and SC_MOVE_OBJECT about the own id.  Before g_myid is known
\* the latter goes to an entry of the map players.
Receive ==
  \/ UNCHANGED <<down, known, avatar, g_left_x, g_top_y>>
  \/ /\ down # <<>>
     /\ down' = Tail(down)
     /\ known' = (known \/ Head(down).type = "info")
     /\ IF known'
        THEN /\ avatar' = Head(down).at
             /\ g_left_x' = Head(down).at[1] - SCREEN \div 2
             /\ g_top_y' = Head(down).at[2] - SCREEN \div 2
        ELSE UNCHANGED <<avatar, g_left_x, g_top_y>>

\* Mutant: the animation is repeated.
AnimateOn ==
  \/ UNCHANGED <<m_state, m_KeyFrame>>
  \/ /\ known'
     /\ m_KeyFrame' = (m_KeyFrame + 1) % animationframe
     /\ UNCHANGED m_state

\* CHARECTOR::draw: enough time has passed for the next picture, or not.  After
\* the last one the avatar stands, whatever key was pressed in between.
Animate ==
  \/ UNCHANGED <<m_state, m_KeyFrame>>
  \/ /\ known'
     /\ m_KeyFrame' = (m_KeyFrame + 1) % animationframe
     /\ m_state' = IF m_KeyFrame' = 0 THEN "IDLE" ELSE m_state

AskTeleport ==
  /\ IF btelselectmode THEN Post([type |-> "teleport"]) ELSE UNCHANGED up
  /\ btelselectmode' = FALSE

Frame ==
  /\ Receive /\ Animate /\ AskTeleport
  /\ UNCHANGED <<slot, facing, bChattingmode, chatcontent>>
-----------------------------------------------------------------------------
(* The server.                                                             *)

Take(type) == up # <<>> /\ Head(up).type = type /\ up' = Tail(up)
Reply(type, t) == down' = Append(down, [type |-> type, at |-> t])

Login ==
  /\ Take("login") /\ session' = "asked"
  /\ UNCHANGED <<x, y, dir, aligned, down, self, input>>

\* The database thread finds the account; its place is any tile.
Answer ==
  /\ session = "asked" /\ session' = "INGAME"
  /\ \E t \in Tiles : x' = t[1] /\ y' = t[2] /\ Reply("info", t)
  /\ UNCHANGED <<dir, aligned, up, self, input>>

\* Direction 2 without room on the left runs into case 3.
GoesLeft(d) == d = 2 /\ x > 0
GoesRight(d) == d \in {2, 3} /\ ~GoesLeft(d) /\ x < W_WIDTH - 1
Target(d) ==
  CASE d = 0 /\ y > 0 -> <<x, y - 1>>
    [] d = 1 /\ y < W_HEIGHT - 1 -> <<x, y + 1>>
    [] GoesLeft(d) -> <<x - 1, y>>
    [] GoesRight(d) -> <<x + 1, y>>
    [] OTHER -> <<x, y>>

Facing(d) == CASE GoesLeft(d) -> -1 [] GoesRight(d) -> 1 [] OTHER -> dir
Aligned(d) == IF d \in {2, 3} THEN Facing(d) = 2 * d - 5 ELSE aligned

\* Mutant: a player that cannot step does not turn.
MoveFirst ==
  /\ Take("move")
  /\ LET d == Head(up).direction IN
     IF Blocked(Target(d))
     THEN UNCHANGED <<x, y, dir, aligned, down>>
     ELSE /\ dir' = Facing(d) /\ aligned' = Aligned(d)
          /\ x' = Target(d)[1] /\ y' = Target(d)[2] /\ Reply("move", Target(d))
  /\ UNCHANGED <<session, self, input>>

\* CS_MOVE: one turns towards a wall, but does not step and is not answered.
Move ==
  /\ Take("move")
  /\ LET d == Head(up).direction IN
     /\ dir' = Facing(d) /\ aligned' = Aligned(d)
     /\ IF Blocked(Target(d))
        THEN UNCHANGED <<x, y, down>>
        ELSE x' = Target(d)[1] /\ y' = Target(d)[2] /\ Reply("move", Target(d))
  /\ UNCHANGED <<session, self, input>>

\* CS_ATTACK, CS_CHAT: nothing the player itself is told.
Ignore ==
  /\ Take("attack") \/ Take("chat")
  /\ UNCHANGED <<slot, down, self, input>>

Jump ==
  /\ \E t \in Tiles : x' = t[1] /\ y' = t[2] /\ Reply("move", t)
  /\ UNCHANGED <<session, dir, aligned, self, input>>

\* Mutant: the player is not told where it has got to.
TeleportUntold ==
  /\ Take("teleport")
  /\ \E t \in Tiles : x' = t[1] /\ y' = t[2]
  /\ UNCHANGED <<session, dir, aligned, down, self, input>>

Teleport == Take("teleport") /\ Jump

\* An NPC kills the player, who reappears elsewhere.
Die == session = "INGAME" /\ Room /\ Jump /\ UNCHANGED up

Serve == Login \/ Answer \/ Move \/ Ignore \/ Teleport

Next == Event \/ Frame \/ Serve \/ Die

\* The client goes on drawing frames, in each of which time may pass and a packet
\* may have come; the server handles what it gets.
Fairness ==
  /\ WF_vars(Serve)
  /\ WF_vars(Frame /\ down # <<>> /\ down' # down)
  /\ WF_vars(Frame /\ m_KeyFrame' # m_KeyFrame)
  /\ WF_vars(Frame /\ btelselectmode)

Spec == Init /\ [][Next]_vars
FairSpec == Spec /\ Fairness
-----------------------------------------------------------------------------
Settled == session = "INGAME" /\ up = <<>> /\ down = <<>>

\* Keys, teleports and deaths overlap with packets on the way, some steps are
\* refused and not answered, and keys count before the login is answered: once
\* nothing is on the way the client has the player and the window where the
\* server has the player.
PlaceAgrees ==
  Settled => /\ avatar = <<x, y>>
             /\ g_left_x = x - SCREEN \div 2 /\ g_top_y = y - SCREEN \div 2

\* The client turns the avatar when a key is pressed, the server when it handles
\* the packet, and nobody tells the client: they agree unless the player last
\* pushed against the left or right end of the map, or has taken over the slot of
\* one who looked left and not turned yet.
FacingAgrees == Settled /\ aligned => facing = dir

\* A step the server refuses, on its own reading of the map, is one into a picture
\* on the screen beside the avatar.
WallsAreSeen ==
  Settled => \A t \in Tiles :
    Blocked(t) /\ t[1] - x \in -1 .. 1 /\ t[2] - y \in -1 .. 1 =>
      Cell(1, t[1] - g_left_x, t[2] - g_top_y) = {Layer(1)[Index(t)]}

\* Whatever was pressed and however the packets were spread over frames, once the
\* keys are let alone the avatar comes to stand where the server has it.
ComesToRest ==
  <>[][~(Event \/ Die)]_vars => <>[](Settled /\ avatar = <<x, y>> /\ m_state = "IDLE")
=============================================================================
