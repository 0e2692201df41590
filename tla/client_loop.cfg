CONSTANTS
  W_WIDTH = 4
  W_HEIGHT = 3
  SCREEN = 4
  File <- Map
  mapnums = {"grass", "flower", "rock"}
  Walkable = {"grass", "flower", "none"}
  Blank = "none"
  CHAT_SIZE = 1
  animationframe = 2
  MaxWire = 2
SPECIFICATION FairSpec
INVARIANTS PlaceAgrees FacingAgrees WallsAreSeen
PROPERTY ComesToRest
CHECK_DEADLOCK FALSE
