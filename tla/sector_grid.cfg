CONSTANTS
  W_WIDTH = 27
  W_HEIGHT = 19
  SECTOR_SIZE = 7
  VIEW_RANGE = 7
  LastSet = 2
  Garbage <- Heap
  Blocked <- Wall
SPECIFICATION Spec
INVARIANTS InItsSector NeighboursCoverView SearchCoversNear SearchIsLocal
