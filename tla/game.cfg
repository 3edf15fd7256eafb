SPECIFICATION Spec
CONSTANTS
  Mazes <- MCMazes
  BLOCK = 3
  MAX_LEVEL = 1
  MaxTicks = 2
INVARIANTS OnTheWay
PROPERTIES StopsAtWalls ButtonTurns GameEnds
CHECK_DEADLOCK FALSE
