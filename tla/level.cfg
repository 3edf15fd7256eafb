SPECIFICATION Spec
CONSTANTS
  maze_x_dim = 2
  maze_y_dim = 2
  Fruits = 2
  Few = 2
  MaxTrials = 1
  SCROLL_X_DIM = 8
  SCROLL_Y_DIM = 5
  Spare = 6
  BLOCK_X_DIM = 5
  BLOCK_Y_DIM = 3
  BLOCK_X_FRUIT_DIM = 5
  BLOCK_Y_FRUIT_DIM = 3
  SHOW_MIN = 2
  PAN_BORDER = 0
  TextWidth = 4
  TextLift = 2
INVARIANTS AllReachable PictureTrue DisplayTrue
PROPERTIES ConnectEnds
