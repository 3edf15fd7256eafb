------------------------------- MODULE Level --------------------------------
(***************************************************************************)
(* A level of the MP2 game as the game thread plays it (mazegame.c with      *)
(* maze.c and modex.c): the maze is made, the window is placed and drawn,   *)
(* and then the player walks from square to square, pixel by pixel, while   *)
(* the window follows, the mist lifts around the player and the fruits are  *)
(* eaten.  The picture is never drawn anew: a step draws only what it       *)
(* changes.  Which way the player turns is up to the threads of Game.tla;   *)
(* here any open way will do.                                               *)
(***************************************************************************)
EXTENDS Maze, View

CONSTANTS SHOW_MIN, PAN_BORDER,   (* 6 pixels, 5 squares                     *)
          TextWidth, TextLift     (* the text in pixels, how far above: 20   *)

ASSUME LevelAssumption == SHOW_MIN \in Nat /\ PAN_BORDER \in Nat /\ TextWidth \in Nat
                          /\ TextLift \in Nat

(* What makes the window fit: it hides less than a block of the boundary,    *)
(* no maze is smaller than the window (MAZE_MIN_X_DIM, MAZE_MIN_Y_DIM: 14   *)
(* and 8), the margins where it pans leave room between them, and it is so  *)
(* narrow, when it shows one side of the maze, that the other is not seen   *)
(* nor near the player: both are the same column of the array.              *)
ASSUME RoomAssumption ==
  /\ SHOW_MIN <= BLOCK_X_DIM /\ SHOW_MIN <= BLOCK_Y_DIM
  /\ SCROLL_X_DIM + 2 * SHOW_MIN <= (Width + 1) * BLOCK_X_DIM
  /\ SCROLL_Y_DIM + 2 * SHOW_MIN <= (Height + 1) * BLOCK_Y_DIM
  /\ BLOCK_X_DIM * (2 * PAN_BORDER + 1) <= SCROLL_X_DIM
  /\ BLOCK_Y_DIM * (2 * PAN_BORDER + 1) <= SCROLL_Y_DIM
  /\ BLOCK_X_DIM * (PAN_BORDER + 2) <= SCROLL_X_DIM + SHOW_MIN
  /\ BLOCK_Y_DIM * (PAN_BORDER + 2) <= SCROLL_Y_DIM + SHOW_MIN
  /\ SCROLL_X_DIM + SHOW_MIN <= Width * BLOCK_X_DIM
  /\ SCROLL_X_DIM <= (Width - 2 + PAN_BORDER) * BLOCK_X_DIM

VARIABLES view, play_x, play_y
game == <<view, play_x, play_y>>
vars == <<maze, game>>

Square(x, y) == <<x \div BLOCK_X_DIM, y \div BLOCK_Y_DIM>>
AtSquare == play_x % BLOCK_X_DIM = 0 /\ play_y % BLOCK_Y_DIM = 0

-----------------------------------------------------------------------------
(* What a step of the player may change of the maze, and what drawing looks *)
(* at: the reached places, the fruits and their number.                     *)
Now == [reach |-> reach, fruits |-> fruits, n |-> n_fruits]

(* find_block.  The patterns of walls never change.                         *)
FindBlock(c, m) ==
  IF m.n = 0 /\ c = exit THEN "exit"
  ELSE IF c \notin m.reach THEN IF c \in m.fruits THEN "fruit_shadow" ELSE "shadow"
  ELSE IF c \in m.fruits THEN "fruit"
  ELSE IF c \in walls THEN "wall" ELSE "empty"

(* fill_horiz_buffer, fill_vert_buffer and the callers of draw_full_block:  *)
(* each pixel of P with its block and its own place.                        *)
Picture(P, m) ==
  [p \in P |-> <<FindBlock(Place(p[1] \div BLOCK_X_DIM, p[2] \div BLOCK_Y_DIM), m), p>>]

(* The pixels of the block of lattice point c. *)
Block(v, c) == Clipped(v, c[1] * BLOCK_X_DIM, c[2] * BLOCK_Y_DIM, BLOCK_X_DIM, BLOCK_Y_DIM)

(* unveil_around_player: the points it lifts the mist from. *)
Around(c) ==
  {<<c[1] + i, c[2] + j>> : i \in -1..1, j \in -1..1}
    \cup {<<c[1], c[2] - 2>>, <<c[1] + 2, c[2]>>, <<c[1], c[2] + 2>>, <<c[1] - 2, c[2]>>}

Unveiled(c) == {q \in Around(c) : /\ q[1] >= 0 /\ q[1] <= Width
                                  /\ q[2] >= 0 /\ q[2] <= Height
                                  /\ Place(q[1], q[2]) \notin reach}

EatenAt(c)  == [Now EXCEPT !.fruits = @ \ {c}, !.n = IF c \in fruits THEN @ - 1 ELSE @]
EnteredAt(c) ==
  [EatenAt(c) EXCEPT !.reach = @ \cup {Place(q[1], q[2]) : q \in Unveiled(c)}]

(* check_for_fruit draws the square and, with the last fruit, the exit;     *)
(* unveil_space then draws each point it unveils.                           *)
DrawEntered(v, c) ==
  LET eaten  == IF c \notin fruits THEN {}
                ELSE Block(v, c) \cup (IF EatenAt(c).n = 0 THEN Block(v, exit) ELSE {})
      lifted == UNION {Block(v, q) : q \in Unveiled(c)}
  IN  Drawn(Drawn(v, eaten, Picture(eaten, EatenAt(c))), lifted, Picture(lifted, EnteredAt(c)))

SetMaze(m) == reach' = m.reach /\ fruits' = m.fruits /\ n_fruits' = m.n

-----------------------------------------------------------------------------
(* move_up and its companions: when the player comes near the edge of the   *)
(* window, and the window is not yet at the edge of the maze, it follows by *)
(* a pixel and the line it comes to is drawn.                               *)
PansUp(v, y)    == y < v.show_y + BLOCK_Y_DIM * PAN_BORDER /\ v.show_y > SHOW_MIN
PansLeft(v, x)  == x < v.show_x + BLOCK_X_DIM * PAN_BORDER /\ v.show_x > SHOW_MIN
PansDown(v, y)  == /\ y > v.show_y + SCROLL_Y_DIM - BLOCK_Y_DIM * (PAN_BORDER + 1)
                   /\ v.show_y + SCROLL_Y_DIM < (Height + 1) * BLOCK_Y_DIM - SHOW_MIN
PansRight(v, x) == /\ x > v.show_x + SCROLL_X_DIM - BLOCK_X_DIM * (PAN_BORDER + 1)
                   /\ v.show_x + SCROLL_X_DIM < (Width + 1) * BLOCK_X_DIM - SHOW_MIN

DrawHorizLine(v, y, m) == Drawn(v, Line(v, y), Picture(Line(v, y), m))
DrawVertLine(v, x, m)  == Drawn(v, Column(v, x), Picture(Column(v, x), m))

Follow(v, x, y) == Forget(SetViewWindow(v, x, y))

Followed(v, d, x, y, m) ==
  IF d = 0 /\ PansUp(v, y)
    THEN DrawHorizLine(Follow(v, v.show_x, v.show_y - 1), 0, m)
  ELSE IF d = 1 /\ PansRight(v, x)
    THEN DrawVertLine(Follow(v, v.show_x + 1, v.show_y), SCROLL_X_DIM - 1, m)
  ELSE IF d = 2 /\ PansDown(v, y)
    THEN DrawHorizLine(Follow(v, v.show_x, v.show_y + 1), SCROLL_Y_DIM - 1, m)
  ELSE IF d = 3 /\ PansLeft(v, x)
    THEN DrawVertLine(Follow(v, v.show_x - 1, v.show_y), 0, m)
  ELSE v

-----------------------------------------------------------------------------
Stop == 4

(* prepare_maze_level and the player's start at (1,1). *)
Prepare ==
  /\ stage = "ready" /\ stage' = "play"
  /\ play_x' = BLOCK_X_DIM /\ play_y' = BLOCK_Y_DIM
  /\ LET v == Follow(view, SHOW_MIN, SHOW_MIN)
     IN  view' = DrawEntered(Drawn(v, Window(v), Picture(Window(v), Now)), <<1, 1>>)
  /\ SetMaze(EnteredAt(<<1, 1>>))
  /\ UNCHANGED <<walls, at, pref_dir, remaining, trials, exit>>

(* Where the player may turn: at a square, to where there is no wall; else  *)
(* on or back.                                                              *)
MayGo(d) ==
  IF AtSquare THEN d = Stop \/ Ahead(Square(play_x, play_y), d, 1) \notin walls
  ELSE d \in (IF play_x % BLOCK_X_DIM = 0 THEN {0, 2} ELSE {1, 3})

Walk(d) ==
  /\ play_x' = play_x + (IF d = 1 THEN 1 ELSE IF d = 3 THEN -1 ELSE 0)
  /\ play_y' = play_y + (IF d = 2 THEN 1 ELSE IF d = 0 THEN -1 ELSE 0)

(* One tick of rtc_thread: a new square is entered, then the player moves.  *)
Tick(d) ==
  LET c == Square(play_x, play_y)
      m == IF AtSquare THEN EnteredAt(c) ELSE Now
      v == IF AtSquare THEN DrawEntered(view, c) ELSE view
  IN  /\ stage = "play"
      /\ SetMaze(m)
      /\ IF AtSquare /\ c = exit /\ m.n = 0          \* check_for_win
           THEN stage' = "won" /\ view' = v /\ UNCHANGED <<play_x, play_y>>
           ELSE /\ MayGo(d) /\ Walk(d)
                /\ view' = Followed(v, d, play_x', play_y', m)
                /\ UNCHANGED stage
      /\ UNCHANGED <<walls, at, pref_dir, remaining, trials, exit>>

-----------------------------------------------------------------------------
(* A frame: the player is drawn over the block it stands on, and the text,  *)
(* while there is one, over both; after show_screen they are taken away in  *)
(* the opposite order.                                                      *)
Tagged(tag, image) == [p \in DOMAIN image |-> <<tag, image[p]>>]

TextX == play_x - TextWidth \div 2
TextY == play_y - TextLift

PlayerDrawn(v) == DrawBlock(v, play_x, play_y, Tagged("player", CopyBlock(v, play_x, play_y)))
FloorUnder(v)  == [p \in TextBlock(v, TextX, TextY) |-> Read(v, p)]
TextDrawn(v)   == Drawn(v, TextBlock(v, TextX, TextY), Tagged("text", FloorUnder(v)))

(* What show_screen sees. *)
FrameShown(text) == IF text THEN TextDrawn(PlayerDrawn(view)) ELSE PlayerDrawn(view)

FrameWrongOrder(text) ==              \* mutant: the player is taken away before the text
  LET with == PlayerDrawn(view)
      off  == DrawBlock(FrameShown(text), play_x, play_y, CopyBlock(view, play_x, play_y))
  IN  IF text THEN Drawn(off, TextBlock(with, TextX, TextY), FloorUnder(with)) ELSE off
AfterFrame(text) ==
  LET with == PlayerDrawn(view)
      off  == IF text THEN Drawn(FrameShown(text), TextBlock(with, TextX, TextY), FloorUnder(with))
                      ELSE with
  IN  DrawBlock(off, play_x, play_y, CopyBlock(view, play_x, play_y))

Frame(text) == /\ stage \in {"play", "won"}
               /\ view' = AfterFrame(text)
               /\ UNCHANGED <<maze, play_x, play_y>>

-----------------------------------------------------------------------------
LevelInit == Init /\ view = InitView /\ play_x = 0 /\ play_y = 0

Next == \/ MakeMaze /\ UNCHANGED game
        \/ Prepare
        \/ \E d \in Dir \cup {Stop} : Tick(d)
        \/ \E text \in BOOLEAN : Frame(text)

(* make_maze runs on; nothing is asked of the random numbers or the player. *)
Spec == LevelInit /\ [][Next]_vars /\ WF_vars(TryConnect /\ UNCHANGED game)

-----------------------------------------------------------------------------
Playing == stage \in {"play", "won"}

(* Every access to the buffer is inside it, as the window is in the maze.   *)
WindowInBounds ==
  /\ DOMAIN view.build = 0..BUILD_BUF_SIZE-1
  /\ \A p \in Window(view) : Address(view, p) \in 0..BUILD_BUF_SIZE-1
  /\ view.show_x \in SHOW_MIN..(Width + 1) * BLOCK_X_DIM - SHOW_MIN - SCROLL_X_DIM
  /\ view.show_y \in SHOW_MIN..(Height + 1) * BLOCK_Y_DIM - SHOW_MIN - SCROLL_Y_DIM
  /\ Clipped(view, play_x, play_y, BLOCK_X_DIM, BLOCK_Y_DIM)
       = (play_x..play_x+BLOCK_X_DIM-1) \X (play_y..play_y+BLOCK_Y_DIM-1)

(* Whatever is drawn when, the window always holds the picture of the maze  *)
(* as it is now: nothing that changed on it was left undrawn, and moving    *)
(* the window never lost, misplaced or mixed up a pixel.  The buffer is     *)
(* never written or read outside of its bounds, and neither does the window *)
(* leave the maze nor the player the window.                                *)
PictureTrue ==
  Playing => /\ WindowInBounds
             /\ LET P == Window(view) IN \A p \in P : Read(view, p) = Picture(P, Now)[p]

(* The display shows that picture with the player, and with the text over   *)
(* both while there is one.                                                 *)
DisplayTrue ==
  Playing =>
    \A text \in BOOLEAN :
      LET shown  == FrameShown(text)
          base   == Picture(Window(view), Now)
          player == Clipped(view, play_x, play_y, BLOCK_X_DIM, BLOCK_Y_DIM)
          over   == IF text THEN TextBlock(view, TextX, TextY) ELSE {}
          Under(p)  == IF p \in player THEN <<"player", base[p]>> ELSE base[p]
          Whole(p)  == IF p \in over THEN <<"text", Under(p)>> ELSE Under(p)
      IN  \A c \in 0..SCROLL_X_DIM-1, r \in 0..SCROLL_Y_DIM-1 :
            Shown(shown, c, r) = Whole(<<view.show_x + c, view.show_y + r>>)
=============================================================================
