-------------------------------- MODULE Game --------------------------------
(***************************************************************************)
(* The threads of the MP2 game (mazegame.c).  rtc_thread plays the levels:  *)
(* on every tick of the clock it polls the Tux controller and moves the     *)
(* player; keyboard_thread decodes the arrow keys; tux_thread waits for a   *)
(* button.  They share next_dir, quit_flag, winner and the button under one *)
(* mutex, or under none.  main waits for the first two and cancels the      *)
(* third.                                                                  *)
(*                                                                         *)
(* A section under the mutex is one step: nothing waits inside of one but   *)
(* the condition, which gives the mutex up.  A maze is the set of its open  *)
(* squares with the fruit and the exit; Maze.tla says which mazes there are. *)
(***************************************************************************)
EXTENDS Integers

CONSTANTS
  Mazes,      (* records of open, fruit and exit                             *)
  BLOCK,      (* BLOCK_X_DIM and BLOCK_Y_DIM, which are equal                *)
  MAX_LEVEL,
  MaxTicks    (* how many ticks one read of the clock may return: 8          *)

Dir  == {"up", "right", "down", "left"}
Stop == "stop"
None == "none"       \* 0xF
All  == "all"        \* 0x0: all four, or no event yet

ASSUME GameAssumption ==
  /\ BLOCK \in Nat \ {0, 1} /\ MAX_LEVEL \in Nat /\ MaxTicks \in Nat \ {0}
  /\ \A m \in Mazes : m.open \subseteq Int \X Int /\ <<1, 1>> \in m.open

VARIABLES
  rtc, ticks, level,          (* where rtc_thread is, and its locals         *)
  maze, fruit,                (* the level's maze; whether its fruit is left *)
  play_x, play_y, dir, move_cnt,
  next_dir,
  keys, state,                (* keyboard_thread and its decoder             *)
  tux,                        (* tux_thread                                  *)
  tux_button_flag, temp_tux_button,
  quit_flag, winner

player == <<play_x, play_y, dir, move_cnt>>
field  == <<maze, fruit, level>>
button == <<tux_button_flag, temp_tux_button>>
flags  == <<quit_flag, winner>>
vars   == <<rtc, ticks, field, player, next_dir, keys, state, tux, button, flags>>

-----------------------------------------------------------------------------
Opposite(d) == IF d = "up" THEN "down" ELSE IF d = "down" THEN "up"
               ELSE IF d = "left" THEN "right" ELSE "left"
DX(d) == IF d = "right" THEN 1 ELSE IF d = "left" THEN -1 ELSE 0
DY(d) == IF d = "down" THEN 1 ELSE IF d = "up" THEN -1 ELSE 0

Square == <<play_x \div BLOCK, play_y \div BLOCK>>

(* find_open_directions *)
Open(d) == <<Square[1] + DX(d), Square[2] + DY(d)>> \in maze.open

Init == /\ rtc = "level" /\ ticks = 0 /\ level = 0
        /\ maze \in Mazes /\ fruit = FALSE
        /\ play_x = 0 /\ play_y = 0 /\ dir = Stop /\ move_cnt = 0
        /\ next_dir = "up"                    \* the key UP, until a level starts
        /\ keys = "read" /\ state = 0 /\ tux = "look"
        /\ tux_button_flag = 0 /\ temp_tux_button = None
        /\ quit_flag = 0 /\ winner = 0

-----------------------------------------------------------------------------
(* The head of the loop over the levels. *)
StartLevel ==
  /\ rtc = "level" /\ level < MAX_LEVEL /\ quit_flag = 0
  /\ rtc' = "check" /\ level' = level + 1 /\ ticks' = 0
  /\ maze' \in Mazes /\ fruit' = TRUE
  /\ play_x' = BLOCK /\ play_y' = BLOCK /\ move_cnt' = 0
  /\ dir' = Stop /\ next_dir' = Stop
  /\ UNCHANGED <<keys, state, tux, button, flags>>

LeaveLevels ==
  /\ rtc = "level" /\ (level = MAX_LEVEL \/ quit_flag = 1)
  /\ rtc' = "won?"
  /\ UNCHANGED <<ticks, field, player, next_dir, keys, state, tux, button, flags>>

(* quit_flag is looked at once more. *)
SetWinner ==
  /\ rtc = "won?" /\ rtc' = "done"
  /\ winner' = (IF quit_flag = 0 THEN 1 ELSE winner)
  /\ UNCHANGED <<ticks, field, player, next_dir, keys, state, tux, button, quit_flag>>

Check ==
  /\ rtc = "check"
  /\ rtc' = (IF quit_flag = 0 THEN "read" ELSE "level")
  /\ UNCHANGED <<ticks, field, player, next_dir, keys, state, tux, button, flags>>

(* The clock answers with the ticks since the last read. *)
Read == /\ rtc = "read" /\ rtc' = "poll"
        /\ ticks' \in 1..MaxTicks
        /\ UNCHANGED <<field, player, next_dir, keys, state, tux, button, flags>>

(* The first section: a button that is down wakes tux_thread.  Of several   *)
(* the first counts, and four are taken for none.                           *)
Poll(b) ==
  /\ rtc = "poll" /\ rtc' = "step"
  /\ temp_tux_button' = b
  /\ tux_button_flag' = (IF b \in Dir THEN 1 ELSE tux_button_flag)
  /\ UNCHANGED <<ticks, field, player, next_dir, keys, state, tux, flags>>

AfterTick == /\ ticks' = ticks - 1
             /\ rtc' = (IF ticks = 1 THEN "check" ELSE "poll")

Move(d, cnt) ==
  /\ dir' = d
  /\ move_cnt' = (IF d = Stop THEN cnt ELSE cnt - 1)
  /\ play_x' = play_x + DX(d) /\ play_y' = play_y + DY(d)

(* To turn back is possible anywhere, and leaves what has been walked.      *)
TurnsBack == dir # Stop /\ next_dir = Opposite(dir)
Heading   == IF TurnsBack THEN next_dir ELSE dir
LeftToGoUnturned ==                   \* mutant: the count is kept when turning back
  move_cnt
LeftToGo  == IF TurnsBack /\ move_cnt > 0 THEN BLOCK - move_cnt ELSE move_cnt

(* At a square the way asked for is taken, if it is open; before the first  *)
(* key it is DIR_STOP, and open[DIR_STOP] lies behind the array.            *)
ChosenUntested ==                     \* mutant: the way asked for is taken, open or not
  {IF next_dir = Stop THEN Heading ELSE next_dir}
Chosen == IF next_dir = Stop THEN {Heading, Stop}
          ELSE IF Open(next_dir) THEN {next_dir} ELSE {Heading}

WithinSquare == /\ LeftToGo # 0
                /\ Move(Heading, LeftToGo) /\ AfterTick
                /\ UNCHANGED <<maze, fruit, level>>

Wins == Square = maze.exit /\ (Square = maze.fruit \/ ~fruit)

NewSquare == /\ LeftToGo = 0 /\ ~Wins
             /\ fruit' = (fruit /\ Square # maze.fruit)
             /\ \E d \in Chosen : IF d # Stop /\ Open(d) THEN Move(d, BLOCK) ELSE Move(Stop, 0)
             /\ AfterTick
             /\ UNCHANGED <<maze, level>>

LevelWon == /\ LeftToGo = 0 /\ Wins
            /\ fruit' = FALSE /\ dir' = Heading /\ move_cnt' = 0
            /\ rtc' = "level" /\ ticks' = 0
            /\ UNCHANGED <<maze, level, play_x, play_y>>

(* The second section, and the move after it. *)
Step == /\ rtc = "step"
        /\ WithinSquare \/ NewSquare \/ LevelWon
        /\ UNCHANGED <<next_dir, keys, state, tux, button, flags>>

-----------------------------------------------------------------------------
(* keyboard_thread: stdin does not block, so that a byte may be missing     *)
(* anywhere ("other"); then the loop looks at winner.                       *)
Byte == {"quit", "esc", "["} \cup Dir \cup {"other"}

KeyTestsQuit(b) ==                    \* mutant: the loop looks at the wrong flag
  /\ keys = "read"
  /\ quit_flag' = (IF b = "quit" THEN 1 ELSE quit_flag)
  /\ keys' = (IF b = "quit" \/ quit_flag # 0 THEN "done" ELSE "read")
  /\ state' = (IF b = "esc" THEN 1 ELSE IF b = "[" /\ state = 1 THEN 2 ELSE 0)
  /\ next_dir' = (IF b \in Dir /\ state = 2 THEN b ELSE next_dir)
  /\ UNCHANGED <<rtc, ticks, field, player, tux, button, winner>>
Key(b) ==
  /\ keys = "read"
  /\ quit_flag' = (IF b = "quit" THEN 1 ELSE quit_flag)
  /\ keys' = (IF b = "quit" \/ winner # 0 THEN "done" ELSE "read")
  /\ state' = (IF b = "esc" THEN 1 ELSE IF b = "[" /\ state = 1 THEN 2 ELSE 0)
  /\ next_dir' = (IF b \in Dir /\ state = 2 THEN b ELSE next_dir)
  /\ UNCHANGED <<rtc, ticks, field, player, tux, button, winner>>

-----------------------------------------------------------------------------
(* tux_thread looks at quit_flag before it takes the mutex.                 *)
TuxLook == /\ tux = "look"
           /\ tux' = (IF quit_flag = 1 THEN "done" ELSE "wait")
           /\ UNCHANGED <<rtc, ticks, field, player, next_dir, keys, state, button, flags>>

(* What the buttons say by now: they may be up again, and with all four down *)
(* the first one counts.                                                    *)
TurnedTo == CASE temp_tux_button = None -> next_dir
              [] temp_tux_button = All  -> "up"
              [] OTHER -> temp_tux_button

TuxTurnsMixed ==                      \* mutant: the bits of left and right are swapped
  /\ tux = "wait" /\ tux_button_flag = 1
  /\ next_dir' = (IF TurnedTo \in {"left", "right"} THEN Opposite(TurnedTo) ELSE TurnedTo)
  /\ tux_button_flag' = 0 /\ tux' = "look"
  /\ UNCHANGED <<rtc, ticks, field, player, keys, state, temp_tux_button, flags>>
TuxTurns ==
  /\ tux = "wait" /\ tux_button_flag = 1
  /\ next_dir' = TurnedTo
  /\ tux_button_flag' = 0 /\ tux' = "look"
  /\ UNCHANGED <<rtc, ticks, field, player, keys, state, temp_tux_button, flags>>

(* main has joined both and cancels tux_thread, wherever it is.             *)
Cancel == /\ rtc = "done" /\ keys = "done" /\ tux # "cancelled"
          /\ tux' = "cancelled"
          /\ UNCHANGED <<rtc, ticks, field, player, next_dir, keys, state, button, flags>>

-----------------------------------------------------------------------------
RtcThread == \/ StartLevel \/ LeaveLevels \/ SetWinner \/ Check \/ Read \/ Step
             \/ \E b \in Dir \cup {None, All} : Poll(b)

Keyboard == \E b \in Byte : Key(b)

Next == RtcThread \/ Keyboard \/ TuxLook \/ TuxTurns \/ Cancel

(* The clock ticks, and a thread that may run does; nobody must press a key *)
(* or a button.                                                             *)
Spec == /\ Init /\ [][Next]_vars
        /\ WF_vars(RtcThread) /\ WF_vars(Keyboard) /\ WF_vars(TuxLook)
        /\ WF_vars(TuxTurns) /\ WF_vars(Cancel)

-----------------------------------------------------------------------------
(* The squares the player's block lies on. *)
Covered == {<<x \div BLOCK, y \div BLOCK>> : x \in {play_x, play_x + BLOCK - 1},
                                             y \in {play_y, play_y + BLOCK - 1}}

(* The player is never in a wall and never off the corridors, and move_cnt  *)
(* is what is left to the next square, whatever the threads write into      *)
(* next_dir and however often the player turns back on the way.             *)
OnTheWay ==
  rtc \in {"check", "read", "poll", "step"} =>
    /\ Covered \subseteq maze.open
    /\ move_cnt \in 0..BLOCK-1
    /\ (play_x + DX(dir) * move_cnt) % BLOCK = 0
    /\ (play_y + DY(dir) * move_cnt) % BLOCK = 0

(* Within a level the player stops only in front of a wall, though next_dir  *)
(* may be what open[] has no entry for; turns into another corridor only on *)
(* a square, and only into an open one; to turn back is possible anywhere.  *)
WallsHeeded ==
  level' = level =>
    /\ dir # Stop /\ dir' = Stop => ~Open(dir)
    /\ dir' \notin {dir, Stop} /\ ~(dir # Stop /\ dir' = Opposite(dir))
         => move_cnt = 0 /\ Open(dir')
StopsAtWalls == [][WallsHeeded]_vars

(* A button that has been noticed gives the direction, unless a later poll  *)
(* finds another button or none, or the game ends.                          *)
ButtonTurns ==
  \A d \in Dir : tux_button_flag = 1 /\ temp_tux_button = d
                   ~> next_dir = d \/ temp_tux_button # d \/ tux \in {"done", "cancelled"}

(* After the quit key, and after the last level, all threads come to an end *)
(* and main with them.                                                      *)
GameEnds == quit_flag = 1 \/ winner = 1 ~> tux = "cancelled"
=============================================================================
