----------------------------- MODULE GameProofs -----------------------------
(***************************************************************************)
(* Theorems about Game, for every set of mazes, every size of a block,     *)
(* every number of levels and however many ticks a read of the clock       *)
(* returns: where the player may be, and where it may stop, whatever the   *)
(* other two threads write into next_dir.                                  *)
(***************************************************************************)
EXTENDS Game, TLAPS

Playing == rtc \in {"check", "read", "poll", "step"}

Types == /\ dir \in Dir \cup {Stop} /\ next_dir \in Dir \cup {Stop}
         /\ temp_tux_button \in Dir \cup {None, All}
         /\ maze \in Mazes /\ level \in Nat
         /\ move_cnt \in Int /\ play_x \in Int /\ play_y \in Int

(* The player is move_cnt steps from the square <<a, b>>; if it has not     *)
(* stopped it comes from the one before that.                               *)
Nears(a, b) ==
  /\ <<a, b>> \in maze.open
  /\ move_cnt \in 0..BLOCK-1
  /\ play_x = BLOCK * a - DX(dir) * move_cnt
  /\ play_y = BLOCK * b - DY(dir) * move_cnt
  /\ dir = Stop => move_cnt = 0
  /\ dir # Stop => <<a - DX(dir), b - DY(dir)>> \in maze.open

OnCorridor == \E a, b \in Int : Nears(a, b)

(* open[DIR_STOP] is looked at only by a player that has not moved yet.     *)
Waiting == next_dir = Stop => dir = Stop

GameInv == Types /\ (Playing => OnCorridor /\ Waiting)

-----------------------------------------------------------------------------
(* Division by the size of a block. *)
LEMMA InBlock ==
  ASSUME NEW B \in Nat \ {0}, NEW q \in Int, NEW r \in 0..B-1
  PROVE  (B * q + r) \div B = q /\ (B * q + r) % B = r
OBVIOUS

LEMMA Directions ==
  /\ \A d \in Dir : DX(d) \in {-1, 0, 1} /\ DY(d) \in {-1, 0, 1}
  /\ \A d \in Dir : /\ Opposite(d) \in Dir
                    /\ DX(Opposite(d)) = 0 - DX(d) /\ DY(Opposite(d)) = 0 - DY(d)
  /\ DX(Stop) = 0 /\ DY(Stop) = 0 /\ Stop \notin Dir
<1>1. ASSUME NEW d \in Dir
      PROVE  /\ DX(d) \in {-1, 0, 1} /\ DY(d) \in {-1, 0, 1} /\ Opposite(d) \in Dir
             /\ DX(Opposite(d)) = 0 - DX(d) /\ DY(Opposite(d)) = 0 - DY(d)
  <2>1. CASE d = "up"
    BY <2>1 DEF Dir, DX, DY, Opposite
  <2>2. CASE d = "down"
    BY <2>2 DEF Dir, DX, DY, Opposite
  <2>3. CASE d = "left"
    BY <2>3 DEF Dir, DX, DY, Opposite
  <2>4. CASE d = "right"
    BY <2>4 DEF Dir, DX, DY, Opposite
  <2>5. QED
    BY <2>1, <2>2, <2>3, <2>4 DEF Dir
<1>2. DX(Stop) = 0 /\ DY(Stop) = 0 /\ Stop \notin Dir
  BY DEF Dir, Stop, DX, DY
<1>3. QED
  BY <1>1, <1>2

(* A player that has arrived stands on a square. *)
LEMMA Arrived ==
  ASSUME Types, NEW a \in Int, NEW b \in Int, Nears(a, b), move_cnt = 0
  PROVE  play_x = BLOCK * a /\ play_y = BLOCK * b /\ Square = <<a, b>>
<1>1. DX(dir) \in Int /\ DY(dir) \in Int
  BY Directions DEF Types
<1>2. BLOCK \in Nat \ {0} /\ 0 \in 0..BLOCK-1
  BY GameAssumption
<1>3. play_x = BLOCK * a /\ play_y = BLOCK * b
  BY <1>1, <1>2 DEF Nears
<1>4. (BLOCK * a + 0) \div BLOCK = a /\ (BLOCK * b + 0) \div BLOCK = b
  BY <1>2, InBlock
<1>5. BLOCK * a + 0 = BLOCK * a /\ BLOCK * b + 0 = BLOCK * b
  BY <1>2
<1>6. QED
  BY <1>3, <1>4, <1>5 DEF Square

-----------------------------------------------------------------------------
(* One step of the player. *)
LEMMA WithinKeeps ==
  ASSUME GameInv, rtc = "step", WithinSquare, next_dir' = next_dir,
         temp_tux_button' = temp_tux_button
  PROVE  GameInv' /\ dir' # Stop /\ WallsHeeded
<1>1. PICK a, b \in Int : Nears(a, b)
  BY DEF GameInv, Playing, OnCorridor
<1>2. BLOCK \in Nat \ {0, 1} /\ move_cnt \in 0..BLOCK-1
  BY <1>1, GameAssumption DEF Nears
<1>3. move_cnt # 0 /\ dir \in Dir
  BY <1>1, <1>2 DEF WithinSquare, LeftToGo, GameInv, Types, Nears
<1>4. next_dir \in Dir /\ next_dir # Stop
  BY <1>3, Directions DEF GameInv, Types, Waiting, Playing
<1>5. CASE TurnsBack
  <2>1. Heading = Opposite(dir) /\ LeftToGo = BLOCK - move_cnt
    BY <1>2, <1>3, <1>5 DEF Heading, LeftToGo, TurnsBack
  <2>2. /\ dir' = Opposite(dir) /\ move_cnt' = BLOCK - move_cnt - 1
        /\ play_x' = play_x - DX(dir) /\ play_y' = play_y - DY(dir)
        /\ dir' \in Dir /\ dir' # Stop
        /\ DX(dir') = 0 - DX(dir) /\ DY(dir') = 0 - DY(dir)
        /\ DX(dir) \in {-1, 0, 1} /\ DY(dir) \in {-1, 0, 1}
    BY <1>2, <1>3, <2>1, Directions DEF WithinSquare, Move, GameInv, Types
  <2>. PICK c \in Int, e \in Int : c = a - DX(dir) /\ e = b - DY(dir)
    BY <2>2
  <2>3. <<c, e>> \in maze.open
    BY <1>1, <1>3, <2>2, Directions DEF Nears
  <2>4. c - DX(dir') = a /\ e - DY(dir') = b
    BY <2>2
  <2>5. play_x = BLOCK * a - DX(dir) * move_cnt /\ play_y = BLOCK * b - DY(dir) * move_cnt
    BY <1>1 DEF Nears
  <2>6. /\ play_x' = BLOCK * c - DX(dir') * move_cnt'
        /\ play_y' = BLOCK * e - DY(dir') * move_cnt'
    <3>1. CASE DX(dir) = 1
      BY <1>2, <2>2, <2>5, <3>1
    <3>2. CASE DX(dir) = -1
      BY <1>2, <2>2, <2>5, <3>2
    <3>3. CASE DX(dir) = 0
      BY <1>2, <2>2, <2>5, <3>3
    <3>4. QED
      BY <2>2, <3>1, <3>2, <3>3
  <2>7. maze' = maze /\ level' = level /\ <<a, b>> \in maze.open
    BY <1>1 DEF WithinSquare, Nears
  <2>8. Nears(c, e)'
    <3>1. move_cnt' \in 0..BLOCK-1
      BY <1>2, <1>3, <2>2
    <3>2. <<c - DX(dir'), e - DY(dir')>> \in maze'.open /\ <<c, e>> \in maze'.open
      BY <2>3, <2>4, <2>7
    <3>3. QED
      BY <2>2, <2>6, <3>1, <3>2 DEF Nears
  <2>9. Types'
    BY <1>2, <2>2, <2>7 DEF GameInv, Types
  <2>10. Waiting'
    BY <1>4 DEF Waiting
  <2>11. WallsHeeded
    BY <1>3, <2>2, Directions DEF WallsHeeded
  <2>12. QED
    BY <2>2, <2>3, <2>8, <2>9, <2>10, <2>11 DEF GameInv, OnCorridor
<1>6. CASE ~TurnsBack
  <2>1. Heading = dir /\ LeftToGo = move_cnt
    BY <1>6 DEF Heading, LeftToGo
  <2>2. /\ dir' = dir /\ move_cnt' = move_cnt - 1
        /\ play_x' = play_x + DX(dir) /\ play_y' = play_y + DY(dir)
        /\ dir # Stop
        /\ DX(dir) \in {-1, 0, 1} /\ DY(dir) \in {-1, 0, 1}
    BY <1>3, <2>1, Directions DEF WithinSquare, Move
  <2>3. maze' = maze /\ level' = level
    BY DEF WithinSquare
  <2>4. play_x' = BLOCK * a - DX(dir) * move_cnt'
    BY <1>1, <1>2, <2>2 DEF Nears
  <2>5. play_y' = BLOCK * b - DY(dir) * move_cnt'
    BY <1>1, <1>2, <2>2 DEF Nears
  <2>6. Nears(a, b)'
    BY <1>1, <1>2, <1>3, <2>2, <2>3, <2>4, <2>5 DEF Nears
  <2>7. Types'
    BY <1>2, <2>2, <2>3 DEF GameInv, Types
  <2>8. Waiting'
    BY <1>4 DEF Waiting
  <2>9. WallsHeeded
    BY <2>2 DEF WallsHeeded
  <2>10. QED
    BY <2>2, <2>6, <2>7, <2>8, <2>9 DEF GameInv, OnCorridor
<1>7. QED
  BY <1>5, <1>6

LEMMA NewSquareKeeps ==
  ASSUME GameInv, rtc = "step", NewSquare, next_dir' = next_dir,
         temp_tux_button' = temp_tux_button
  PROVE  GameInv' /\ WallsHeeded
<1>1. PICK a, b \in Int : Nears(a, b)
  BY DEF GameInv, Playing, OnCorridor
<1>2. BLOCK \in Nat \ {0, 1} /\ move_cnt \in 0..BLOCK-1
  BY <1>1, GameAssumption DEF Nears
<1>3. move_cnt = 0
  BY <1>2 DEF NewSquare, LeftToGo
<1>4. Types /\ Waiting
  BY DEF GameInv, Playing
<1>5. play_x = BLOCK * a /\ play_y = BLOCK * b /\ Square = <<a, b>>
  BY <1>1, <1>3, <1>4, Arrived
<1>6. \A d : Open(d) <=> <<a + DX(d), b + DY(d)>> \in maze.open
  BY <1>5 DEF Open
<1>7. maze' = maze /\ level' = level
  BY DEF NewSquare
<1>8. PICK d \in Chosen : IF d # Stop /\ Open(d) THEN Move(d, BLOCK) ELSE Move(Stop, 0)
  BY DEF NewSquare
<1>9. Heading \in Dir \cup {Stop} /\ (dir = Stop => Heading = Stop)
  BY <1>4 DEF Heading, TurnsBack, Types
<1>10. d \in Dir \cup {Stop}
  BY <1>4, <1>9 DEF Chosen, Types
<1>11. next_dir = Stop => d = Stop
  BY <1>4, <1>9 DEF Chosen, Waiting
<1>12. CASE d # Stop /\ Open(d)
  <2>1. /\ d \in Dir /\ dir' = d /\ move_cnt' = BLOCK - 1
        /\ play_x' = play_x + DX(d) /\ play_y' = play_y + DY(d)
        /\ DX(d) \in {-1, 0, 1} /\ DY(d) \in {-1, 0, 1}
    BY <1>8, <1>10, <1>12, Directions DEF Move
  <2> DEFINE c == a + DX(d)
             e == b + DY(d)
  <2>2. c \in Int /\ e \in Int /\ <<c, e>> \in maze.open
    BY <1>6, <1>12, <2>1
  <2>3. c - DX(d) = a /\ e - DY(d) = b /\ <<a, b>> \in maze.open
    BY <1>1, <2>1 DEF Nears
  <2>4. play_x' = BLOCK * c - DX(d) * move_cnt'
    BY <1>2, <1>5, <2>1
  <2>5. play_y' = BLOCK * e - DY(d) * move_cnt'
    BY <1>2, <1>5, <2>1
  <2>6. Nears(c, e)'
    BY <1>2, <1>7, <1>12, <2>1, <2>2, <2>3, <2>4, <2>5 DEF Nears
  <2>7. Types'
    BY <1>2, <1>4, <1>7, <2>1 DEF Types
  <2>8. Waiting'
    BY <1>11, <1>12 DEF Waiting
  <2>9. WallsHeeded
    BY <1>3, <1>12, <2>1, Directions DEF WallsHeeded
  <2>10. QED
    BY <1>12, <2>1, <2>2, <2>6, <2>7, <2>8, <2>9 DEF GameInv, OnCorridor
<1>13. CASE ~(d # Stop /\ Open(d))
  <2>1. /\ dir' = Stop /\ move_cnt' = 0
        /\ play_x' = play_x /\ play_y' = play_y
    BY <1>4, <1>8, <1>13, Directions DEF Move, Types
  <2>2. Nears(a, b)'
    <3>1. <<a, b>> \in maze.open
      BY <1>1 DEF Nears
    <3>2. DX(dir') * move_cnt' = 0 /\ DY(dir') * move_cnt' = 0
      BY <2>1, Directions
    <3>3. BLOCK * a \in Int /\ BLOCK * b \in Int
      BY <1>2
    <3>4. QED
      BY <1>2, <1>5, <1>7, <2>1, <3>1, <3>2, <3>3 DEF Nears
  <2>3. Types'
    BY <1>4, <1>7, <2>1 DEF Types
  <2>4. Waiting'
    BY <2>1 DEF Waiting
  <2>5. ASSUME dir # Stop
        PROVE  ~Open(dir)
    <3>1. next_dir # Stop /\ dir \in Dir
      BY <1>4, <2>5 DEF Waiting, Types
    <3>2. ~Open(next_dir) /\ d = Heading
      BY <1>13, <3>1 DEF Chosen
    <3>3. CASE TurnsBack
      <4>1. <<a + DX(Opposite(dir)), b + DY(Opposite(dir))>> \in maze.open
        BY <1>1, <3>1, Directions DEF Nears
      <4>2. QED
        BY <1>6, <3>2, <3>3, <4>1 DEF TurnsBack
    <3>4. CASE ~TurnsBack
      BY <1>13, <2>5, <3>2, <3>4 DEF Heading
    <3>5. QED
      BY <3>3, <3>4
  <2>6. WallsHeeded
    BY <2>1, <2>5 DEF WallsHeeded
  <2>7. QED
    BY <2>2, <2>3, <2>4, <2>6 DEF GameInv, OnCorridor
<1>14. QED
  BY <1>12, <1>13

-----------------------------------------------------------------------------
LEMMA InitGame == Init => GameInv
BY DEF Init, GameInv, Types, Playing, Dir, Stop, None

(* Every step keeps the invariant, stops only at walls and turns into open  *)
(* corridors only.                                                          *)
LEMMA StepGame ==
  ASSUME GameInv, [Next]_vars
  PROVE  GameInv' /\ WallsHeeded
<1>1. CASE StartLevel
  <2>1. maze' \in Mazes /\ <<1, 1>> \in maze'.open /\ BLOCK \in Nat \ {0, 1}
    BY <1>1, GameAssumption DEF StartLevel
  <2>2. Nears(1, 1)'
    BY <1>1, <2>1, Directions DEF StartLevel, Nears
  <2>3. Types' /\ Waiting' /\ level' # level
    BY <1>1, <2>1 DEF StartLevel, GameInv, Types, Waiting, button
  <2>4. QED
    BY <2>2, <2>3 DEF GameInv, OnCorridor, WallsHeeded
<1>2. CASE LeaveLevels \/ SetWinner \/ Check \/ Read \/ (\E c \in Dir \cup {None, All} : Poll(c))
  <2>1. /\ UNCHANGED <<maze, level, player, next_dir>>
        /\ Playing' => Playing
        /\ temp_tux_button' \in Dir \cup {None, All}
    BY <1>2 DEF LeaveLevels, SetWinner, Check, Read, Poll, field, button, player, Playing,
                GameInv, Types
  <2>2. QED
    BY <2>1 DEF GameInv, Types, OnCorridor, Nears, Waiting, WallsHeeded, player
<1>3. CASE Step
  <2>1. /\ rtc = "step" /\ next_dir' = next_dir /\ temp_tux_button' = temp_tux_button
    BY <1>3 DEF Step, button
  <2>2. CASE WithinSquare
    BY <2>1, <2>2, WithinKeeps
  <2>3. CASE NewSquare
    BY <2>1, <2>3, NewSquareKeeps
  <2>4. CASE LevelWon
    <3>1. /\ ~Playing' /\ UNCHANGED <<maze, level, play_x, play_y>>
          /\ dir' = Heading /\ move_cnt' = 0
      BY <2>4 DEF LevelWon, Playing
    <3>2. Types' /\ (dir # Stop => dir' # Stop)
      BY <2>1, <3>1, Directions DEF GameInv, Types, Heading, TurnsBack
    <3>3. QED
      BY <3>1, <3>2 DEF GameInv, WallsHeeded, Heading, TurnsBack
  <2>5. QED
    BY <1>3, <2>2, <2>3, <2>4 DEF Step
<1>4. CASE Keyboard \/ TuxTurns
  <2>1. /\ UNCHANGED <<rtc, maze, level, player, temp_tux_button>>
        /\ next_dir' \in Dir \cup {Stop}
        /\ next_dir' = Stop => next_dir = Stop
    BY <1>4, Directions DEF Keyboard, Key, TuxTurns, TurnedTo, field, button, GameInv, Types,
                            Dir, Stop, None, All
  <2>2. QED
    BY <2>1 DEF GameInv, Types, Playing, OnCorridor, Nears, Waiting, WallsHeeded, player
<1>5. CASE TuxLook \/ Cancel \/ UNCHANGED vars
  <2>1. UNCHANGED <<rtc, maze, level, player, temp_tux_button, next_dir>>
    BY <1>5 DEF TuxLook, Cancel, vars, field, button
  <2>2. QED
    BY <2>1 DEF GameInv, Types, Playing, OnCorridor, Nears, Waiting, WallsHeeded, player
<1>6. QED
  BY <1>1, <1>2, <1>3, <1>4, <1>5 DEF Next, RtcThread

-----------------------------------------------------------------------------
(* The block of a player between two squares lies on these two. *)
LEMMA BlockCovered ==
  ASSUME NEW B \in Nat \ {0, 1}, NEW q \in Int, NEW s \in {-1, 0, 1}, NEW m \in 0..B-1,
         NEW x \in Int, x = B * q - s * m
  PROVE  /\ (x + s * m) % B = 0
         /\ x \div B \in {q, q - s} /\ (x + B - 1) \div B \in {q, q - s}
         /\ s = 0 => x \div B = q /\ (x + B - 1) \div B = q
<1>1. (B * q + 0) % B = 0 /\ x + s * m = B * q + 0
  BY InBlock
<1>2. CASE s = 0 \/ m = 0
  <2>1. x = B * q + 0 /\ x + B - 1 = B * q + (B - 1)
    BY <1>2
  <2>2. (B * q + 0) \div B = q /\ (B * q + (B - 1)) \div B = q
    BY InBlock
  <2>3. QED
    BY <1>1, <2>1, <2>2
<1>3. CASE s = 1 /\ m # 0
  <2>1. x = B * (q - 1) + (B - m) /\ x + B - 1 = B * q + (B - m - 1)
    BY <1>3
  <2>2. B - m \in 0..B-1 /\ B - m - 1 \in 0..B-1 /\ q - 1 \in Int
    BY <1>3
  <2>3. (B * (q - 1) + (B - m)) \div B = q - 1 /\ (B * q + (B - m - 1)) \div B = q
    BY <2>2, InBlock
  <2>4. QED
    BY <1>1, <1>3, <2>1, <2>3
<1>4. CASE s = -1 /\ m # 0
  <2>1. x = B * q + m /\ x + B - 1 = B * (q + 1) + (m - 1)
    BY <1>4
  <2>2. m - 1 \in 0..B-1 /\ q + 1 \in Int
    BY <1>4
  <2>3. (B * q + m) \div B = q /\ (B * (q + 1) + (m - 1)) \div B = q + 1
    BY <2>2, InBlock
  <2>4. QED
    BY <1>1, <1>4, <2>1, <2>3
<1>5. QED
  BY <1>2, <1>3, <1>4

LEMMA InvOnTheWay == GameInv => OnTheWay
<1> SUFFICES ASSUME GameInv, Playing
             PROVE  /\ Covered \subseteq maze.open
                    /\ move_cnt \in 0..BLOCK-1
                    /\ (play_x + DX(dir) * move_cnt) % BLOCK = 0
                    /\ (play_y + DY(dir) * move_cnt) % BLOCK = 0
  BY DEF OnTheWay, Playing
<1>1. PICK a, b \in Int : Nears(a, b)
  BY DEF GameInv, OnCorridor
<1>2. BLOCK \in Nat \ {0, 1} /\ move_cnt \in 0..BLOCK-1
  BY <1>1, GameAssumption DEF Nears
<1>3. DX(dir) \in {-1, 0, 1} /\ DY(dir) \in {-1, 0, 1} /\ (DX(dir) = 0 \/ DY(dir) = 0)
  BY DEF GameInv, Types, Dir, Stop, DX, DY
<1>4. /\ (play_x + DX(dir) * move_cnt) % BLOCK = 0
      /\ play_x \div BLOCK \in {a, a - DX(dir)}
      /\ (play_x + BLOCK - 1) \div BLOCK \in {a, a - DX(dir)}
      /\ DX(dir) = 0 => play_x \div BLOCK = a /\ (play_x + BLOCK - 1) \div BLOCK = a
  <2>1. PICK s \in {-1, 0, 1}, m \in 0..BLOCK-1, x \in Int :
             s = DX(dir) /\ m = move_cnt /\ x = play_x
    BY <1>2, <1>3 DEF GameInv, Types
  <2>2. x = BLOCK * a - s * m
    BY <1>1, <2>1 DEF Nears
  <2>3. /\ (x + s * m) % BLOCK = 0
        /\ x \div BLOCK \in {a, a - s} /\ (x + BLOCK - 1) \div BLOCK \in {a, a - s}
        /\ s = 0 => x \div BLOCK = a /\ (x + BLOCK - 1) \div BLOCK = a
    BY <1>2, <2>2, BlockCovered
  <2>4. QED
    BY <2>1, <2>3
<1>5. /\ (play_y + DY(dir) * move_cnt) % BLOCK = 0
      /\ play_y \div BLOCK \in {b, b - DY(dir)}
      /\ (play_y + BLOCK - 1) \div BLOCK \in {b, b - DY(dir)}
      /\ DY(dir) = 0 => play_y \div BLOCK = b /\ (play_y + BLOCK - 1) \div BLOCK = b
  <2>1. PICK s \in {-1, 0, 1}, m \in 0..BLOCK-1, y \in Int :
             s = DY(dir) /\ m = move_cnt /\ y = play_y
    BY <1>2, <1>3 DEF GameInv, Types
  <2>2. y = BLOCK * b - s * m
    BY <1>1, <2>1 DEF Nears
  <2>3. /\ (y + s * m) % BLOCK = 0
        /\ y \div BLOCK \in {b, b - s} /\ (y + BLOCK - 1) \div BLOCK \in {b, b - s}
        /\ s = 0 => y \div BLOCK = b /\ (y + BLOCK - 1) \div BLOCK = b
    BY <1>2, <2>2, BlockCovered
  <2>4. QED
    BY <2>1, <2>3
<1>6. <<a, b>> \in maze.open /\ <<a - DX(dir), b - DY(dir)>> \in maze.open
  <2>1. dir = Stop => a - DX(dir) = a /\ b - DY(dir) = b
    BY Directions
  <2>2. QED
    BY <1>1, <2>1 DEF Nears
<1>7. ASSUME NEW x \in {play_x, play_x + BLOCK - 1}, NEW y \in {play_y, play_y + BLOCK - 1}
      PROVE  <<x \div BLOCK, y \div BLOCK>> \in maze.open
  <2>1. x \div BLOCK \in {a, a - DX(dir)} /\ y \div BLOCK \in {b, b - DY(dir)}
    BY <1>4, <1>5
  <2>2. DX(dir) = 0 => x \div BLOCK = a /\ a - DX(dir) = a
    BY <1>4
  <2>3. DY(dir) = 0 => y \div BLOCK = b /\ b - DY(dir) = b
    BY <1>5
  <2>4. QED
    BY <1>3, <1>6, <2>1, <2>2, <2>3
<1>8. QED
  BY <1>2, <1>4, <1>5, <1>7 DEF Covered

(* mazegame.c, rtc_thread: the player's block lies on open squares at every *)
(* tick of a level, move_cnt is the way to the next square, and turning     *)
(* back half way keeps both.                                                *)
THEOREM StaysOnTheWay == Spec => []OnTheWay
<1>1. GameInv /\ [Next]_vars => GameInv'
  BY StepGame
<1>2. QED
  BY InitGame, <1>1, InvOnTheWay, PTL DEF Spec

(* mazegame.c, rtc_thread: within a level the player is stopped by a wall   *)
(* only, although next_dir may be DIR_STOP, which open[] has no entry for,  *)
(* and turns into another corridor only on a square and only if it is open. *)
THEOREM StopsOnlyAtWalls == Spec => StopsAtWalls
<1>1. GameInv /\ [Next]_vars => GameInv'
  BY StepGame
<1>2. GameInv /\ [Next]_vars => [WallsHeeded]_vars
  BY StepGame
<1>3. QED
  BY InitGame, <1>1, <1>2, PTL DEF Spec, StopsAtWalls
=============================================================================
