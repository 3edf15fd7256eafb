-------------------------------- MODULE Maze --------------------------------
(***************************************************************************)
(* The maze of the MP2 game (maze.c): how make_maze digs it, connects it    *)
(* and puts fruits and an exit into it.  Worms dig until every point (odd,  *)
(* odd) is empty; then points that are not connected with (1,1) are joined  *)
(* to one that is, chosen at random at first and by a scan later.           *)
(*                                                                         *)
(* A place of the array is <<x, y>>.  Column 0 is also the right boundary,  *)
(* one row further down: that is what MAZE_INDEX makes of x = 2 maze_x_dim. *)
(***************************************************************************)
EXTENDS Integers, FiniteSets

CONSTANTS
  maze_x_dim, maze_y_dim,
  Fruits,      (* start_fruits                                              *)
  Few,         (* from how many points on the scan begins: 20               *)
  MaxTrials    (* after how many random points the scan begins: 100         *)

ASSUME MazeAssumption ==
  /\ maze_x_dim \in Nat \ {0} /\ maze_y_dim \in Nat \ {0}
  /\ Fruits \in Nat /\ Fruits < maze_x_dim * maze_y_dim
  /\ Few \in Nat /\ MaxTrials \in Nat

Width  == 2 * maze_x_dim
Height == 2 * maze_y_dim

(* MAZE_INDEX: the place that the lattice point (a, b) stands for. *)
Place(a, b) == IF a < Width THEN <<a, b>> ELSE <<a - Width, b + 1>>

Places == (0..Width-1) \X (-1..Height+1)
Nodes  == {c \in Places : c[1] % 2 = 1 /\ c[2] % 2 = 1 /\ c[2] > 0 /\ c[2] < Height}

(* The directions: up, right, down, left. *)
Dir == 0..3
Ahead(c, d, n) == Place(c[1] + (IF d = 1 THEN n ELSE IF d = 3 THEN -n ELSE 0),
                        c[2] + (IF d = 2 THEN n ELSE IF d = 0 THEN -n ELSE 0))

CanGoOver(c, d) ==                    \* mutant: off by one at the right
  \/ d = 0 /\ c[2] > 1
  \/ d = 1 /\ c[1] < Width
  \/ d = 2 /\ c[2] < Height - 1
  \/ d = 3 /\ c[1] > 1
CanGo(c, d) == \/ d = 0 /\ c[2] > 1
               \/ d = 1 /\ c[1] < Width - 1
               \/ d = 2 /\ c[2] < Height - 1
               \/ d = 3 /\ c[1] > 1

VARIABLES
  stage,         (* where make_maze is                                      *)
  walls, reach,  (* the places with MAZE_WALL, with MAZE_REACH              *)
  at, pref_dir,  (* make_maze's x and y; the worm's direction               *)
  remaining, trials,
  fruits,        (* the places with a fruit; n_fruits counts them           *)
  n_fruits, exit

maze == <<stage, walls, reach, at, pref_dir, remaining, trials, fruits, n_fruits, exit>>

-----------------------------------------------------------------------------
(* mark_maze_area: the points it finds from c, through places without wall  *)
(* and never beyond points already reached.                                 *)
Beyond(c, w) == {Ahead(c, d, 2) : d \in {e \in Dir : Ahead(c, e, 1) \notin w}}

MarkMazeArea(c, w, r) ==
  LET found[n \in 0..maze_x_dim * maze_y_dim] ==
        IF n = 0 THEN {c}
        ELSE LET before == found[n-1]
             IN  before \cup ((UNION {Beyond(b, w) : b \in before}) \ r)
  IN  found[maze_x_dim * maze_y_dim]

Init == /\ stage = "pick"
        /\ walls = Places /\ reach = {}
        /\ at = <<1, 1>> /\ pref_dir = 0
        /\ remaining = maze_x_dim * maze_y_dim /\ trials = 0
        /\ fruits = {} /\ n_fruits = 0 /\ exit = <<0, 0>>

PickStart ==
  /\ stage = "pick" /\ stage' = "worm"
  /\ at' \in Nodes \cap walls
  /\ walls' = walls \ {at'}
  /\ remaining' = remaining - 1
  /\ pref_dir' \in Dir
  /\ UNCHANGED <<reach, trials, fruits, n_fruits, exit>>

Opposite(d, e) == (d - e + 4) % 4 = 2

(* Every direction within the maze has some weight. *)
WormMoves(d) ==
  /\ stage = "worm" /\ CanGo(at, d) /\ ~Opposite(d, pref_dir)
  /\ at' = Ahead(at, d, 2) /\ pref_dir' = d
  /\ walls' = walls \ {Ahead(at, d, 1), at'}
  /\ remaining' = (IF at' \in walls THEN remaining - 1 ELSE remaining)
  /\ UNCHANGED <<stage, reach, trials, fruits, n_fruits, exit>>

WormTurns(d) ==
  /\ stage = "worm" /\ CanGo(at, d) /\ Opposite(d, pref_dir)
  /\ stage' = (IF remaining > 0 THEN "pick" ELSE "mark")
  /\ pref_dir' = 0                    \* of no further use, as trials later
  /\ UNCHANGED <<walls, reach, at, remaining, trials, fruits, n_fruits, exit>>

MarkStart ==
  /\ stage = "mark" /\ stage' = "connect"
  /\ reach' = MarkMazeArea(<<1, 1>>, walls, {})
  /\ remaining' = maze_x_dim * maze_y_dim - Cardinality(reach')
  /\ trials' = 0
  /\ UNCHANGED <<walls, at, pref_dir, fruits, n_fruits, exit>>

NextInScanStuck(c) ==                 \* mutant: never leaves its row
  IF c[1] + 2 <= Width THEN <<c[1] + 2, c[2]>> ELSE <<c[1] + 2 - Width, c[2]>>

(* The next point of the scan, row by row and from the last to the first.   *)
NextInScan(c) ==
  IF c[1] + 2 <= Width THEN <<c[1] + 2, c[2]>>
  ELSE <<c[1] + 2 - Width, IF c[2] + 2 > Height THEN c[2] + 2 - Height ELSE c[2] + 2>>

(* The order in which a point looks for a neighbour that is reached. *)
Links(c) == {d \in Dir : CanGo(c, d) /\ Ahead(c, d, 2) \in reach}
First(ds) == IF 0 \in ds THEN 0 ELSE IF 3 \in ds THEN 3 ELSE IF 1 \in ds THEN 1 ELSE 2

ConnectAgain(c) ==                    \* mutant: counts a point that is reached once more
  IF Links(c) = {}
    THEN UNCHANGED <<walls, reach, remaining>>
    ELSE LET w    == walls \ {Ahead(c, First(Links(c)), 1)}
             area == MarkMazeArea(c, w, reach)
         IN  /\ walls' = w /\ reach' = reach \cup area
             /\ remaining' = remaining - Cardinality(area)
(* Joins c to a neighbour, if one is reached. *)
Connect(c) ==
  IF c \in reach \/ Links(c) = {}
    THEN UNCHANGED <<walls, reach, remaining>>
    ELSE LET w    == walls \ {Ahead(c, First(Links(c)), 1)}
             area == MarkMazeArea(c, w, reach)
         IN  /\ walls' = w /\ reach' = reach \cup area
             /\ remaining' = remaining - Cardinality(area)

Scanning == remaining < Few \/ trials + 1 > MaxTrials

TryConnect ==
  /\ stage = "connect"
  /\ at' \in (IF Scanning THEN {NextInScan(at)} ELSE Nodes \ reach)
  /\ trials' = (IF remaining < Few \/ trials > MaxTrials THEN trials ELSE trials + 1)
  /\ Connect(at')
  /\ stage' = (IF remaining' > 0 THEN "connect" ELSE "furnish")
  /\ UNCHANGED <<pref_dir, fruits, n_fruits, exit>>

(* The markers go; a point takes at most one fruit, and the exit none.      *)
Furnish ==
  /\ stage = "furnish" /\ stage' = "ready"
  /\ reach' = reach \ Nodes
  /\ fruits' \in {F \in SUBSET Nodes : Cardinality(F) = Fruits}
  /\ n_fruits' = Fruits
  /\ exit' \in Nodes \ fruits'
  /\ at' = exit' /\ trials' = 0
  /\ UNCHANGED <<walls, pref_dir, remaining>>

MakeMaze == \/ PickStart \/ MarkStart \/ TryConnect \/ Furnish
            \/ \E d \in Dir : WormMoves(d) \/ WormTurns(d)

-----------------------------------------------------------------------------
(* Every point can be reached from (1,1), where the player starts; and at   *)
(* every moment an open place next to a point leads on to a point that      *)
(* exists and is open, which is what mark_maze_area's walk relies on.       *)
AllReachable ==
  /\ stage \in {"furnish", "ready"} => MarkMazeArea(<<1, 1>>, walls, {}) = Nodes
  /\ \A c \in Nodes \ walls, d \in Dir :
       Ahead(c, d, 1) \notin walls => CanGo(c, d) /\ Ahead(c, d, 2) \in Nodes \ walls

(* The second phase ends, whatever the random numbers are. *)
ConnectEnds == stage = "connect" ~> stage = "furnish"
=============================================================================
