-------------------------------- MODULE View --------------------------------
(***************************************************************************)
(* The picture of the MP2 game in mode X (modex.c): a build buffer in memory *)
(* that holds the pixels of a window on the maze, and is copied to the       *)
(* video memory as a whole.  The four planes lie one after the other, plane *)
(* 3 first; the window moves through the buffer, and what it still needs is *)
(* carried back to the middle when it comes to an end of the buffer.        *)
(*                                                                         *)
(* A view is a record of show_x, show_y, img3_off and the buffer; the       *)
(* functions of modex.c are operators from views to views.  A pixel holds   *)
(* what was drawn there, which is None outside of the window: nothing may   *)
(* depend on it.                                                            *)
(***************************************************************************)
EXTENDS Integers

CONSTANTS
  SCROLL_X_DIM, SCROLL_Y_DIM,     (* the window in pixels: 320, 182          *)
  Spare,                          (* the room in the buffer beyond it: 20000 *)
  BLOCK_X_DIM, BLOCK_Y_DIM,       (* a block of the maze: 12, 12             *)
  BLOCK_X_FRUIT_DIM,
  BLOCK_Y_FRUIT_DIM               (* the text over the player: 104, 16       *)

ASSUME ViewAssumption ==
  /\ SCROLL_X_DIM \in Nat \ {0} /\ SCROLL_X_DIM % 4 = 0 /\ SCROLL_Y_DIM \in Nat \ {0}
  /\ Spare \in Nat /\ BLOCK_X_DIM \in Nat \ {0} /\ BLOCK_Y_DIM \in Nat \ {0}
  /\ BLOCK_X_FRUIT_DIM \in Nat /\ BLOCK_Y_FRUIT_DIM \in Nat

None == <<"none">>

SCROLL_X_WIDTH  == SCROLL_X_DIM \div 4
SCROLL_SIZE     == SCROLL_X_WIDTH * SCROLL_Y_DIM
SCREEN_SIZE     == 4 * SCROLL_SIZE + 1
BUILD_BUF_SIZE  == SCREEN_SIZE + Spare
BUILD_BASE_INIT == (BUILD_BUF_SIZE - SCREEN_SIZE) \div 2

(* set_mode_X *)
InitView == [show_x |-> 0, show_y |-> 0, img3_off |-> BUILD_BASE_INIT,
             build |-> [a \in 0..BUILD_BUF_SIZE-1 |-> None]]

(* Where a pixel of the logical window lies in the buffer. *)
Offset(x, y) == (x \div 4) + y * SCROLL_X_WIDTH
Address(v, p) == v.img3_off + Offset(p[1], p[2]) + (3 - (p[1] % 4)) * SCROLL_SIZE

Read(v, p) == v.build[Address(v, p)]

(* The part of a rectangle that lies in the window; the rest is clipped.    *)
Clipped(v, x, y, w, h) ==
  {p \in (x..x+w-1) \X (y..y+h-1) :
     /\ p[1] >= v.show_x /\ p[1] < v.show_x + SCROLL_X_DIM
     /\ p[2] >= v.show_y /\ p[2] < v.show_y + SCROLL_Y_DIM}

Window(v) == Clipped(v, v.show_x, v.show_y, SCROLL_X_DIM, SCROLL_Y_DIM)

(* Pixel p of the set P takes the value image[p]. *)
Drawn(v, P, image) ==
  LET at      == {<<Address(v, p), p>> : p \in P}
      written == {q[1] : q \in at}
  IN  [v EXCEPT !.build =
         [a \in (DOMAIN @) \cup written |->
            IF a \in written THEN image[(CHOOSE q \in at : q[1] = a)[2]] ELSE @[a]]]

(* Nothing outside of the window counts. *)
Forget(v) ==
  LET used == {Address(v, p) : p \in Window(v)}
  IN  [v EXCEPT !.build = [a \in DOMAIN @ |-> IF a \in used THEN @[a] ELSE None]]

-----------------------------------------------------------------------------
(* set_view_window: the new window still lies in the buffer. *)
FitsLoosely(v, x, y) ==               \* mutant: forgets the planes
  /\ v.img3_off + Offset(x, y) >= 0
  /\ v.img3_off + Offset(x + SCROLL_X_DIM - 1, y + SCROLL_Y_DIM - 1) < BUILD_BUF_SIZE
Fits(v, x, y) ==
  /\ v.img3_off + Offset(x, y) >= 0
  /\ v.img3_off + 3 * SCROLL_SIZE
       + Offset(x + SCROLL_X_DIM - 1, y + SCROLL_Y_DIM - 1) < BUILD_BUF_SIZE

Apart(v, x, y) ==
  \/ x <= v.show_x - SCROLL_X_DIM \/ x >= v.show_x + SCROLL_X_DIM
  \/ y <= v.show_y - SCROLL_Y_DIM \/ y >= v.show_y + SCROLL_Y_DIM

Larger(a, b)  == IF a > b THEN a ELSE b
Smaller(a, b) == IF a > b THEN b ELSE a

(* Byte i of the target after a copy of n bytes within the buffer, upward   *)
(* or downward: it comes from byte i of the source as it is by then.        *)
Upward(i, start, target) ==
  IF target <= start THEN i ELSE i % (target - start)
Downward(i, n, start, target) ==
  IF start <= target THEN i
  ELSE i + ((n - 1 - i) \div (start - target)) * (start - target)

CopiedUpward(build, start, target, n) ==   \* mutant: the direction is always the same
  [a \in DOMAIN build |->
     IF a \in target..target+n-1 THEN build[start + Upward(a - target, start, target)]
                                 ELSE build[a]]
Copied(build, start, target, n) ==
  [a \in DOMAIN build |->
     IF a \notin target..target+n-1 THEN build[a]
     ELSE IF start < target THEN build[start + Downward(a - target, n, start, target)]
                            ELSE build[start + Upward(a - target, start, target)]]

SetViewWindow(v, x, y) ==
  LET moved == [v EXCEPT !.show_x = x, !.show_y = y]
      off   == BUILD_BASE_INIT - Offset(x, y)
      from  == Offset(Larger(x, v.show_x), Larger(y, v.show_y))
      to    == Offset(Smaller(x, v.show_x) + SCROLL_X_DIM - 1,
                      Smaller(y, v.show_y) + SCROLL_Y_DIM - 1)
  IN  IF Fits(v, x, y) THEN moved
      ELSE IF Apart(v, x, y) THEN [moved EXCEPT !.img3_off = off]
      ELSE [moved EXCEPT !.img3_off = off,
                         !.build = Copied(@, v.img3_off + from, off + from,
                                          to + 1 - from + 3 * SCROLL_SIZE)]

-----------------------------------------------------------------------------
(* draw_full_block, draw_full_block_with_mask: a block at (x, y). *)
DrawBlock(v, x, y, image) == Drawn(v, Clipped(v, x, y, BLOCK_X_DIM, BLOCK_Y_DIM), image)

(* copy_full_block *)
CopyBlock(v, x, y) ==
  [p \in Clipped(v, x, y, BLOCK_X_DIM, BLOCK_Y_DIM) |-> Read(v, p)]

(* draw_horiz_line, draw_vert_line: line y, column x of the window. *)
Line(v, y)   == Clipped(v, v.show_x, v.show_y + y, SCROLL_X_DIM, 1)
Column(v, x) == Clipped(v, v.show_x + x, v.show_y, 1, SCROLL_Y_DIM)

(* save_floor_block and its two companions: the text is pushed into the     *)
(* window, at the lower edge but for its last row.                          *)
TextRows(v, y) ==
  LET top == IF y <= v.show_y THEN v.show_y ELSE y
  IN  IF top + BLOCK_Y_FRUIT_DIM >= v.show_y + SCROLL_Y_DIM
        THEN v.show_y + SCROLL_Y_DIM - (BLOCK_Y_FRUIT_DIM - 1)
        ELSE top
TextBlock(v, x, y) ==
  Clipped(v, x, TextRows(v, y), BLOCK_X_FRUIT_DIM, BLOCK_Y_FRUIT_DIM)

(* show_screen: column c of row r on the display comes from plane c % 4,    *)
(* which is copied from one address on.                                     *)
ShownUnshifted(v, c, r) ==            \* mutant: no plane begins one byte later
  LET i     == c % 4
      p_off == 3 - (v.show_x % 4)
  IN  v.build[v.img3_off + Offset(v.show_x, v.show_y) + ((p_off - i + 4) % 4) * SCROLL_SIZE
                + (r * SCROLL_X_WIDTH + c \div 4)]
Shown(v, c, r) ==
  LET i     == c % 4
      p_off == 3 - (v.show_x % 4)
  IN  v.build[v.img3_off + Offset(v.show_x, v.show_y) + ((p_off - i + 4) % 4) * SCROLL_SIZE
                + (IF p_off < i THEN 1 ELSE 0) + (r * SCROLL_X_WIDTH + c \div 4)]
=============================================================================
