------------------------------ MODULE Console -------------------------------
(***************************************************************************)
(* The screen: putc, background_putc, scroll_down, clear and the cursor     *)
(* (lib.c), terminal_write (terminal.c), the echo of keyboard_handler       *)
(* (keyboard.c), and the exchange of the screen with the page of another    *)
(* terminal in switch_terminal (naman_page.c), which the first ticks of the *)
(* PIT bring about (pit.c).  One pair screen_x, screen_y serves all         *)
(* terminals.  terminal_write runs with interrupts enabled, one step for    *)
(* each character; the keyboard's handler is one step.                      *)
(*                                                                         *)
(* told is the readers' side: for each terminal the rows of text it has     *)
(* been given since it was last cleared, of which the last NUM_ROWS are     *)
(* kept, without what has been typed and taken back.                        *)
(***************************************************************************)
EXTENDS Lib, SequencesExt

CONSTANTS
  NUM_COLS, NUM_ROWS,
  Terms,      (* MAX_TERMS: the terminals are 0 to Terms-1                    *)
  TabWidth,   (* the blanks a tab is echoed as: 4                             *)
  Keys,       (* the characters of the keyboard                               *)
  KeybMax,    (* where keyboard_handler stops taking characters: 127          *)
  Unbounded,  (* those it goes on taking: the number row and the backslash    *)
  LineMax,    (* a bound: how long a line the user makes of these             *)
  MaxLeft,    (* a bound: the characters a terminal shows when it is left     *)
  Messages,   (* what programs write, as sequences of characters              *)
  Freedoms    (* what user and programs may do beyond orderly use:            *)
              (*  "leave"  switch terminals while a program writes            *)
              (*  "ahead"  type while a program writes, write within a line   *)
              (*  "clear"  clear the screen within a line (Ctrl-L)            *)
              (*  "bare"   switch terminals while nothing is on the screen    *)
              (*  "edges"  take back a ">", or a blank at the end of a row    *)

Term  == 0..Terms-1
Cells == 0..(NUM_COLS * NUM_ROWS)-1
Blank == " "
TAB   == "\t"
LF    == "\n"

ASSUME ConsoleAssumption ==
  /\ NUM_COLS \in Nat \ {0} /\ NUM_ROWS \in Nat \ {0} /\ Terms \in Nat \ {0}
  /\ TabWidth \in Nat \ {0} /\ KeybMax \in Nat /\ MaxLeft \in Nat
  /\ LineMax \in Nat /\ Unbounded \subseteq Keys \ {TAB}
  /\ Freedoms \subseteq {"leave", "ahead", "clear", "bare", "edges"}
  /\ Keys \cap {LF, NUL} = {}

VARIABLES
  con,           (* pages[0] is video memory, pages[t+1] the page of terminal t;
                    screen_x, screen_y; pos is the cursor in the CRT controller *)
  curr_term_ID,
  cursor,        (* terminals[t].cursor                                       *)
  schedule_term_ID, booted,    (* the shells the PIT has started; its last tick *)
  writing,       (* the rest of a terminal_write, and the terminal it began in *)
  keyb,          (* keyb_buff up to kbb_ind                                   *)
  told

terms == <<curr_term_ID, cursor>>
boot  == <<schedule_term_ID, booted>>
vars  == <<con, terms, boot, writing, keyb, told>>

Unknown == [p \in Cells |-> "?"]

Idle == [s |-> 0, rest |-> <<>>]

-----------------------------------------------------------------------------
(* lib.c.  k is the console, v the page that is written: the screen for putc,
   the page of a terminal for background_putc.                              *)
Place(k) == k.y * NUM_COLS + k.x

(* update_cursor *)
Cursored(k) == [k EXCEPT !.pos = Place(k)]

ScrollDown(mem) == [p \in Cells |-> IF p + NUM_COLS \in Cells THEN mem[p + NUM_COLS] ELSE Blank]

SettledScrollsAll(k) ==               \* mutant: the new row keeps the old one's text
  IF k.y = NUM_ROWS
    THEN [k EXCEPT !.y = NUM_ROWS - 1, !.pages[0] =
            [p \in Cells |-> IF p + NUM_COLS \in Cells THEN @[p + NUM_COLS] ELSE @[p]]]
    ELSE k
Settled(k) == IF k.y = NUM_ROWS
                THEN [k EXCEPT !.y = NUM_ROWS - 1, !.pages[0] = ScrollDown(@)]
                ELSE k

NewRow(k) == Cursored([Settled([k EXCEPT !.y = @ + 1]) EXCEPT !.x = 0])

Shown(k, v, c) ==
  Cursored(Settled([k EXCEPT !.pages[v][Place(k)] = c,
                             !.x = (k.x + 1) % NUM_COLS,
                             !.y = @ + ((k.x + 1) \div NUM_COLS)]))

(* '\0': a ">" in front of the cursor stays.  From the first column the cursor
   goes back over all that is empty, to the first cell at most.             *)
TakenBack(k, v) ==
  LET before == Place(k) - 1
      full   == {p \in 0..before : k.pages[v][p] \notin {Blank, NUL}}
      p      == IF k.x > 0 THEN before ELSE Max(full \cup {0})
  IN  IF before >= 0 /\ k.pages[v][before] = ">" THEN k
      ELSE Cursored([k EXCEPT !.pages[v][p] = NUL,
                              !.x = p % NUM_COLS, !.y = p \div NUM_COLS])

Emit(k, v, c) == CASE c = LF  -> NewRow(k)
                   [] c = NUL -> TakenBack(k, v)
                   [] OTHER   -> Shown(k, v, c)

Putc(k, c)                == Emit(k, 0, c)
BackgroundPutc(k, c, term) == Emit(k, term + 1, c)
Puts(k, s)                == FoldLeft(Putc, k, s)

(* The cursor in the CRT controller stays where it is. *)
Clear(k) == [k EXCEPT !.pages[0] = [p \in Cells |-> Blank], !.x = 0, !.y = 0]

-----------------------------------------------------------------------------
(* The text of a terminal, in rows. *)
NoText == << <<>> >>

Keep(rows)   == IF Len(rows) > NUM_ROWS THEN Tail(rows) ELSE rows
Say(rows, c) ==
  LET row == Append(Last(rows), c)
  IN  IF c = LF THEN Keep(Append(rows, <<>>))
      ELSE IF Len(row) = NUM_COLS THEN Keep(Front(rows) \o <<row, <<>>>>)
      ELSE Front(rows) \o <<row>>
SayAll(rows, s) == FoldLeft(Say, rows, s)

Unsay(rows) == LET r == IF Last(rows) = <<>> THEN Front(rows) ELSE rows
               IN  Front(r) \o <<Front(Last(r))>>
UnsayAll(rows, n) == FoldLeft(LAMBDA r, i : Unsay(r), rows, [i \in 1..n |-> i])

-----------------------------------------------------------------------------
(* What the memory of the pages holds at first nobody knows.                *)
Init == /\ con = [pages |-> [v \in 0..Terms |-> Unknown],
                  x |-> 0, y |-> 0, pos |-> 0]
        /\ curr_term_ID = 0 /\ cursor = [t \in Term |-> 0]
        /\ schedule_term_ID = 0 /\ booted = FALSE
        /\ writing = Idle /\ keyb = <<>>
        /\ told = [t \in Term |-> NoText]

(* switch_terminal, with remap_mem and write_switch: the position saved for
   the old terminal is that of the CRT controller.  The copy that stays behind
   in the page of the new one is forgotten: it is not read before it is written. *)
Exchanged(k, new) ==
  [pages |-> [k.pages EXCEPT ![curr_term_ID + 1] = k.pages[0], ![0] = k.pages[new + 1],
                             ![new + 1] = Unknown],
   x |-> cursor[new] % NUM_COLS, y |-> cursor[new] \div NUM_COLS, pos |-> cursor[new]]

LeaveLate(new) ==                     \* mutant: the cursor is moved before it is saved
  /\ cursor' = [cursor EXCEPT ![curr_term_ID] = Exchanged(con, new).pos]
  /\ curr_term_ID' = new
Leave(new) ==
  /\ cursor' = [cursor EXCEPT ![curr_term_ID] = con.pos]
  /\ curr_term_ID' = new

(* pit_handler starts a shell: it switches, clears, and sys_execute prints
   "we are in terminal %d".                                                 *)
Banner(t) == <<"t">> \o Printed("d", t) \o <<LF>>

PitStart ==
  LET t == schedule_term_ID
  IN  /\ ~booted /\ t \in Term
      /\ writing = Idle \/ "leave" \in Freedoms
      /\ IF t = curr_term_ID THEN UNCHANGED terms ELSE Leave(t)
      /\ con' = Puts(Clear(IF t = curr_term_ID THEN con ELSE Exchanged(con, t)), Banner(t))
      /\ schedule_term_ID' = t + 1
      /\ writing' = Idle /\ keyb' = <<>>
      /\ told' = [told EXCEPT ![t] = SayAll(NoText, Banner(t))]
      /\ UNCHANGED booted

(* A switch by the keyboard, or by the PIT's last tick to terminal 0. *)
Switch(new) ==
  /\ new # curr_term_ID
  /\ writing = Idle \/ "leave" \in Freedoms
  /\ told[curr_term_ID] # NoText \/ "bare" \in Freedoms
  /\ keyb = <<>> /\ Len(FlattenSeq(told[curr_term_ID])) <= MaxLeft
  /\ Leave(new) /\ con' = Exchanged(con, new)
  /\ UNCHANGED <<schedule_term_ID, writing, keyb, told>>

PitLast   == ~booted /\ schedule_term_ID = Terms /\ booted' = TRUE
             /\ \/ Switch(0)
                \/ curr_term_ID = 0
                   /\ UNCHANGED <<con, terms, schedule_term_ID, writing, keyb, told>>
KeySwitch == \E new \in Term : booted /\ Switch(new) /\ UNCHANGED booted

-----------------------------------------------------------------------------
(* terminal_write, in the terminal that is shown when it begins. *)
TerminalWrite(buf) ==
  /\ writing = Idle /\ schedule_term_ID > 0
  /\ keyb = <<>> \/ "ahead" \in Freedoms
  /\ writing' = [s |-> curr_term_ID, rest |-> buf]
  /\ UNCHANGED <<con, terms, boot, keyb, told>>

WriteChar ==
  LET c == Head(writing.rest)
      s == writing.s
  IN  /\ writing.rest # <<>>
      /\ IF curr_term_ID # s THEN con' = BackgroundPutc(con, c, s)
         ELSE IF c # NUL THEN con' = Putc(con, c)
         ELSE UNCHANGED con
      /\ writing' = IF Len(writing.rest) = 1 THEN Idle ELSE [writing EXCEPT !.rest = Tail(@)]
      /\ told' = [told EXCEPT ![s] = IF c = NUL THEN @ ELSE Say(@, c)]
      /\ UNCHANGED <<terms, boot, keyb>>

(* The keyboard, whose handler echoes what it puts into the line. *)
MayType == booted /\ (writing = Idle \/ "ahead" \in Freedoms)

Echo(c) == IF c = TAB THEN [i \in 1..TabWidth |-> Blank] ELSE <<c>>

Room(c) == Len(keyb) < KeybMax \/ (c \in Unbounded /\ Len(keyb) < LineMax)

KeyChar(c) ==
  /\ MayType /\ Room(c)
  /\ con' = Puts(con, Echo(c))
  /\ keyb' = Append(keyb, c)
  /\ told' = [told EXCEPT ![curr_term_ID] = SayAll(@, Echo(c))]
  /\ UNCHANGED <<terms, boot, writing>>

KeyEnter ==
  /\ MayType
  /\ con' = Putc(con, LF)
  /\ keyb' = <<>>
  /\ told' = [told EXCEPT ![curr_term_ID] = Say(@, LF)]
  /\ UNCHANGED <<terms, boot, writing>>

(* The user takes back the last key; not a ">", which the kernel takes for the
   prompt's, nor a blank that ends a row.                                   *)
PlainlyTaken(c) == c # ">" /\ (c \in {Blank, TAB} => con.x >= Len(Echo(c)))

ErasedAsTab(k, c) == Puts(k, [i \in 1..TabWidth |-> NUL])  \* mutant: always as a tab
Erased(k, c) == Puts(k, [i \in 1..Len(Echo(c)) |-> NUL])

KeyBackspace ==
  /\ MayType /\ keyb # <<>>
  /\ PlainlyTaken(Last(keyb)) \/ "edges" \in Freedoms
  /\ con' = Erased(con, Last(keyb))
  /\ keyb' = Front(keyb)
  /\ told' = [told EXCEPT ![curr_term_ID] = UnsayAll(@, Len(Echo(Last(keyb))))]
  /\ UNCHANGED <<terms, boot, writing>>

(* Ctrl-L; kbb_ind stays. *)
KeyClear ==
  /\ MayType
  /\ keyb = <<>> \/ "clear" \in Freedoms
  /\ con' = Clear(con)
  /\ told' = [told EXCEPT ![curr_term_ID] = NoText]
  /\ UNCHANGED <<terms, boot, writing, keyb>>

-----------------------------------------------------------------------------
Next == \/ PitStart \/ PitLast \/ KeySwitch
        \/ \E buf \in Messages : TerminalWrite(buf)
        \/ WriteChar
        \/ \E c \in Keys : KeyChar(c)
        \/ KeyEnter \/ KeyBackspace \/ KeyClear

Spec == Init /\ [][Next]_vars

-----------------------------------------------------------------------------
(* Where a terminal's page is, and where its cursor. *)
Started == 0..schedule_term_ID-1
Page(t)   == IF t = curr_term_ID THEN con.pages[0] ELSE con.pages[t + 1]
CursorOf(t) == IF t = curr_term_ID THEN Place(con) ELSE cursor[t]

(* What a reader sees in a cell of a page, and should see. *)
Seen(c) == IF c = NUL THEN Blank ELSE c
Meant(rows, p) ==
  LET i == (p \div NUM_COLS) + 1
      j == (p % NUM_COLS) + 1
  IN  IF i <= Len(rows) /\ j <= Len(rows[i]) THEN rows[i][j] ELSE Blank
End(rows) == (Len(rows) - 1) * NUM_COLS + Len(Last(rows))

(* Every terminal shows the last rows of what it has been given and nothing
   else, whether it is on the screen or in its page, and whatever the others
   have been given in between: rows are broken, scrolled, taken back and
   cleared alike (putc, scroll_down, clear, remap_mem).                     *)
ShowsItsText ==
  \A t \in Started : \A p \in Cells : Seen(Page(t)[p]) = Meant(told[t], p)

(* What comes next in a terminal comes right behind its text: the one pair
   screen_x, screen_y, the cursor of the CRT controller and the positions kept
   for the other terminals agree (update_cursor, switch_terminal,
   write_switch).                                                           *)
CursorAtEnd == \A t \in Started : CursorOf(t) = End(told[t])

(* A backspace finds what it takes back on the screen, as long as a line is
   at most LineMax long: putc never looks at the byte in front of video
   memory, whose page is not present.                                       *)
NeverBeforeScreen == keyb # <<>> => Place(con) >= Len(Echo(Last(keyb)))

(* What the screen is written with is right before anything is on it: printf's
   numbers, and the copying of pages and rows (lib.c).                      *)
LibraryRight == schedule_term_ID = 0 => NumbersReadBack /\ BytesInPlace
=============================================================================
