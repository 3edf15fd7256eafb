------------------------------ MODULE Keyboard ------------------------------
(***************************************************************************)
(* From the keys to a line of input: keyboard_handler (keyboard.c) keeps   *)
(* the modifier flags and fills keyb_buff, switch_terminal (naman_page.c)  *)
(* exchanges that buffer with those of the terminals, and terminal_read    *)
(* (terminal.c) waits for enter_flag and copies the buffer out.  The       *)
(* handler is one step, with interrupts disabled; terminal_read runs with  *)
(* interrupts enabled, and a key may come between any two of its steps.    *)
(*                                                                         *)
(* held, caps and line are the user's side: the keys that are down, whether *)
(* the keyboard is locked, and the text typed since the last line.         *)
(***************************************************************************)
EXTENDS Naturals, Sequences, SequencesExt

CONSTANTS
  Size,      (* KEYBOARD_BUFFER_SIZE                                          *)
  Term,      (* the terminals, 0 to MAX_TERMS-1                               *)
  MaxLine,   (* a bound on kbb_ind: the digit keys have none                  *)
  Requests,  (* the nbytes the programs ask terminal_read for                 *)
  Freedoms   (* what the user may do beyond orderly use:                      *)
             (*  "chord"  press or release Shift, Alt or Caps with Ctrl down  *)
             (*  "shifts" hold both Shift keys at once                        *)
             (*  "clear"  clear the screen within a line (Ctrl-L)             *)
             (*  "switch" switch terminals within a line                      *)
             (*  "abort"  end the program within a line (Ctrl-C)              *)
             (*  "ahead"  type while no read is waiting                       *)

AllFreedoms == {"chord", "shifts", "clear", "switch", "abort", "ahead"}

ASSUME KeyboardAssumption == /\ Size \in Nat \ {0} /\ MaxLine \in Nat /\ MaxLine >= Size
                             /\ 0 \in Term
                             /\ Requests \subseteq Nat \ {0}
                             /\ Freedoms \subseteq AllFreedoms

Shift    == {"lshift", "rshift"}
Modifier == Shift \cup {"ctrl", "alt"}
Char     == {"a", "A", "1", "newline"}
NUL      == "NUL"

(* keyb_buff and, from index Size on, the bytes the linker put behind it. *)
Cell  == 0..MaxLine+1
Empty == [i \in Cell |-> NUL]

VARIABLES
  held, caps, line,                                      (* the user         *)
  shift_flag, ctrl_flag, alt_flag, caps_lock_flag,       (* keyboard_handler *)
  keyb_buff, kbb_ind, enter_flag,
  curr_term_ID, sbuf,                                    (* switch_terminal  *)
  reader,   (* terminal_read: "idle", "wait", "copy", "clear" or "flag"      *)
  nbytes, read                       (* its argument and what it has copied  *)

user   == <<held, caps, line>>
flags  == <<shift_flag, ctrl_flag, alt_flag, caps_lock_flag>>
buffer == <<keyb_buff, kbb_ind, enter_flag>>
screen == <<curr_term_ID, sbuf>>
call   == <<reader, nbytes, read>>
vars   == <<user, flags, buffer, screen, call>>

-----------------------------------------------------------------------------
Init == /\ held = {} /\ caps = FALSE /\ line = <<>>
        /\ shift_flag = 0 /\ ctrl_flag = 0 /\ alt_flag = 0 /\ caps_lock_flag = 0
        /\ keyb_buff = Empty /\ kbb_ind = 0 /\ enter_flag = 0
        /\ curr_term_ID = 0 /\ sbuf = [t \in Term |-> Empty]
        /\ reader = "idle" /\ nbytes = 0 /\ read = <<>>

Flag(b) == IF b THEN 1 ELSE 0

(* The user types to a program that is waiting for a line. *)
MayType == \/ reader = "wait" /\ enter_flag = 0
           \/ "ahead" \in Freedoms

(* The user leaves a line only before its first character. *)
MayLeave(freedom) == MayType /\ (line = <<>> \/ freedom \in Freedoms)

(* The character the user means, and the one the handler looks up. *)
Shifted == held \cap Shift # {}
Meant  == IF Shifted # caps THEN "A" ELSE "a"
Looked == IF shift_flag # caps_lock_flag THEN "A" ELSE "a"

Put(c) == /\ keyb_buff' = [keyb_buff EXCEPT ![kbb_ind] = c]
          /\ kbb_ind' = kbb_ind + 1
          /\ UNCHANGED enter_flag

-----------------------------------------------------------------------------
(* The modifiers.  With ctrl_flag set the handler looks at no key but the  *)
(* release of Ctrl and L, S and C, and at Alt's release before that.  Both *)
(* Shift keys set and clear the one flag.                                  *)
MayModify(m) == m = "ctrl" \/ "ctrl" \notin held \/ "chord" \in Freedoms

Press(m) ==
  /\ m \notin held /\ MayModify(m)
  /\ m \in Shift => ~Shifted \/ "shifts" \in Freedoms
  /\ held' = held \cup {m}
  /\ shift_flag' = IF m \in Shift /\ ctrl_flag = 0 THEN 1 ELSE shift_flag
  /\ ctrl_flag'  = IF m = "ctrl" THEN 1 ELSE ctrl_flag
  /\ alt_flag'   = IF m = "alt" /\ ctrl_flag = 0 THEN 1 ELSE alt_flag
  /\ UNCHANGED <<caps, line, caps_lock_flag, buffer, screen, call>>

ReleaseShiftStuck(m) ==               \* mutant: Shift's release is not looked at
  /\ m \in held /\ MayModify(m)
  /\ held' = held \ {m}
  /\ ctrl_flag'  = IF m = "ctrl" THEN 0 ELSE ctrl_flag
  /\ alt_flag'   = IF m = "alt" THEN 0 ELSE alt_flag
  /\ UNCHANGED <<caps, line, shift_flag, caps_lock_flag, buffer, screen, call>>
Release(m) ==
  /\ m \in held /\ MayModify(m)
  /\ held' = held \ {m}
  /\ shift_flag' = IF m \in Shift /\ ctrl_flag = 0 THEN 0 ELSE shift_flag
  /\ ctrl_flag'  = IF m = "ctrl" THEN 0 ELSE ctrl_flag
  /\ alt_flag'   = IF m = "alt" THEN 0 ELSE alt_flag
  /\ UNCHANGED <<caps, line, caps_lock_flag, buffer, screen, call>>

CapsLock ==
  /\ MayModify("caps")
  /\ caps' = ~caps
  /\ caps_lock_flag' = IF ctrl_flag = 0 THEN 1 - caps_lock_flag ELSE caps_lock_flag
  /\ UNCHANGED <<held, line, shift_flag, ctrl_flag, alt_flag, buffer, screen, call>>

-----------------------------------------------------------------------------
(* A letter, while there is room; one that does not fit is not shown either. *)
KeyLetter ==
  /\ MayType /\ "ctrl" \notin held /\ ctrl_flag = 0
  /\ kbb_ind < Size
  /\ line' = Append(line, Meant)
  /\ Put(Looked)
  /\ UNCHANGED <<held, caps, flags, screen, call>>

(* A digit (or backslash): no bound in the code. *)
KeyDigit ==
  /\ MayType /\ "ctrl" \notin held /\ ctrl_flag = 0
  /\ kbb_ind < MaxLine
  /\ line' = Append(line, "1")
  /\ Put("1")
  /\ UNCHANGED <<held, caps, flags, screen, call>>

KeyBackspaceShown ==                  \* mutant: erased on the screen only
  /\ MayType /\ "ctrl" \notin held /\ ctrl_flag = 0
  /\ line' = IF kbb_ind >= 1 /\ line # <<>> THEN Front(line) ELSE line
  /\ UNCHANGED <<held, caps, flags, buffer, screen, call>>
KeyBackspace ==
  /\ MayType /\ "ctrl" \notin held /\ ctrl_flag = 0
  /\ kbb_ind >= 1
  /\ kbb_ind' = kbb_ind - 1
  /\ line' = IF line = <<>> THEN line ELSE Front(line)
  /\ UNCHANGED <<held, caps, flags, keyb_buff, enter_flag, screen, call>>

KeyEnterShown ==                      \* mutant: the newline is shown only
  /\ MayType /\ "ctrl" \notin held /\ ctrl_flag = 0
  /\ keyb_buff' = [keyb_buff EXCEPT ![kbb_ind] = NUL]
  /\ kbb_ind' = 0
  /\ enter_flag' = 1
  /\ line' = Append(line, "newline")
  /\ UNCHANGED <<held, caps, flags, screen, call>>
KeyEnter ==
  /\ MayType /\ "ctrl" \notin held /\ ctrl_flag = 0
  /\ keyb_buff' = [keyb_buff EXCEPT ![kbb_ind] = "newline", ![kbb_ind + 1] = NUL]
  /\ kbb_ind' = 0
  /\ enter_flag' = 1
  /\ line' = Append(line, "newline")
  /\ UNCHANGED <<held, caps, flags, screen, call>>

(* Ctrl-L: the text is wiped off the screen and out of the buffer; kbb_ind *)
(* stays where it was.                                                     *)
KeyClear ==
  /\ MayLeave("clear") /\ ctrl_flag = 1
  /\ keyb_buff' = [i \in Cell |-> IF i < Size THEN NUL ELSE keyb_buff[i]]
  /\ enter_flag' = 1
  /\ line' = <<>>
  /\ UNCHANGED <<held, caps, flags, kbb_ind, screen, call>>

(* Ctrl-C: sys_halt leaves the read, if there is one, and all of the buffer. *)
KeyAbort ==
  /\ MayLeave("abort") /\ ctrl_flag = 1
  /\ reader' = "idle" /\ nbytes' = 0 /\ read' = <<>>
  /\ line' = <<>>
  /\ UNCHANGED <<held, caps, flags, buffer, screen>>

(* Alt and a function key: 128 bytes out and in; kbb_ind restarts. *)
KeySwitch(t) ==
  /\ MayLeave("switch") /\ alt_flag = 1
  /\ t # curr_term_ID
  /\ sbuf' = [sbuf EXCEPT ![curr_term_ID] =
                [i \in Cell |-> IF i <= Size THEN keyb_buff[i] ELSE @[i]]]
  /\ keyb_buff' = [i \in Cell |-> IF i <= Size THEN sbuf[t][i] ELSE keyb_buff[i]]
  /\ kbb_ind' = 0
  /\ curr_term_ID' = t
  /\ line' = <<>>
  /\ UNCHANGED <<held, caps, flags, enter_flag, call>>

-----------------------------------------------------------------------------
(* terminal_read *)
ReadCall(n) ==
  /\ reader = "idle"
  /\ reader' = "wait" /\ nbytes' = n
  /\ UNCHANGED <<user, flags, buffer, screen, read>>

ReadEnteredBefore ==                  \* mutant: the wait is inverted
  /\ reader = "wait" /\ enter_flag = 0
  /\ reader' = "copy"
  /\ UNCHANGED <<user, flags, buffer, screen, nbytes, read>>
ReadEntered ==
  /\ reader = "wait" /\ enter_flag = 1
  /\ reader' = "copy"
  /\ UNCHANGED <<user, flags, buffer, screen, nbytes, read>>

(* One byte, up to the first NUL or nbytes. *)
ReadCopy ==
  /\ reader = "copy"
  /\ IF Len(read) < nbytes /\ keyb_buff[Len(read)] # NUL
       THEN read' = Append(read, keyb_buff[Len(read)]) /\ UNCHANGED reader
       ELSE reader' = "clear" /\ UNCHANGED read
  /\ UNCHANGED <<user, flags, buffer, screen, nbytes>>

ReadClear ==
  /\ reader = "clear"
  /\ keyb_buff' = [i \in Cell |-> IF i < Size THEN NUL ELSE keyb_buff[i]]
  /\ reader' = "flag"
  /\ UNCHANGED <<user, flags, kbb_ind, enter_flag, screen, nbytes, read>>

(* The read returns; what the user types from here on is another line. *)
ReadReturn ==
  /\ reader = "flag"
  /\ enter_flag' = 0
  /\ reader' = "idle" /\ nbytes' = 0 /\ read' = <<>>
  /\ line' = <<>>
  /\ UNCHANGED <<held, caps, flags, keyb_buff, kbb_ind, screen>>

-----------------------------------------------------------------------------
Next == \/ \E m \in Modifier : Press(m) \/ Release(m)
        \/ CapsLock
        \/ KeyLetter \/ KeyDigit \/ KeyBackspace \/ KeyEnter
        \/ KeyClear \/ KeyAbort
        \/ \E t \in Term : KeySwitch(t)
        \/ \E n \in Requests : ReadCall(n)
        \/ ReadEntered \/ ReadCopy \/ ReadClear \/ ReadReturn

(* A read that has its line runs on; nobody must type, nor call read again. *)
Fairness == WF_vars(ReadEntered \/ ReadCopy \/ ReadClear \/ ReadReturn)

Spec == Init /\ [][Next]_vars /\ Fairness

-----------------------------------------------------------------------------
TypeOK == /\ held \subseteq Modifier /\ caps \in BOOLEAN /\ line \in Seq(Char)
          /\ shift_flag \in {0, 1} /\ ctrl_flag \in {0, 1}
          /\ alt_flag \in {0, 1} /\ caps_lock_flag \in {0, 1}
          /\ keyb_buff \in [Cell -> Char \cup {NUL}]
          /\ kbb_ind \in 0..MaxLine /\ enter_flag \in {0, 1}
          /\ curr_term_ID \in Term /\ sbuf \in [Term -> [Cell -> Char \cup {NUL}]]
          /\ reader \in {"idle", "wait", "copy", "clear", "flag"}
          /\ nbytes \in Requests \cup {0} /\ read \in Seq(Char)

(* While a read waits, the buffer up to kbb_ind is the line on the screen, *)
(* each letter in the case the keys that were down gave it.                *)
BufferHoldsLine ==
  reader = "wait" /\ enter_flag = 0 =>
    kbb_ind = Len(line) /\ \A i \in 1..Len(line) : keyb_buff[i-1] = line[i]

(* A read delivers the line the user sees, newline included, or as much of *)
(* it as the program has room for.                                         *)
ReadsTheLine ==
  reader = "clear" => read = IF Len(line) <= nbytes THEN line ELSE SubSeq(line, 1, nbytes)

(* A read that waits when Enter is pressed returns.                        *)
AnswersEnter == reader = "wait" /\ enter_flag = 1 ~> reader = "idle"
=============================================================================
