-------------------------- MODULE KeyboardProofs --------------------------
(***************************************************************************)
(* Theorems about Keyboard, for every buffer size, every number of         *)
(* terminals and every length of line.                                     *)
(***************************************************************************)
EXTENDS Keyboard, SequenceTheorems, TLAPS

(* What the flags take: they are 0 or 1 whatever the user presses.         *)
FlagsType == /\ held \subseteq Modifier /\ caps \in BOOLEAN
             /\ shift_flag \in {0, 1} /\ ctrl_flag \in {0, 1}
             /\ alt_flag \in {0, 1} /\ caps_lock_flag \in {0, 1}

(* Only the modifier keys change the modifier flags.                       *)
LEMMA OnlyModifiersModify ==
  ASSUME Next
  PROVE  \/ \E m \in Modifier : Press(m) \/ Release(m)
         \/ CapsLock
         \/ UNCHANGED <<held, caps, flags>>
<1>1. CASE \E m \in Modifier : Press(m) \/ Release(m)
  BY <1>1
<1>2. CASE CapsLock
  BY <1>2
<1>3. CASE KeyLetter \/ KeyDigit \/ KeyBackspace \/ KeyEnter \/ KeyClear \/ KeyAbort
  BY <1>3 DEF KeyLetter, KeyDigit, KeyBackspace, KeyEnter, KeyClear, KeyAbort
<1>4. CASE \E t \in Term : KeySwitch(t)
  BY <1>4 DEF KeySwitch
<1>5. CASE (\E n \in Requests : ReadCall(n)) \/ ReadEntered \/ ReadCopy \/ ReadClear \/ ReadReturn
  BY <1>5 DEF ReadCall, ReadEntered, ReadCopy, ReadClear, ReadReturn, user
<1>6. QED
  BY <1>1, <1>2, <1>3, <1>4, <1>5 DEF Next

(* The handler's flags say which modifiers are down, and of the Shift keys  *)
(* at most one is.                                                         *)
FlagsFollowKeys == /\ ~("lshift" \in held /\ "rshift" \in held)
                   /\ shift_flag = Flag(Shifted)
                   /\ ctrl_flag = Flag("ctrl" \in held)
                   /\ alt_flag = Flag("alt" \in held)
                   /\ caps_lock_flag = Flag(caps)

FlagsInv == FlagsType /\ FlagsFollowKeys

LEMMA ShiftedIs == Shifted <=> "lshift" \in held \/ "rshift" \in held
  BY DEF Shifted, Shift

LEMMA FlagsStep ==
  ASSUME "chord" \notin Freedoms, "shifts" \notin Freedoms, FlagsInv, [Next]_vars
  PROVE  FlagsInv'
<1>1. ASSUME NEW m \in Modifier, Press(m)
      PROVE  FlagsInv'
  <2>1. m = "ctrl" \/ ctrl_flag = 0
    BY <1>1 DEF FlagsInv, Press, MayModify, FlagsFollowKeys, Flag
  <2>2. /\ m \in Modifier /\ held' = held \cup {m}
        /\ m \in Shift => ~Shifted
    BY <1>1 DEF Press
  <2>3. /\ held' \subseteq Modifier
        /\ ~("lshift" \in held' /\ "rshift" \in held')
        /\ Shifted' <=> m \in Shift \/ Shifted
        /\ ("ctrl" \in held') <=> m = "ctrl" \/ "ctrl" \in held
        /\ ("alt" \in held') <=> m = "alt" \/ "alt" \in held
    BY <2>2 DEF FlagsInv, FlagsType, FlagsFollowKeys, Modifier, Shift, Shifted
  <2>4. QED
    BY <1>1, <2>1, <2>3 DEF Press, FlagsInv, FlagsType, FlagsFollowKeys, Flag, Modifier, Shift
<1>2. ASSUME NEW m \in Modifier, Release(m)
      PROVE  FlagsInv'
  <2>1. m = "ctrl" \/ ctrl_flag = 0
    BY <1>2 DEF FlagsInv, Release, MayModify, FlagsFollowKeys, Flag
  <2>2. m \in Modifier /\ m \in held /\ held' = held \ {m}
    BY <1>2 DEF Release
  <2>3. /\ held' \subseteq Modifier
        /\ ~("lshift" \in held' /\ "rshift" \in held')
        /\ Shifted' <=> m \notin Shift /\ Shifted
        /\ ("ctrl" \in held') <=> m # "ctrl" /\ "ctrl" \in held
        /\ ("alt" \in held') <=> m # "alt" /\ "alt" \in held
    BY <2>2 DEF FlagsInv, FlagsType, FlagsFollowKeys, Modifier, Shift, Shifted
  <2>4. QED
    BY <1>2, <2>1, <2>3 DEF Release, FlagsInv, FlagsType, FlagsFollowKeys, Flag, Modifier, Shift
<1>3. CASE CapsLock
  <2>1. ctrl_flag = 0
    BY <1>3 DEF FlagsInv, CapsLock, MayModify, FlagsFollowKeys, Flag
  <2>2. caps_lock_flag' = 1 - caps_lock_flag
    BY <1>3, <2>1 DEF CapsLock
  <2>3. caps_lock_flag' \in {0, 1}
    BY <2>2 DEF FlagsInv, FlagsType
  <2>4. CASE caps = TRUE
    <3>1. caps_lock_flag = 1
      BY <2>4 DEF FlagsInv, FlagsFollowKeys, Flag
    <3>2. caps_lock_flag' = 0
      BY <2>2, <3>1
    <3>3. caps' = FALSE
      BY <1>3, <2>4 DEF CapsLock
    <3>4. QED
      BY <1>3, <2>3, <3>2, <3>3 DEF CapsLock, FlagsInv, FlagsType, FlagsFollowKeys, Flag, Shifted
  <2>5. CASE caps = FALSE
    <3>1. caps_lock_flag = 0
      BY <2>5 DEF FlagsInv, FlagsFollowKeys, Flag
    <3>2. caps_lock_flag' = 1
      BY <2>2, <3>1
    <3>3. caps' = TRUE
      BY <1>3, <2>5 DEF CapsLock
    <3>4. QED
      BY <1>3, <2>3, <3>2, <3>3 DEF CapsLock, FlagsInv, FlagsType, FlagsFollowKeys, Flag, Shifted
  <2>6. QED
    BY <2>4, <2>5 DEF FlagsInv, FlagsType
<1>4. CASE UNCHANGED <<held, caps, flags>>
  BY <1>4 DEF flags, FlagsInv, FlagsType, FlagsFollowKeys, Shifted
<1>5. CASE UNCHANGED vars
  BY <1>5, <1>4 DEF vars, user
<1>6. QED
  BY <1>1, <1>2, <1>3, <1>4, <1>5, OnlyModifiersModify

(* While the user touches no other modifier with Ctrl down and holds one    *)
(* Shift key at a time, the flags are the keys that are down.               *)
LEMMA FlagsFollow ==
  ASSUME "chord" \notin Freedoms, "shifts" \notin Freedoms
  PROVE  Spec => []FlagsFollowKeys
<1>1. Init => FlagsInv
  BY DEF Init, FlagsInv, FlagsType, FlagsFollowKeys, Flag, Shifted
<1>2. FlagsInv /\ [Next]_vars => FlagsInv'
  BY FlagsStep
<1>3. FlagsInv => FlagsFollowKeys
  BY DEF FlagsInv
<1>4. QED
  BY <1>1, <1>2, <1>3, PTL DEF Spec

-----------------------------------------------------------------------------
(* What the rest of the theorems is about: the line on its way from the     *)
(* handler to the program that reads it.                                    *)
Typing  == reader = "wait" /\ enter_flag = 0
Entered == reader \in {"wait", "copy"} /\ enter_flag = 1

InBuffer == \A i \in 1..Len(line) : keyb_buff[i-1] = line[i]

(* Between Enter and the copy the line lies in the buffer, closed by NUL.   *)
Closed == Entered => /\ Len(line) \in Cell /\ InBuffer
                     /\ keyb_buff[Len(line)] = NUL

(* Enter and a switch put the index back; nobody moves it after that.       *)
IndexRests == ~Typing => kbb_ind = 0

(* A program that is not reading leaves no line behind; one that has its    *)
(* line keeps the flag up until it returns.                                 *)
Phases == /\ reader = "idle" => enter_flag = 0 /\ line = <<>>
          /\ reader \in {"idle", "wait"} => read = <<>>
          /\ reader \in {"copy", "clear", "flag"} => enter_flag = 1

Copied == reader = "copy" => /\ Len(read) <= nbytes /\ Len(read) <= Len(line)
                             /\ \A i \in 1..Len(read) : read[i] = line[i]

LineInv == /\ TypeOK /\ FlagsFollowKeys /\ BufferHoldsLine
           /\ Closed /\ IndexRests /\ Phases /\ Copied /\ ReadsTheLine

-----------------------------------------------------------------------------
LEMMA LineTypes ==
  ASSUME TypeOK
  PROVE  /\ Len(line) \in Nat /\ Len(read) \in Nat /\ nbytes \in Nat
         /\ \A i \in 1..Len(line) : line[i] \in Char /\ line[i] # NUL
         /\ Size \in Nat \ {0} /\ MaxLine \in Nat /\ Size <= MaxLine
<1>1. line \in Seq(Char) /\ read \in Seq(Char)
  BY DEF TypeOK
<1>2. Len(line) \in Nat /\ Len(read) \in Nat
  BY <1>1, LenProperties
<1>3. \A i \in 1..Len(line) : line[i] \in Char
  BY <1>1, ElementOfSeq
<1>4. NUL \notin Char
  BY DEF NUL, Char
<1>5. QED
  BY <1>2, <1>3, <1>4, KeyboardAssumption DEF TypeOK

(* A character is added to the line and to the buffer alike.                *)
LEMMA AppendLine ==
  ASSUME NEW s \in Seq(Char), NEW c \in Char
  PROVE  /\ Append(s, c) \in Seq(Char) /\ Len(Append(s, c)) = Len(s) + 1
         /\ \A i \in 1..Len(s) : Append(s, c)[i] = s[i]
         /\ Append(s, c)[Len(s) + 1] = c
BY AppendProperties

LEMMA FrontLine ==
  ASSUME NEW s \in Seq(Char), Len(s) > 0
  PROVE  /\ Front(s) \in Seq(Char) /\ Len(Front(s)) = Len(s) - 1
         /\ \A i \in 1..Len(s) - 1 : Front(s)[i] = s[i]
<1>1. Len(s) \in Nat /\ \A i \in 1..Len(s) : s[i] \in Char
  BY LenProperties, ElementOfSeq
<1>2. Front(s) = SubSeq(s, 1, Len(s) - 1)
  BY DEF Front
<1>3. \A i \in 1..Len(s) - 1 : s[i] \in Char
  BY <1>1
<1>4. /\ SubSeq(s, 1, Len(s) - 1) \in Seq(Char)
      /\ Len(SubSeq(s, 1, Len(s) - 1)) = IF 1 <= Len(s) - 1 THEN Len(s) - 1 - 1 + 1 ELSE 0
      /\ \A i \in 1..Len(s) - 1 - 1 + 1 : SubSeq(s, 1, Len(s) - 1)[i] = s[1 + i - 1]
  BY <1>1, <1>3, SubSeqProperties
<1>5. Len(Front(s)) = Len(s) - 1
  <2>1. Len(Front(s)) = IF 1 <= Len(s) - 1 THEN Len(s) - 1 - 1 + 1 ELSE 0
    BY <1>2, <1>4
  <2>2. PICK n \in Nat : n = Len(s) /\ n > 0
    BY <1>1
  <2>3. (IF 1 <= n - 1 THEN n - 1 - 1 + 1 ELSE 0) = n - 1
    BY <2>2
  <2>4. QED
    BY <2>1, <2>2, <2>3
<1>6. ASSUME NEW i \in 1..Len(s) - 1
      PROVE  Front(s)[i] = s[i]
  <2>1. i \in 1..Len(s) - 1 - 1 + 1 /\ 1 + i - 1 = i
    BY <1>1
  <2>2. QED
    BY <1>2, <1>4, <2>1
<1>7. QED
  BY <1>2, <1>4, <1>5, <1>6

(* The character the handler looks up is the one the user means.            *)
LEMMA LooksUpWhatIsMeant ==
  ASSUME FlagsFollowKeys, TypeOK
  PROVE  Looked = Meant
<1>1. CASE Shifted /\ caps = TRUE
  <2>1. shift_flag = 1 /\ caps_lock_flag = 1
    BY <1>1 DEF FlagsFollowKeys, Flag
  <2>2. Looked = "a"
    BY <2>1 DEF Looked
  <2>3. Shifted = TRUE
    BY <1>1 DEF Shifted
  <2>4. (Shifted # caps) = FALSE
    BY <1>1, <2>3, Zenon
  <2>5. Meant = "a"
    BY <2>4, Zenon DEF Meant
  <2>6. QED
    BY <2>2, <2>5
<1>2. CASE Shifted /\ caps = FALSE
  <2>1. shift_flag = 1 /\ caps_lock_flag = 0
    BY <1>2 DEF FlagsFollowKeys, Flag
  <2>2. Looked = "A"
    BY <2>1 DEF Looked
  <2>3. Shifted = TRUE
    BY <1>2 DEF Shifted
  <2>4. (Shifted # caps) = TRUE
    BY <1>2, <2>3, Zenon
  <2>5. Meant = "A"
    BY <2>4, Zenon DEF Meant
  <2>6. QED
    BY <2>2, <2>5
<1>3. CASE ~Shifted /\ caps = TRUE
  <2>1. shift_flag = 0 /\ caps_lock_flag = 1
    BY <1>3 DEF FlagsFollowKeys, Flag
  <2>2. Looked = "A"
    BY <2>1 DEF Looked
  <2>3. Shifted = FALSE
    BY <1>3 DEF Shifted
  <2>4. (Shifted # caps) = TRUE
    BY <1>3, <2>3, Zenon
  <2>5. Meant = "A"
    BY <2>4, Zenon DEF Meant
  <2>6. QED
    BY <2>2, <2>5
<1>4. CASE ~Shifted /\ caps = FALSE
  <2>1. shift_flag = 0 /\ caps_lock_flag = 0
    BY <1>4 DEF FlagsFollowKeys, Flag
  <2>2. Looked = "a"
    BY <2>1 DEF Looked
  <2>3. Shifted = FALSE
    BY <1>4 DEF Shifted
  <2>4. (Shifted # caps) = FALSE
    BY <1>4, <2>3, Zenon
  <2>5. Meant = "a"
    BY <2>4, Zenon DEF Meant
  <2>6. QED
    BY <2>2, <2>5
<1>5. QED
  BY <1>1, <1>2, <1>3, <1>4 DEF TypeOK

-----------------------------------------------------------------------------
(* The keys that put a character down.                                      *)
LEMMA TypedCharacter ==
  ASSUME LineInv, Typing, NEW c \in Char, kbb_ind < MaxLine, Put(c),
         line' = Append(line, c), UNCHANGED <<held, caps, flags, screen, call>>
  PROVE  LineInv'
<1>1. /\ kbb_ind \in 0..MaxLine /\ kbb_ind = Len(line) /\ InBuffer
      /\ keyb_buff \in [Cell -> Char \cup {NUL}] /\ MaxLine \in Nat
      /\ line \in Seq(Char)
  BY LineTypes DEF LineInv, BufferHoldsLine, Typing, InBuffer, TypeOK
<1>2. /\ line' \in Seq(Char) /\ Len(line') = Len(line) + 1
      /\ \A i \in 1..Len(line) : line'[i] = line[i]
      /\ line'[Len(line) + 1] = c
  BY <1>1, AppendLine
<1>3. kbb_ind \in Cell
  BY <1>1 DEF Cell
<1>4. /\ keyb_buff' \in [Cell -> Char \cup {NUL}]
      /\ keyb_buff'[kbb_ind] = c
      /\ \A i \in Cell : i # kbb_ind => keyb_buff'[i] = keyb_buff[i]
  BY <1>1, <1>3 DEF Put
<1>5. \A i \in 1..Len(line') : keyb_buff'[i-1] = line'[i]
  <2> TAKE i \in 1..Len(line')
  <2>1. CASE i = Len(line) + 1
    BY <1>1, <1>2, <1>4, <2>1
  <2>2. CASE i # Len(line) + 1
    <3>1. i \in 1..Len(line) /\ i-1 \in Cell /\ i-1 # kbb_ind
      BY <1>1, <1>2, <2>2 DEF Cell
    <3>2. QED
      BY <1>1, <1>2, <1>4, <3>1 DEF InBuffer
  <2>3. QED
    BY <2>1, <2>2
<1>6. kbb_ind' = Len(line') /\ kbb_ind' \in 0..MaxLine /\ enter_flag' = 0
  BY <1>1, <1>2 DEF Put, Typing
<1>7. TypeOK'
  BY <1>2, <1>4, <1>6 DEF LineInv, TypeOK, flags, screen, call
<1>8. FlagsFollowKeys'
  BY DEF LineInv, FlagsFollowKeys, Shifted, flags
<1>9. QED
  BY <1>5, <1>6, <1>7, <1>8
     DEF LineInv, BufferHoldsLine, Closed, Entered, IndexRests, Phases, Copied, ReadsTheLine,
         Typing, screen, call

LEMMA ErasedCharacter ==
  ASSUME LineInv, Typing, KeyBackspace
  PROVE  LineInv'
<1>1. /\ kbb_ind \in 0..MaxLine /\ kbb_ind = Len(line) /\ InBuffer /\ kbb_ind >= 1
      /\ MaxLine \in Nat /\ line \in Seq(Char)
  BY LineTypes DEF LineInv, BufferHoldsLine, Typing, InBuffer, TypeOK, KeyBackspace
<1>2. line # <<>> /\ Len(line) > 0
  BY <1>1, EmptySeq
<1>3. line' = Front(line) /\ kbb_ind' = kbb_ind - 1
  BY <1>2 DEF KeyBackspace
<1>4. /\ line' \in Seq(Char) /\ Len(line') = Len(line) - 1
      /\ \A i \in 1..Len(line) - 1 : line'[i] = line[i]
  BY <1>1, <1>2, <1>3, FrontLine
<1>5. UNCHANGED <<held, caps, flags, keyb_buff, enter_flag, screen, call>>
  BY DEF KeyBackspace
<1>6. \A i \in 1..Len(line') : keyb_buff'[i-1] = line'[i]
  <2> TAKE i \in 1..Len(line')
  <2>1. i \in 1..Len(line) - 1 /\ i \in 1..Len(line)
    BY <1>1, <1>4
  <2>2. QED
    BY <1>1, <1>4, <1>5, <2>1 DEF InBuffer
<1>7. kbb_ind' = Len(line') /\ kbb_ind' \in 0..MaxLine /\ enter_flag' = 0
  BY <1>1, <1>3, <1>4, <1>5 DEF Typing
<1>8. TypeOK'
  BY <1>4, <1>5, <1>7 DEF LineInv, TypeOK, flags, screen, call
<1>9. FlagsFollowKeys'
  BY <1>5 DEF LineInv, FlagsFollowKeys, Shifted, flags
<1>10. QED
  BY <1>5, <1>6, <1>7, <1>8, <1>9
     DEF LineInv, BufferHoldsLine, Closed, Entered, IndexRests, Phases, Copied, ReadsTheLine,
         Typing, screen, call

LEMMA EnteredLine ==
  ASSUME LineInv, Typing, KeyEnter
  PROVE  LineInv'
<1>1. /\ kbb_ind \in 0..MaxLine /\ kbb_ind = Len(line) /\ InBuffer
      /\ keyb_buff \in [Cell -> Char \cup {NUL}] /\ MaxLine \in Nat
      /\ line \in Seq(Char)
  BY LineTypes DEF LineInv, BufferHoldsLine, Typing, InBuffer, TypeOK
<1>2. "newline" \in Char
  BY DEF Char
<1>3. line' = Append(line, "newline")
  BY DEF KeyEnter
<1>4. /\ line' \in Seq(Char) /\ Len(line') = Len(line) + 1
      /\ \A i \in 1..Len(line) : line'[i] = line[i]
      /\ line'[Len(line) + 1] = "newline"
  BY <1>1, <1>2, <1>3, AppendLine
<1>5. kbb_ind \in Cell /\ kbb_ind + 1 \in Cell /\ kbb_ind # kbb_ind + 1
  BY <1>1 DEF Cell
<1>6. keyb_buff' = [keyb_buff EXCEPT ![kbb_ind] = "newline", ![kbb_ind + 1] = NUL]
  BY DEF KeyEnter
<1>7. /\ keyb_buff' \in [Cell -> Char \cup {NUL}]
      /\ keyb_buff'[kbb_ind] = "newline" /\ keyb_buff'[kbb_ind + 1] = NUL
      /\ \A i \in Cell : i \notin {kbb_ind, kbb_ind + 1} => keyb_buff'[i] = keyb_buff[i]
  BY <1>1, <1>2, <1>5, <1>6
<1>8. \A i \in 1..Len(line') : keyb_buff'[i-1] = line'[i]
  <2> TAKE i \in 1..Len(line')
  <2>1. CASE i = Len(line) + 1
    BY <1>1, <1>4, <1>7, <2>1
  <2>2. CASE i # Len(line) + 1
    <3>1. i \in 1..Len(line) /\ i-1 \in Cell /\ i-1 \notin {kbb_ind, kbb_ind + 1}
      BY <1>1, <1>4, <2>2 DEF Cell
    <3>2. QED
      BY <1>1, <1>4, <1>7, <3>1 DEF InBuffer
  <2>3. QED
    BY <2>1, <2>2
<1>9. Len(line') \in Cell /\ keyb_buff'[Len(line')] = NUL
  BY <1>1, <1>4, <1>5, <1>7
<1>10. /\ kbb_ind' = 0 /\ enter_flag' = 1
       /\ UNCHANGED <<held, caps, flags, screen, call>>
  BY DEF KeyEnter
<1>11. TypeOK'
  BY <1>1, <1>4, <1>7, <1>10 DEF LineInv, TypeOK, flags, screen, call
<1>12. FlagsFollowKeys'
  BY <1>10 DEF LineInv, FlagsFollowKeys, Shifted, flags
<1>13. QED
  BY <1>8, <1>9, <1>10, <1>11, <1>12
     DEF LineInv, BufferHoldsLine, Closed, Entered, InBuffer, IndexRests, Phases, Copied,
         ReadsTheLine, Typing, screen, call

(* The keys that leave an empty line. *)
LEMMA LeftLine ==
  ASSUME LineInv, Freedoms = {}, KeyClear \/ KeyAbort \/ (\E t \in Term : KeySwitch(t))
  PROVE  LineInv'
<1>1. Typing /\ line = <<>>
  BY DEF KeyClear, KeyAbort, KeySwitch, MayLeave, MayType, Typing
<1>2. kbb_ind = 0 /\ Len(line) = 0 /\ read = <<>> /\ Size \in Nat \ {0} /\ MaxLine \in Nat
  BY <1>1, LineTypes DEF LineInv, BufferHoldsLine, Phases, Typing
<1>3. /\ keyb_buff \in [Cell -> Char \cup {NUL}]
      /\ sbuf \in [Term -> [Cell -> Char \cup {NUL}]] /\ curr_term_ID \in Term
  BY DEF LineInv, TypeOK
<1>4. 0 \in Cell
  BY <1>2 DEF Cell
<1>5. CASE KeyClear
  <2>1. /\ keyb_buff' = [i \in Cell |-> IF i < Size THEN NUL ELSE keyb_buff[i]]
        /\ enter_flag' = 1 /\ line' = <<>>
        /\ UNCHANGED <<held, caps, flags, kbb_ind, screen, call>>
    BY <1>5 DEF KeyClear
  <2>2. keyb_buff' \in [Cell -> Char \cup {NUL}]
    BY <1>3, <2>1
  <2>3. keyb_buff'[0] = NUL
    BY <1>2, <1>4, <2>1
  <2>4. TypeOK'
    BY <1>1, <2>1, <2>2 DEF LineInv, TypeOK, flags, screen, call
  <2>5. FlagsFollowKeys'
    BY <2>1 DEF LineInv, FlagsFollowKeys, Shifted, flags
  <2>6. line' = line /\ Len(line') = 0
    BY <1>1, <1>2, <2>1
  <2>7. QED
    BY <1>1, <1>2, <1>4, <2>1, <2>3, <2>4, <2>5, <2>6
       DEF LineInv, BufferHoldsLine, Closed, Entered, InBuffer, IndexRests, Phases, Copied,
           ReadsTheLine, Typing, call
<1>6. CASE KeyAbort
  <2>1. /\ reader' = "idle" /\ nbytes' = 0 /\ read' = <<>> /\ line' = <<>>
        /\ UNCHANGED <<held, caps, flags, buffer, screen>>
    BY <1>6 DEF KeyAbort
  <2>2. read' = read /\ line' = line
    BY <1>1, <1>2, <2>1
  <2>3. TypeOK'
    BY <2>1, <2>2 DEF LineInv, TypeOK, flags, buffer, screen
  <2>4. FlagsFollowKeys'
    BY <2>1 DEF LineInv, FlagsFollowKeys, Shifted, flags
  <2>5. QED
    BY <1>1, <1>2, <2>1, <2>3, <2>4
       DEF LineInv, BufferHoldsLine, Closed, Entered, IndexRests, Phases, Copied, ReadsTheLine,
           Typing, buffer
<1>7. ASSUME NEW t \in Term, KeySwitch(t)
      PROVE  LineInv'
  <2>1. /\ sbuf' = [sbuf EXCEPT ![curr_term_ID] =
                      [i \in Cell |-> IF i <= Size THEN keyb_buff[i]
                                      ELSE sbuf[curr_term_ID][i]]]
        /\ keyb_buff' = [i \in Cell |-> IF i <= Size THEN sbuf[t][i] ELSE keyb_buff[i]]
        /\ kbb_ind' = 0 /\ curr_term_ID' = t /\ line' = <<>>
        /\ UNCHANGED <<held, caps, flags, enter_flag, call>>
    BY <1>7 DEF KeySwitch
  <2>2. keyb_buff' \in [Cell -> Char \cup {NUL}]
    BY <1>3, <2>1
  <2>3. sbuf' \in [Term -> [Cell -> Char \cup {NUL}]]
    <3>1. [i \in Cell |-> IF i <= Size THEN keyb_buff[i] ELSE sbuf[curr_term_ID][i]]
            \in [Cell -> Char \cup {NUL}]
      BY <1>3
    <3>2. QED
      BY <1>3, <2>1, <3>1
  <2>4. line' = line
    BY <1>1, <2>1
  <2>5. TypeOK'
    BY <1>2, <2>1, <2>2, <2>3, <2>4 DEF LineInv, TypeOK, flags, call
  <2>6. FlagsFollowKeys'
    BY <2>1 DEF LineInv, FlagsFollowKeys, Shifted, flags
  <2>7. QED
    BY <1>1, <1>2, <2>1, <2>4, <2>5, <2>6
       DEF LineInv, BufferHoldsLine, Closed, Entered, IndexRests, Phases, Copied, ReadsTheLine,
           Typing, call
<1>8. QED
  BY <1>5, <1>6, <1>7

-----------------------------------------------------------------------------
(* The steps of terminal_read. *)
LEMMA CopiedByte ==
  ASSUME LineInv, ReadCopy
  PROVE  LineInv'
<1>1. /\ reader = "copy" /\ enter_flag = 1 /\ kbb_ind = 0
      /\ Len(line) \in Cell /\ InBuffer /\ keyb_buff[Len(line)] = NUL
      /\ Len(read) <= nbytes /\ Len(read) <= Len(line)
      /\ \A i \in 1..Len(read) : read[i] = line[i]
  BY DEF LineInv, ReadCopy, Closed, Entered, IndexRests, Phases, Copied, Typing
<1>2. /\ Len(line) \in Nat /\ Len(read) \in Nat /\ nbytes \in Nat
      /\ \A i \in 1..Len(line) : line[i] \in Char /\ line[i] # NUL
      /\ line \in Seq(Char) /\ read \in Seq(Char)
  BY LineTypes DEF LineInv, TypeOK
<1>3. UNCHANGED <<user, flags, buffer, screen, nbytes>>
  BY DEF ReadCopy
<1>4. FlagsFollowKeys'
  BY <1>3 DEF LineInv, FlagsFollowKeys, Shifted, flags, user
<1>5. CASE Len(read) < nbytes /\ keyb_buff[Len(read)] # NUL
  <2>1. read' = Append(read, keyb_buff[Len(read)]) /\ reader' = reader
    BY <1>5 DEF ReadCopy
  <2>2. Len(read) < Len(line) /\ Len(read) + 1 \in 1..Len(line)
    BY <1>1, <1>2, <1>5
  <2>3. keyb_buff[Len(read)] = line[Len(read) + 1]
    BY <1>1, <1>2, <2>2 DEF InBuffer
  <2>4. keyb_buff[Len(read)] \in Char
    BY <1>2, <2>2, <2>3
  <2>5. /\ read' \in Seq(Char) /\ Len(read') = Len(read) + 1
        /\ \A i \in 1..Len(read) : read'[i] = read[i]
        /\ read'[Len(read) + 1] = line[Len(read) + 1]
    BY <1>2, <2>1, <2>3, <2>4, AppendLine
  <2>6. \A i \in 1..Len(read') : read'[i] = line'[i]
    BY <1>1, <1>2, <1>3, <2>5 DEF user
  <2>7. Len(read') <= nbytes' /\ Len(read') <= Len(line')
    BY <1>2, <1>3, <1>5, <2>2, <2>5 DEF user
  <2>8. TypeOK'
    BY <1>3, <2>1, <2>5 DEF LineInv, TypeOK, user, flags, buffer, screen
  <2>9. QED
    BY <1>1, <1>3, <1>4, <2>1, <2>6, <2>7, <2>8
       DEF LineInv, BufferHoldsLine, Closed, Entered, InBuffer, IndexRests, Phases, Copied,
           ReadsTheLine, Typing, user, buffer
<1>6. CASE ~(Len(read) < nbytes /\ keyb_buff[Len(read)] # NUL)
  <2>1. reader' = "clear" /\ read' = read
    BY <1>6 DEF ReadCopy
  <2>2. read = IF Len(line) <= nbytes THEN line ELSE SubSeq(line, 1, nbytes)
    <3>1. Len(read) = nbytes \/ Len(read) = Len(line)
      <4>1. SUFFICES ASSUME Len(read) < nbytes, Len(read) < Len(line)
                     PROVE  FALSE
        BY <1>1, <1>2
      <4>2. Len(read) + 1 \in 1..Len(line) /\ keyb_buff[Len(read)] = NUL
        BY <1>2, <1>6, <4>1
      <4>3. keyb_buff[Len(read) + 1 - 1] = line[Len(read) + 1]
        BY <1>1, <4>2 DEF InBuffer
      <4>4. QED
        BY <1>2, <4>2, <4>3
    <3>2. CASE Len(read) = Len(line)
      <4>1. read = line
        BY <1>1, <1>2, <3>2, SeqEqual
      <4>2. Len(line) <= nbytes
        BY <1>1, <3>2
      <4>3. QED
        BY <4>1, <4>2
    <3>3. CASE Len(read) = nbytes /\ Len(read) # Len(line)
      <4>1. nbytes < Len(line) /\ \A i \in 1..nbytes : line[i] \in Char
        BY <1>1, <1>2, <3>3
      <4>2. /\ SubSeq(line, 1, nbytes) \in Seq(Char)
            /\ Len(SubSeq(line, 1, nbytes)) = IF 1 <= nbytes THEN nbytes - 1 + 1 ELSE 0
            /\ \A i \in 1..nbytes - 1 + 1 : SubSeq(line, 1, nbytes)[i] = line[1 + i - 1]
        BY <1>2, <4>1, SubSeqProperties
      <4>3. Len(SubSeq(line, 1, nbytes)) = Len(read)
        BY <1>2, <3>3, <4>2
      <4>4. ASSUME NEW i \in 1..Len(read)
            PROVE  read[i] = SubSeq(line, 1, nbytes)[i]
        <5>1. i \in 1..nbytes - 1 + 1 /\ 1 + i - 1 = i
          BY <1>2, <3>3
        <5>2. QED
          BY <1>1, <4>2, <5>1
      <4>5. read = SubSeq(line, 1, nbytes)
        BY <1>2, <4>2, <4>3, <4>4, SeqEqual
      <4>6. QED
        BY <1>2, <4>1, <4>5
    <3>4. QED
      BY <3>1, <3>2, <3>3
  <2>3. TypeOK'
    BY <1>3, <2>1 DEF LineInv, TypeOK, user, flags, buffer, screen
  <2>4. ReadsTheLine'
    BY <1>3, <2>1, <2>2 DEF ReadsTheLine, user
  <2>5. QED
    BY <1>1, <1>3, <1>4, <2>1, <2>3, <2>4
       DEF LineInv, BufferHoldsLine, Closed, Entered, IndexRests, Phases, Copied, Typing, buffer
<1>7. QED
  BY <1>5, <1>6

LEMMA ReadSteps ==
  ASSUME LineInv,
         (\E n \in Requests : ReadCall(n)) \/ ReadEntered \/ ReadClear \/ ReadReturn
  PROVE  LineInv'
<1>1. FlagsFollowKeys'
  BY DEF LineInv, FlagsFollowKeys, Shifted, ReadCall, ReadEntered, ReadClear, ReadReturn, flags, user
<1>2. Len(<<>>) = 0 /\ <<>> \in Seq(Char) /\ nbytes \in Nat
  BY EmptySeq, LineTypes DEF LineInv
<1>3. ASSUME NEW n \in Requests, ReadCall(n)
      PROVE  LineInv'
  <2>1. /\ reader = "idle" /\ reader' = "wait" /\ nbytes' = n
        /\ UNCHANGED <<user, flags, buffer, screen, read>>
    BY <1>3 DEF ReadCall
  <2>2. /\ line = <<>> /\ Len(line) = 0 /\ kbb_ind = 0 /\ enter_flag = 0 /\ read = <<>>
    BY <1>2, <2>1 DEF LineInv, Phases, IndexRests, Typing
  <2>3. TypeOK'
    BY <2>1 DEF LineInv, TypeOK, user, flags, buffer, screen
  <2>4. QED
    BY <1>1, <2>1, <2>2, <2>3
       DEF LineInv, BufferHoldsLine, Closed, Entered, IndexRests, Phases, Copied, ReadsTheLine,
           Typing, user, buffer
<1>4. CASE ReadEntered
  <2>1. /\ reader = "wait" /\ enter_flag = 1 /\ reader' = "copy"
        /\ UNCHANGED <<user, flags, buffer, screen, nbytes, read>>
    BY <1>4 DEF ReadEntered
  <2>2. /\ kbb_ind = 0 /\ read = <<>> /\ Len(line) \in Nat /\ Closed
    BY <2>1, LineTypes DEF LineInv, IndexRests, Phases, Typing
  <2>3. TypeOK'
    BY <2>1 DEF LineInv, TypeOK, user, flags, buffer, screen
  <2>4. Closed'
    BY <2>1, <2>2 DEF Closed, Entered, InBuffer, user, buffer
  <2>5. Copied'
    BY <1>2, <2>1, <2>2 DEF Copied, user
  <2>6. QED
    BY <1>1, <2>1, <2>2, <2>3, <2>4, <2>5
       DEF LineInv, BufferHoldsLine, IndexRests, Phases, ReadsTheLine, Typing, user, buffer
<1>5. CASE ReadClear
  <2>1. /\ reader = "clear" /\ reader' = "flag"
        /\ keyb_buff' = [i \in Cell |-> IF i < Size THEN NUL ELSE keyb_buff[i]]
        /\ UNCHANGED <<user, flags, kbb_ind, enter_flag, screen, nbytes, read>>
    BY <1>5 DEF ReadClear
  <2>2. keyb_buff' \in [Cell -> Char \cup {NUL}]
    BY <2>1 DEF LineInv, TypeOK
  <2>3. TypeOK'
    BY <2>1, <2>2 DEF LineInv, TypeOK, user, flags, screen
  <2>4. QED
    BY <1>1, <2>1, <2>3
       DEF LineInv, BufferHoldsLine, Closed, Entered, IndexRests, Phases, Copied, ReadsTheLine,
           Typing, user
<1>6. CASE ReadReturn
  <2>1. /\ reader = "flag" /\ reader' = "idle" /\ enter_flag' = 0 /\ nbytes' = 0
        /\ read' = <<>> /\ line' = <<>>
        /\ UNCHANGED <<held, caps, flags, keyb_buff, kbb_ind, screen>>
    BY <1>6 DEF ReadReturn
  <2>2. kbb_ind = 0
    BY <2>1 DEF LineInv, IndexRests, Typing
  <2>3. TypeOK'
    BY <1>2, <2>1 DEF LineInv, TypeOK, flags, screen
  <2>4. QED
    BY <1>1, <2>1, <2>2, <2>3
       DEF LineInv, BufferHoldsLine, Closed, Entered, IndexRests, Phases, Copied, ReadsTheLine,
           Typing
<1>7. QED
  BY <1>3, <1>4, <1>5, <1>6

-----------------------------------------------------------------------------
LEMMA InitLine == Init => LineInv
<1> SUFFICES ASSUME Init
             PROVE  LineInv
  OBVIOUS
<1>1. Len(<<>>) = 0 /\ <<>> \in Seq(Char) /\ MaxLine \in Nat /\ 0 \in Term
  BY EmptySeq, KeyboardAssumption
<1>2. Empty \in [Cell -> Char \cup {NUL}]
  BY DEF Empty
<1>3. TypeOK
  BY <1>1, <1>2 DEF Init, TypeOK
<1>4. FlagsFollowKeys
  BY DEF Init, FlagsFollowKeys, Flag, Shifted
<1>5. QED
  BY <1>3, <1>4
     DEF Init, LineInv, BufferHoldsLine, Closed, Entered, IndexRests, Phases, Copied,
         ReadsTheLine, Typing

(* The modifiers touch nothing of it. *)
LEMMA ModifiersKeep ==
  ASSUME LineInv, UNCHANGED <<line, buffer, screen, call>>, TypeOK', FlagsFollowKeys'
  PROVE  LineInv'
BY DEF LineInv, BufferHoldsLine, Closed, Entered, InBuffer, IndexRests, Phases, Copied,
       ReadsTheLine, Typing, buffer, call

LEMMA StepLine ==
  ASSUME Freedoms = {}, LineInv, [Next]_vars
  PROVE  LineInv'
<1>1. MayType => Typing
  BY DEF MayType, Typing
<1>2. FlagsFollowKeys' /\ FlagsType'
  <2>1. "chord" \notin Freedoms /\ "shifts" \notin Freedoms
    OBVIOUS
  <2>2. FlagsType /\ FlagsFollowKeys
    BY DEF LineInv, TypeOK, FlagsType
  <2>3. QED
    BY <2>1, <2>2, FlagsStep DEF FlagsInv
<1>3. CASE (\E m \in Modifier : Press(m) \/ Release(m)) \/ CapsLock
  <2>1. UNCHANGED <<line, buffer, screen, call>>
    BY <1>3 DEF Press, Release, CapsLock
  <2>2. TypeOK'
    BY <1>2, <2>1 DEF LineInv, TypeOK, FlagsType, buffer, screen, call
  <2>3. QED
    BY <1>2, <2>1, <2>2, ModifiersKeep
<1>4. CASE KeyLetter
  <2>1. Looked \in Char /\ Looked = Meant /\ kbb_ind \in 0..MaxLine
    BY LooksUpWhatIsMeant DEF LineInv, TypeOK, Looked, Char
  <2>2. kbb_ind < MaxLine
    BY <1>4, <2>1, KeyboardAssumption DEF KeyLetter
  <2>3. QED
    BY <1>1, <1>4, <2>1, <2>2, TypedCharacter DEF KeyLetter
<1>5. CASE KeyDigit
  <2>1. "1" \in Char
    BY DEF Char
  <2>2. QED
    BY <1>1, <1>5, <2>1, TypedCharacter DEF KeyDigit
<1>6. CASE KeyBackspace
  BY <1>1, <1>6, ErasedCharacter DEF KeyBackspace
<1>7. CASE KeyEnter
  BY <1>1, <1>7, EnteredLine DEF KeyEnter
<1>8. CASE KeyClear \/ KeyAbort \/ \E t \in Term : KeySwitch(t)
  BY <1>8, LeftLine
<1>9. CASE ReadCopy
  BY <1>9, CopiedByte
<1>10. CASE (\E n \in Requests : ReadCall(n)) \/ ReadEntered \/ ReadClear \/ ReadReturn
  BY <1>10, ReadSteps
<1>11. CASE UNCHANGED vars
  <2>1. UNCHANGED <<line, buffer, screen, call>> /\ UNCHANGED <<held, caps, flags>>
    BY <1>11 DEF vars, user
  <2>2. TypeOK'
    BY <2>1 DEF LineInv, TypeOK, flags, buffer, screen, call
  <2>3. QED
    BY <1>2, <2>1, <2>2, ModifiersKeep
<1>12. QED
  BY <1>3, <1>4, <1>5, <1>6, <1>7, <1>8, <1>9, <1>10, <1>11 DEF Next

(* keyboard.c and switch_terminal: while a read waits, the buffer up to     *)
(* kbb_ind is what the user has typed since the last line, beyond the end   *)
(* of the buffer too.                                                       *)
THEOREM BufferKept ==
  ASSUME Freedoms = {}
  PROVE  Spec => []BufferHoldsLine
<1>1. LineInv /\ [Next]_vars => LineInv'
  BY StepLine
<1>2. LineInv => BufferHoldsLine
  BY DEF LineInv
<1>3. QED
  BY InitLine, <1>1, <1>2, PTL DEF Spec

(* terminal_read, terminal.c: a read delivers the line as the user typed    *)
(* it, newline included, cut only where the program has no room for more.   *)
THEOREM LineRead ==
  ASSUME Freedoms = {}
  PROVE  Spec => []ReadsTheLine
<1>1. LineInv /\ [Next]_vars => LineInv'
  BY StepLine
<1>2. LineInv => ReadsTheLine
  BY DEF LineInv
<1>3. QED
  BY InitLine, <1>1, <1>2, PTL DEF Spec
=============================================================================
