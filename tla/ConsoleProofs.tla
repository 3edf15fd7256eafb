--------------------------- MODULE ConsoleProofs ---------------------------
(***************************************************************************)
(* That every terminal shows its own text and goes on at its end, and that *)
(* a backspace finds what it takes back, for a screen of every size, every *)
(* number of terminals and all that keyboard and programs write, when the  *)
(* user is orderly and what can be typed into a line fits above the last    *)
(* row of the screen.                                                      *)
(***************************************************************************)
EXTENDS Console, SequenceTheorems, WellFoundedInduction, TLAPS

(* 127 characters of at most four blanks, and behind these single ones,     *)
(* against 24 rows of 80: a line of up to 1539 characters.                  *)
Enough == /\ Freedoms = {}
          /\ KeybMax * TabWidth <= (NUM_ROWS - 1) * NUM_COLS
          /\ KeybMax * TabWidth + (LineMax - KeybMax) <= (NUM_ROWS - 1) * NUM_COLS
          /\ Terms < Pow2(WordBits - 1)
          /\ \A m \in Messages : m \in Seq(Range(m))

-----------------------------------------------------------------------------
(* Natural numbers: induction, and the largest of a set.                   *)
LEMMA Least ==
  ASSUME NEW T, T \subseteq Nat, T # {}
  PROVE  \E n \in T : \A m \in T : n <= m
<1>1. IsWellFoundedOn(OpToRel(<, Nat), Nat)
  BY NatLessThanWellFounded
<1>2. PICK n \in T : \A m \in T : ~ (<<m, n>> \in OpToRel(<, Nat))
  BY <1>1, WFMin
<1>3. ASSUME NEW m \in T, m < n
      PROVE  FALSE
  <2>1. <<m, n>> \in OpToRel(<, Nat)
    BY <1>3 DEF OpToRel
  <2>2. QED
    BY <2>1, <1>2
<1>4. QED
  BY <1>3

LEMMA Induction ==
  ASSUME NEW T, 0 \in T, \A n \in Nat : n \in T => n + 1 \in T
  PROVE  Nat \subseteq T
<1>1. SUFFICES ASSUME Nat \ T # {}
               PROVE  FALSE
  OBVIOUS
<1>2. PICK n \in Nat \ T : \A m \in Nat \ T : n <= m
  BY <1>1, Least
<1>3. n # 0 /\ n - 1 \in Nat /\ n - 1 \in T
  BY <1>2
<1>4. QED
  BY <1>2, <1>3

LEMMA MaxIs ==
  ASSUME NEW S, NEW m \in S, m \in Int, \A y \in S : y \in Int /\ y <= m
  PROVE  Max(S) = m
<1>1. \A x \in S : (\A y \in S : x >= y) => x = m
  OBVIOUS
<1>2. \E x \in S : \A y \in S : x >= y
  OBVIOUS
<1>3. QED
  BY <1>1, <1>2 DEF Max

-----------------------------------------------------------------------------
(* The cells in rows and columns.                                          *)
Rows == 0..NUM_ROWS-1
Cols == 0..NUM_COLS-1

LEMMA InRow ==
  ASSUME NEW C \in Nat \ {0}, NEW i \in Int, NEW j \in 0..C-1
  PROVE  (i * C + j) \div C = i /\ (i * C + j) % C = j
OBVIOUS

LEMMA Product ==
  ASSUME NEW C \in Nat, NEW i \in Int, NEW j \in Int
  PROVE  /\ i * C \in Int /\ (i + 1) * C = i * C + C
         /\ i <= j => i * C <= j * C
OBVIOUS

LEMMA Divided ==
  ASSUME NEW C \in Nat \ {0}, NEW p \in Nat
  PROVE  /\ p \div C \in Nat /\ p % C \in 0..C-1
         /\ p = (p \div C) * C + (p % C)
OBVIOUS

-----------------------------------------------------------------------------
(* What is folded: one element after the other, from the first on.         *)
Move(k, dest, src, mv) ==
  [a \in DOMAIN k |-> IF a - dest \in mv[1]..mv[1] + mv[2] - 1 THEN k[a - dest + src] ELSE k[a]]
Fill(k, s, c, mv) ==
  [a \in DOMAIN k |-> IF a - s \in mv[1]..mv[1] + mv[2] - 1 THEN c ELSE k[a]]

Op(op, y, x) == IF op[1] = "putc" THEN Putc(y, x)
                ELSE IF op[1] = "say" THEN Say(y, x)
                ELSE IF op[1] = "unsay" THEN Unsay(y)
                ELSE IF op[1] = "move" THEN Move(y, op[2], op[3], x)
                ELSE IF op[1] = "fill" THEN Fill(y, op[2], op[3], x)
                ELSE op[2] * y + Digit(x)

Folded(it, op, base, s, n) ==
  it = [S \in SUBSET (1..n) |-> IF S = {} THEN base ELSE Op(op, it[S \ {Max(S)}], s[Max(S)])]

LEMMA FoldExists ==
  ASSUME NEW op, NEW base, NEW s, NEW n \in Nat
  PROVE  \E it : Folded(it, op, base, s, n)
<1> DEFINE T == {m \in Nat : \E it : Folded(it, op, base, s, m)}
<1>1. 0 \in T
  <2> DEFINE none == [S \in SUBSET (1..0) |-> base]
  <2>1. \A S \in SUBSET (1..0) : S = {}
    OBVIOUS
  <2>2. Folded(none, op, base, s, 0)
    BY <2>1 DEF Folded
  <2>3. QED
    BY <2>2
<1>2. ASSUME NEW m \in Nat, m \in T
      PROVE  m + 1 \in T
  <2>1. PICK it : Folded(it, op, base, s, m)
    BY <1>2
  <2> DEFINE next == [S \in SUBSET (1..m+1) |->
                        IF m + 1 \in S THEN Op(op, it[S \ {m+1}], s[m+1]) ELSE it[S]]
  <2>2. ASSUME NEW S \in SUBSET (1..m+1)
        PROVE  next[S] = IF S = {} THEN base ELSE Op(op, next[S \ {Max(S)}], s[Max(S)])
    <3>1. CASE m + 1 \in S
      <4>1. m + 1 \in Int /\ \A y \in S : y \in Int /\ y <= m + 1
        OBVIOUS
      <4>2. Max(S) = m + 1
        BY <3>1, <4>1, MaxIs
      <4>3. S \ {m + 1} \in SUBSET (1..m+1) /\ m + 1 \notin S \ {m + 1}
        OBVIOUS
      <4>4. QED
        BY <3>1, <4>2, <4>3
    <3>2. CASE m + 1 \notin S
      <4>1. S \in SUBSET (1..m)
        BY <3>2
      <4>2. /\ next[S] = it[S] /\ S \ {Max(S)} \in SUBSET (1..m)
            /\ next[S \ {Max(S)}] = it[S \ {Max(S)}]
        BY <4>1, <3>2
      <4>3. QED
        BY <4>1, <4>2, <2>1 DEF Folded
    <3>3. QED
      BY <3>1, <3>2
  <2>3. next = [S \in SUBSET (1..m+1) |-> next[S]]
    OBVIOUS
  <2> HIDE DEF next
  <2>4. Folded(next, op, base, s, m + 1)
    BY <2>2, <2>3 DEF Folded
  <2>5. QED
    BY <2>4
<1> HIDE DEF T
<1>3. Nat \subseteq T
  BY <1>1, <1>2, Induction
<1>4. QED
  BY <1>3 DEF T

(* The run of a fold: h[i] is what has come out after i elements.          *)
Run(h, op, base, s, n) ==
  /\ h[0] = base
  /\ \A i \in 1..n : h[i] = Op(op, h[i-1], s[i])

LEMMA FoldRuns ==
  ASSUME NEW op, NEW base, NEW s, NEW n \in Nat, NEW it, Folded(it, op, base, s, n)
  PROVE  \E h : Run(h, op, base, s, n) /\ h[n] = it[1..n]
<1> DEFINE h == [i \in 0..n |-> it[1..i]]
<1>1. h[0] = base
  BY DEF Folded
<1>2. ASSUME NEW i \in 1..n
      PROVE  h[i] = Op(op, h[i-1], s[i])
  <2>1. i \in 1..i /\ i \in Int /\ \A y \in 1..i : y \in Int /\ y <= i
    OBVIOUS
  <2>2. Max(1..i) = i
    BY <2>1, MaxIs
  <2>3. (1..i) \ {i} = 1..i-1 /\ (1..i) \in SUBSET (1..n) /\ 1..i # {}
    OBVIOUS
  <2>4. it[1..i] = Op(op, it[(1..i) \ {Max(1..i)}], s[Max(1..i)])
    BY <2>3 DEF Folded
  <2>5. h[i] = it[1..i] /\ h[i-1] = it[1..i-1]
    OBVIOUS
  <2> HIDE DEF h
  <2>6. QED
    BY <2>2, <2>3, <2>4, <2>5
<1>3. h[n] = it[1..n]
  OBVIOUS
<1> HIDE DEF h
<1>4. QED
  BY <1>1, <1>2, <1>3 DEF Run

LEMMA PutsRuns ==
  ASSUME NEW k, NEW s, NEW n \in Nat, DOMAIN s = 1..n
  PROVE  \E h : Run(h, <<"putc">>, k, s, n) /\ Puts(k, s) = h[n]
<1> DEFINE P(f) == f = [S \in SUBSET (1..n) |->
                          IF S = {} THEN k ELSE Putc(f[S \ {Max(S)}], s[Max(S)])]
           it == CHOOSE f : P(f)
<1>1. \E f : P(f)
  <2>1. PICK g : Folded(g, <<"putc">>, k, s, n)
    BY FoldExists
  <2>2. P(g)
    BY <2>1 DEF Folded, Op
  <2>3. QED
    BY <2>2
<1>2. P(it)
  BY <1>1
<1>3. Puts(k, s) = it[1..n]
  BY DEF Puts, FoldLeft, MapThenFoldSet
<1> HIDE DEF it
<1>4. Folded(it, <<"putc">>, k, s, n)
  BY <1>2 DEF Folded, Op
<1>5. QED
  BY <1>3, <1>4, FoldRuns

LEMMA SayRuns ==
  ASSUME NEW rows, NEW s, NEW n \in Nat, DOMAIN s = 1..n
  PROVE  \E h : Run(h, <<"say">>, rows, s, n) /\ SayAll(rows, s) = h[n]
<1> DEFINE P(f) == f = [S \in SUBSET (1..n) |->
                          IF S = {} THEN rows ELSE Say(f[S \ {Max(S)}], s[Max(S)])]
           it == CHOOSE f : P(f)
<1>1. \E f : P(f)
  <2>1. PICK g : Folded(g, <<"say">>, rows, s, n)
    BY FoldExists
  <2>2. P(g)
    BY <2>1 DEF Folded, Op
  <2>3. QED
    BY <2>2
<1>2. P(it)
  BY <1>1
<1>3. SayAll(rows, s) = it[1..n]
  BY DEF SayAll, FoldLeft, MapThenFoldSet
<1> HIDE DEF it
<1>4. Folded(it, <<"say">>, rows, s, n)
  BY <1>2 DEF Folded, Op
<1>5. QED
  BY <1>3, <1>4, FoldRuns

LEMMA UnsayRuns ==
  ASSUME NEW rows, NEW n \in Nat
  PROVE  \E h : Run(h, <<"unsay">>, rows, [i \in 1..n |-> i], n) /\ UnsayAll(rows, n) = h[n]
<1> DEFINE P(f) == f = [S \in SUBSET (1..n) |-> IF S = {} THEN rows ELSE Unsay(f[S \ {Max(S)}])]
           it == CHOOSE f : P(f)
<1>1. \E f : P(f)
  <2>1. PICK g : Folded(g, <<"unsay">>, rows, [i \in 1..n |-> i], n)
    BY FoldExists
  <2>2. P(g)
    BY <2>1 DEF Folded, Op
  <2>3. QED
    BY <2>2
<1>2. P(it)
  BY <1>1
<1>3. UnsayAll(rows, n) = it[1..n]
  BY DEF UnsayAll, FoldLeft, MapThenFoldSet
<1> HIDE DEF it
<1>4. Folded(it, <<"unsay">>, rows, [i \in 1..n |-> i], n)
  BY <1>2 DEF Folded, Op
<1>5. QED
  BY <1>3, <1>4, FoldRuns

-----------------------------------------------------------------------------
(* Sequences: one element more, and all but the last.                      *)
OneMore(u, t, c) == /\ Len(t) \in Nat /\ Len(u) = Len(t) + 1 /\ u[Len(t)+1] = c
                    /\ \A k \in 1..Len(t) : u[k] = t[k]

LEMMA AppendIs ==
  ASSUME NEW S, NEW t \in Seq(S), NEW c \in S
  PROVE  Append(t, c) \in Seq(S) /\ OneMore(Append(t, c), t, c)
<1>1. /\ Append(t, c) \in Seq(S) /\ Len(Append(t, c)) = Len(t) + 1
      /\ \A k \in 1.. Len(t) : Append(t, c)[k] = t[k]
      /\ Append(t, c)[Len(t)+1] = c
  BY AppendProperties
<1>2. PICK u \in Seq(S) : u = Append(t, c)
  BY <1>1
<1>3. Len(t) \in Nat
  BY LenProperties
<1>4. /\ Len(u) = Len(t) + 1 /\ u[Len(t)+1] = c
      /\ \A k \in 1..Len(t) : u[k] = t[k]
  BY <1>1, <1>2
<1>5. QED
  BY <1>2, <1>3, <1>4 DEF OneMore

Ends(s, p, x) == Front(s) = p /\ Last(s) = x /\ s = Append(p, x) /\ OneMore(s, p, x)

LEMMA FrontLast ==
  ASSUME NEW S, NEW s \in Seq(S), s # <<>>
  PROVE  \E p \in Seq(S), x \in S : Ends(s, p, x)
<1>1. PICK p \in Seq(S), x \in S : s = Append(p, x)
  BY SequenceEmptyOrAppend
<1>2. OneMore(s, p, x)
  BY <1>1, AppendIs
<1>3. PICK n \in Nat : n = Len(p) /\ Len(s) = n + 1 /\ s[n+1] = x /\ \A k \in 1..n : s[k] = p[k]
  BY <1>2 DEF OneMore
<1>4. Front(s) = SubSeq(s, 1, n) /\ Last(s) = x
  BY <1>3 DEF Front, Last
<1>5. \A k \in 1..n : s[k] \in S
  BY <1>3, LenProperties
<1>6. /\ SubSeq(s, 1, n) \in Seq(S)
      /\ Len(SubSeq(s, 1, n)) = IF 1 <= n THEN n - 1 + 1 ELSE 0
      /\ \A k \in 1..n-1+1 : SubSeq(s, 1, n)[k] = s[1+k-1]
  BY <1>5, SubSeqProperties
<1>7. PICK f \in Seq(S) : f = SubSeq(s, 1, n) /\ Len(f) = n /\ \A k \in 1..n : f[k] = p[k]
  BY <1>3, <1>6
<1>8. f = p
  BY <1>3, <1>7, SeqEqual
<1>9. QED
  BY <1>1, <1>2, <1>4, <1>7, <1>8 DEF Ends

LEMMA ConcatAppend ==
  ASSUME NEW S, NEW s \in Seq(S), NEW t \in Seq(S), NEW x \in S
  PROVE  s \o Append(t, x) = Append(s \o t, x)
<1>1. /\ <<x>> \in Seq(S) /\ s \o t \in Seq(S)
      /\ Append(t, x) = t \o <<x>> /\ Append(s \o t, x) = (s \o t) \o <<x>>
  BY AppendIsConcat, ConcatProperties
<1>2. (s \o t) \o <<x>> = s \o (t \o <<x>>)
  BY <1>1, ConcatAssociative
<1>3. QED
  BY <1>1, <1>2

LEMMA TwoMore ==
  ASSUME NEW S, NEW p \in Seq(S), NEW a \in S, NEW b \in S
  PROVE  p \o <<a>> = Append(p, a) /\ p \o <<a, b>> = Append(Append(p, a), b)
<1>1. p \o <<a>> = Append(p, a)
  BY AppendIsConcat
<1>2. <<a>> \in Seq(S)
  OBVIOUS
<1>3. <<a, b>> = Append(<<a>>, b)
  OBVIOUS
<1>4. p \o Append(<<a>>, b) = Append(p \o <<a>>, b)
  BY <1>2, ConcatAppend
<1>5. QED
  BY <1>1, <1>2, <1>3, <1>4

-----------------------------------------------------------------------------
(* What characters there are, and texts of rows that fit on the screen.    *)
Char   == {"t", Blank} \cup Range(Lookup) \cup Keys \cup UNION {Range(m) : m \in Messages}
Letter == Char \ {NUL, LF}

TextOver(rows, Str) ==
  /\ rows \in Seq(Str) /\ Len(rows) \in 1..NUM_ROWS
  /\ \A i \in 1..Len(rows) : Len(rows[i]) \in 0..NUM_COLS
  /\ Len(rows[Len(rows)]) < NUM_COLS

Text(rows) == TextOver(rows, Seq(Letter))

Breaks(row, c)  == c = LF \/ Len(row) + 1 = NUM_COLS
Full(row, c)    == IF c = LF THEN row ELSE Append(row, c)
Lost(rows, c)   == IF Breaks(rows[Len(rows)], c) /\ Len(rows) = NUM_ROWS THEN 1 ELSE 0

(* A character ends a row or not; if it does on the last one, all go up.   *)
Says(u, rows, c) ==
  LET n == Len(rows)
      d == Lost(rows, c)
  IN  /\ Text(u)
      /\ Len(u) = IF Breaks(rows[n], c) THEN n + 1 - d ELSE n
      /\ \A i \in 1..Len(u) : u[i] = IF i + d < n THEN rows[i + d]
                                     ELSE IF i + d = n THEN Full(rows[n], c) ELSE <<>>

LEMMA Screen ==
  /\ NUM_ROWS \in Nat \ {0} /\ NUM_COLS \in Nat \ {0} /\ Terms \in Nat \ {0}
  /\ TabWidth \in Nat \ {0} /\ KeybMax \in Nat /\ Keys \cap {LF, NUL} = {}
  /\ LineMax \in Nat /\ TAB \notin Unbounded
BY ConsoleAssumption

LEMMA SayIs ==
  ASSUME NEW rows, Text(rows), NEW c \in Letter \cup {LF}
  PROVE  Says(Say(rows, c), rows, c)
<1>1. PICK Str : Str = Seq(Letter)
  OBVIOUS
<1>2. PICK n \in 1..NUM_ROWS : n = Len(rows)
  BY DEF Text, TextOver
<1>3. /\ rows \in Seq(Str) /\ \A i \in 1..n : Len(rows[i]) \in 0..NUM_COLS
      /\ Len(rows[n]) < NUM_COLS /\ rows # <<>> /\ n \in Nat
  BY <1>1, <1>2, Screen DEF Text, TextOver
<1>4. PICK f \in Seq(Str), row \in Str : Ends(rows, f, row)
  BY <1>3, FrontLast
<1>5. /\ Len(f) = n - 1 /\ row = rows[n] /\ \A k \in 1..n-1 : f[k] = rows[k]
  <2>1. PICK m \in Nat : m = Len(f) /\ Len(rows) = m + 1 /\ rows[m+1] = row
                         /\ \A k \in 1..m : rows[k] = f[k]
    BY <1>4 DEF Ends, OneMore
  <2>2. m = n - 1 /\ m + 1 = n
    BY <1>2, <2>1
  <2>3. QED
    BY <2>1, <2>2
<1>6. PICK full \in Str : /\ full = Full(row, c)
                          /\ Len(full) = IF c = LF THEN Len(row) ELSE Len(row) + 1
  <2>1. CASE c = LF
    BY <2>1 DEF Full
  <2>2. CASE c # LF
    <3>1. c \in Letter /\ row \in Seq(Letter)
      BY <1>1, <2>2
    <3>2. Append(row, c) \in Seq(Letter) /\ Len(Append(row, c)) = Len(row) + 1
      BY <3>1, AppendProperties
    <3>3. QED
      BY <1>1, <2>2, <3>2 DEF Full
  <2>3. QED
    BY <2>1, <2>2
<1>7. PICK w \in Seq(Str) : w = Append(f, full) /\ OneMore(w, f, full)
  BY AppendIs
<1>8. Len(w) = n /\ w[n] = full /\ \A k \in 1..n-1 : w[k] = rows[k]
  BY <1>3, <1>5, <1>7 DEF OneMore
<1>9. PICK e \in Str : e = <<>> /\ Len(e) = 0
  BY <1>1, EmptySeq
<1>10. PICK z \in Seq(Str) : z = Append(w, e) /\ OneMore(z, w, e)
  BY AppendIs
<1>11. Len(z) = n + 1 /\ z[n+1] = e /\ z[n] = full /\ \A k \in 1..n-1 : z[k] = rows[k]
  <2>1. Len(z) = n + 1 /\ z[n+1] = e /\ \A k \in 1..n : z[k] = w[k]
    BY <1>8, <1>10 DEF OneMore
  <2>2. n \in 1..n /\ \A k \in 1..n-1 : k \in 1..n
    BY <1>2
  <2>3. QED
    BY <1>8, <2>1, <2>2
<1>12. PICK b \in BOOLEAN : b = Breaks(row, c)
  BY DEF Breaks
<1>13. Say(rows, c) = IF b THEN Keep(z) ELSE w
  <2>1. Last(rows) = row /\ Front(rows) = f /\ rows = Append(f, row)
    BY <1>4 DEF Ends
  <2>2. CASE c = LF
    <3>1. Append(rows, <<>>) = z /\ b
      BY <1>6, <1>7, <1>9, <1>10, <1>12, <2>1, <2>2 DEF Full, Breaks
    <3>2. QED
      BY <3>1, <2>2 DEF Say
  <2>3. CASE c # LF
    <3>1. full = Append(row, c) /\ Len(full) = Len(row) + 1 /\ (b <=> Len(full) = NUM_COLS)
      BY <1>6, <1>12, <2>3 DEF Full, Breaks
    <3>2. f \o <<full>> = w /\ f \o <<full, <<>>>> = z
      BY <1>7, <1>9, <1>10, TwoMore
    <3>3. Say(rows, c) = IF Len(full) = NUM_COLS THEN Keep(f \o <<full, <<>>>>) ELSE f \o <<full>>
      BY <2>1, <2>3, <3>1 DEF Say
    <3>4. QED
      BY <3>1, <3>2, <3>3
  <2>4. QED
    BY <2>2, <2>3
<1>14. PICK d \in 0..1 : d = Lost(rows, c) /\ d = IF b /\ n = NUM_ROWS THEN 1 ELSE 0
  BY <1>2, <1>5, <1>12 DEF Lost
<1>15. PICK u \in Seq(Str) :
            /\ u = Say(rows, c) /\ Len(u) = IF b THEN n + 1 - d ELSE n
            /\ \A i \in 1..Len(u) : u[i] = IF i + d < n THEN rows[i + d]
                                           ELSE IF i + d = n THEN full ELSE e
  <2>1. CASE b /\ n = NUM_ROWS
    <3>1. Say(rows, c) = Tail(z) /\ d = 1
      BY <1>11, <1>13, <1>14, <2>1 DEF Keep
    <3>2. z # <<>> /\ Len(z) = n + 1
      BY <1>11, <1>2
    <3>3. PICK u \in Seq(Str) : u = Tail(z) /\ Len(u) = n /\ \A i \in 1..n : u[i] = z[i+1]
      <4>1. /\ Tail(z) \in Seq(Str) /\ Len(Tail(z)) = Len(z) - 1
            /\ \A i \in 1..Len(Tail(z)) : Tail(z)[i] = z[i+1]
        BY <3>2, HeadTailProperties
      <4>2. PICK u \in Seq(Str) : u = Tail(z)
        BY <4>1
      <4>3. Len(u) = n
        BY <1>2, <3>2, <4>1, <4>2
      <4>4. \A i \in 1..n : u[i] = z[i+1]
        BY <4>1, <4>2, <4>3
      <4>5. QED
        BY <4>2, <4>3, <4>4
    <3>4. ASSUME NEW i \in 1..n
          PROVE  u[i] = IF i + d < n THEN rows[i + d] ELSE IF i + d = n THEN full ELSE e
      <4>1. i + 1 \in 1..n-1 \/ i + 1 = n \/ i = n
        OBVIOUS
      <4>2. QED
        BY <1>11, <3>1, <3>3, <4>1
    <3>5. Len(u) = IF b THEN n + 1 - d ELSE n
      BY <2>1, <3>1, <3>3
    <3>6. \A i \in 1..Len(u) : u[i] = IF i + d < n THEN rows[i + d]
                                       ELSE IF i + d = n THEN full ELSE e
      BY <3>3, <3>4
    <3>7. QED
      BY <3>1, <3>3, <3>5, <3>6
  <2>2. CASE b /\ n # NUM_ROWS
    <3>1. Say(rows, c) = z /\ d = 0
      BY <1>2, <1>11, <1>13, <1>14, <2>2, Screen DEF Keep
    <3>2. ASSUME NEW i \in 1..n+1
          PROVE  z[i] = IF i + d < n THEN rows[i + d] ELSE IF i + d = n THEN full ELSE e
      <4>1. i \in 1..n-1 \/ i = n \/ i = n + 1
        OBVIOUS
      <4>2. QED
        BY <1>11, <3>1, <4>1
    <3>3. QED
      BY <1>11, <2>2, <3>1, <3>2
  <2>3. CASE ~ b
    <3>1. Say(rows, c) = w /\ d = 0
      BY <1>13, <1>14, <2>3
    <3>2. ASSUME NEW i \in 1..n
          PROVE  w[i] = IF i + d < n THEN rows[i + d] ELSE IF i + d = n THEN full ELSE e
      <4>1. i \in 1..n-1 \/ i = n
        OBVIOUS
      <4>2. QED
        BY <1>8, <3>1, <4>1
    <3>3. QED
      BY <1>8, <2>3, <3>1, <3>2
  <2>4. QED
    BY <2>1, <2>2, <2>3
<1>16. Len(full) \in 0..NUM_COLS /\ (Len(full) = NUM_COLS => b)
  <2>1. Len(row) \in 0..NUM_COLS /\ Len(row) < NUM_COLS
    BY <1>2, <1>3, <1>5
  <2>2. PICK m \in 0..NUM_COLS : m = Len(row) /\ m < NUM_COLS
    BY <2>1
  <2>3. Len(full) = m \/ Len(full) = m + 1
    BY <1>6, <2>2
  <2>4. c # LF \/ Len(full) = m
    BY <1>6, <2>2
  <2>5. b <=> (c = LF \/ m + 1 = NUM_COLS)
    BY <1>12, <2>2 DEF Breaks
  <2>6. QED
    BY <2>2, <2>3, <2>4, <2>5, Screen
<1>17. \A i \in 1..Len(u) : Len(u[i]) \in 0..NUM_COLS
  <2>1. ASSUME NEW i \in 1..Len(u)
        PROVE  Len(u[i]) \in 0..NUM_COLS
    <3>1. CASE i + d < n
      <4>1. i + d \in 1..n
        BY <1>14, <3>1
      <4>2. u[i] = rows[i + d]
        BY <1>15, <3>1
      <4>3. QED
        BY <1>3, <4>1, <4>2
    <3>2. CASE ~ (i + d < n)
      <4>1. u[i] = full \/ u[i] = e
        BY <1>15, <3>2
      <4>2. QED
        BY <1>9, <1>16, <4>1, Screen
    <3>3. QED
      BY <3>1, <3>2
  <2>2. QED
    BY <2>1
<1>18. Len(u) \in 1..NUM_ROWS /\ Len(u[Len(u)]) < NUM_COLS
  <2>1. CASE b
    <3>1. Len(u) = n + 1 - d /\ Len(u) \in 1..NUM_ROWS
      BY <1>2, <1>14, <1>15, <2>1, Screen
    <3>2. u[Len(u)] = e
      BY <1>14, <1>15, <3>1
    <3>3. QED
      BY <1>9, <3>1, <3>2, Screen
  <2>2. CASE ~ b
    <3>1. Len(u) = n /\ d = 0 /\ u[n] = full
      BY <1>2, <1>14, <1>15, <2>2
    <3>2. Len(full) < NUM_COLS
      BY <1>16, <2>2, Screen
    <3>3. QED
      BY <1>2, <3>1, <3>2
  <2>3. QED
    BY <2>1, <2>2
<1>19. Text(u)
  BY <1>1, <1>15, <1>17, <1>18 DEF Text, TextOver
<1>20. QED
  BY <1>2, <1>5, <1>6, <1>9, <1>12, <1>14, <1>15, <1>19, Zenon DEF Says

(* What is taken back of a text: the last character of its last row, or of *)
(* the one above if that is empty.                                         *)
LastRow(rows) == IF Len(rows[Len(rows)]) = 0 THEN Len(rows) - 1 ELSE Len(rows)

Unsays(u, rows) ==
  LET m == LastRow(rows)
  IN  /\ Text(u) /\ Len(u) = m /\ \A i \in 1..m-1 : u[i] = rows[i]
      /\ Len(u[m]) = Len(rows[m]) - 1
      /\ \A j \in 1..Len(u[m]) : u[m][j] = rows[m][j]

LEMMA UnsayIs ==
  ASSUME NEW rows, Text(rows), LastRow(rows) > 0, Len(rows[LastRow(rows)]) > 0
  PROVE  Unsays(Unsay(rows), rows)
<1>1. PICK Str : Str = Seq(Letter)
  OBVIOUS
<1>2. PICK n \in 1..NUM_ROWS : n = Len(rows)
  BY DEF Text, TextOver
<1>3. /\ rows \in Seq(Str) /\ \A i \in 1..n : Len(rows[i]) \in 0..NUM_COLS
      /\ Len(rows[n]) < NUM_COLS /\ rows # <<>> /\ n \in Nat
  BY <1>1, <1>2, Screen DEF Text, TextOver
<1>4. PICK f \in Seq(Str), row \in Str : Ends(rows, f, row)
  BY <1>3, FrontLast
<1>5. /\ Len(f) = n - 1 /\ row = rows[n] /\ \A k \in 1..n-1 : f[k] = rows[k]
      /\ Front(rows) = f /\ Last(rows) = row
  <2>1. PICK m \in Nat : m = Len(f) /\ Len(rows) = m + 1 /\ rows[m+1] = row
                         /\ \A k \in 1..m : rows[k] = f[k]
    BY <1>4 DEF Ends, OneMore
  <2>2. m = n - 1 /\ m + 1 = n
    BY <1>2, <2>1
  <2>3. QED
    BY <1>4, <2>1, <2>2 DEF Ends
<1>6. PICK m \in 1..n : m = LastRow(rows) /\ m = (IF Len(row) = 0 THEN n - 1 ELSE n)
                        /\ Len(rows[m]) > 0
  BY <1>2, <1>5 DEF LastRow
<1>7. row = <<>> <=> Len(row) = 0
  BY <1>1, EmptySeq
<1>8. PICK r \in Seq(Str) : /\ r = (IF Last(rows) = <<>> THEN Front(rows) ELSE rows)
                            /\ Len(r) = m /\ \A i \in 1..m : r[i] = rows[i]
  <2>1. CASE row = <<>>
    BY <1>5, <1>6, <1>7, <2>1
  <2>2. CASE row # <<>>
    BY <1>2, <1>3, <1>5, <1>6, <1>7, <2>2
  <2>3. QED
    BY <2>1, <2>2
<1>9. r # <<>>
  BY <1>8, <1>6
<1>10. PICK g \in Seq(Str), l \in Str : Ends(r, g, l)
  BY <1>9, FrontLast
<1>11. PICK h \in Nat : /\ h + 1 = m /\ h = Len(g) /\ l = rows[m] /\ \A i \in 1..h : g[i] = rows[i]
                        /\ Front(r) = g /\ Last(r) = l
  <2>1. PICK h \in Nat : h = Len(g) /\ Len(r) = h + 1 /\ r[h+1] = l /\ \A i \in 1..h : r[i] = g[i]
    BY <1>10 DEF Ends, OneMore
  <2>2. h + 1 = m /\ m \in 1..m
    BY <1>8, <2>1
  <2>3. \A i \in 1..h : i \in 1..m
    BY <2>2
  <2>4. QED
    BY <1>8, <1>10, <2>1, <2>2, <2>3 DEF Ends
<1>12. PICK e \in Str : /\ e = Front(l) /\ Len(e) = Len(rows[m]) - 1
                        /\ \A j \in 1..Len(e) : e[j] = rows[m][j]
  <2>1. l \in Seq(Letter) /\ l # <<>>
    BY <1>1, <1>6, <1>11
  <2>2. PICK q \in Seq(Letter), y \in Letter : Ends(l, q, y)
    BY <2>1, FrontLast
  <2>3. q = Front(l) /\ Len(q) \in Nat /\ Len(l) = Len(q) + 1 /\ \A j \in 1..Len(q) : l[j] = q[j]
    BY <2>2 DEF Ends, OneMore
  <2>4. QED
    BY <1>1, <1>11, <2>3
<1>13. PICK u \in Seq(Str) : u = Append(g, e) /\ OneMore(u, g, e)
  BY AppendIs
<1>14. Unsay(rows) = u
  <2>1. Unsay(rows) = g \o <<e>>
    BY <1>8, <1>11, <1>12 DEF Unsay
  <2>2. g \o <<e>> = Append(g, e)
    BY TwoMore
  <2>3. QED
    BY <1>13, <2>1, <2>2
<1>15. Len(u) = m /\ u[m] = e /\ \A i \in 1..m-1 : u[i] = rows[i]
  <2>1. Len(u) = h + 1 /\ u[h+1] = e /\ \A i \in 1..h : u[i] = g[i]
    BY <1>11, <1>13 DEF OneMore
  <2>2. m - 1 = h
    BY <1>11
  <2>3. QED
    BY <1>11, <2>1, <2>2
<1>16. Len(rows[m]) \in 0..NUM_COLS /\ Len(e) \in 0..NUM_COLS /\ Len(e) < NUM_COLS
  BY <1>3, <1>6, <1>12, Screen
<1>17. Text(u)
  <2>1. Len(u) \in 1..NUM_ROWS /\ Len(u[Len(u)]) < NUM_COLS
    BY <1>2, <1>15, <1>16, Screen
  <2>2. ASSUME NEW i \in 1..Len(u)
        PROVE  Len(u[i]) \in 0..NUM_COLS
    <3>1. i \in 1..m-1 \/ i = m
      BY <1>15
    <3>2. i \in 1..m-1 => i \in 1..n
      BY <1>6
    <3>3. QED
      BY <1>3, <1>15, <1>16, <3>1, <3>2
  <2>3. QED
    BY <1>1, <2>1, <2>2 DEF Text, TextOver
<1>18. QED
  BY <1>6, <1>12, <1>14, <1>15, <1>17, Zenon DEF Unsays

-----------------------------------------------------------------------------
(* The cells, by rows and columns.                                         *)
Row(a) == a * NUM_COLS

LEMMA RowNext ==
  /\ Row(0) = 0
  /\ \A a \in Int : Row(a) \in Int /\ Row(a + 1) = Row(a) + NUM_COLS /\ Row(a - 1) = Row(a) - NUM_COLS
  /\ \A a \in Nat : Row(a) \in Nat
BY Screen DEF Row

LEMMA RowsApart ==
  ASSUME NEW a \in Int, NEW b \in Int, a < b
  PROVE  Row(a) + NUM_COLS <= Row(b)
<1>1. PICK C \in Nat : C = NUM_COLS
  BY Screen
<1>2. PICK y \in Nat : y = b - a - 1
  OBVIOUS
<1>3. b * C = a * C + C + y * C /\ y * C \in Nat /\ a * C \in Int
  BY <1>2
<1>4. QED
  BY <1>1, <1>3 DEF Row

LEMMA Same ==
  ASSUME NEW a \in Int, NEW b \in Int, NEW i \in 0..NUM_COLS-1, NEW j \in 0..NUM_COLS-1,
         Row(a) + i = Row(b) + j
  PROVE  a = b /\ i = j
<1>1. PICK p \in Int, q \in Int : p = Row(a) /\ q = Row(b)
  BY RowNext
<1>2. ASSUME a < b
      PROVE  FALSE
  <2>1. Row(a) + NUM_COLS <= Row(b)
    BY <1>2, RowsApart
  <2>2. QED
    BY <1>1, <2>1, Screen
<1>3. ASSUME b < a
      PROVE  FALSE
  <2>1. Row(b) + NUM_COLS <= Row(a)
    BY <1>3, RowsApart
  <2>2. QED
    BY <1>1, <2>1, Screen
<1>4. a = b
  BY <1>2, <1>3
<1>5. QED
  BY <1>1, <1>4, Screen

LEMMA CellIs ==
  ASSUME NEW a \in Int, NEW j \in 0..NUM_COLS-1
  PROVE  /\ Row(a) + j \in Cells <=> a \in 0..NUM_ROWS-1
         /\ (Row(a) + j) \div NUM_COLS = a /\ (Row(a) + j) % NUM_COLS = j
<1>1. (Row(a) + j) \div NUM_COLS = a /\ (Row(a) + j) % NUM_COLS = j
  BY Screen, InRow DEF Row
<1>2. NUM_COLS * NUM_ROWS = Row(NUM_ROWS) /\ Row(NUM_ROWS) \in Nat
  BY Screen DEF Row
<1>3. CASE a < 0
  <2>1. Row(a) + NUM_COLS <= Row(0)
    BY <1>3, RowsApart
  <2>2. Row(a) + j \notin Cells
    BY <2>1, RowNext, Screen DEF Cells
  <2>3. QED
    BY <1>1, <1>3, <2>2
<1>4. CASE a >= NUM_ROWS
  <2>1. Row(a) >= Row(NUM_ROWS)
    BY <1>4, RowsApart, RowNext, Screen
  <2>2. Row(a) + j \notin Cells
    BY <1>2, <2>1, RowNext, Screen DEF Cells
  <2>3. QED
    BY <1>1, <1>4, <2>2, Screen
<1>5. CASE a \in 0..NUM_ROWS-1
  <2>1. Row(a) + NUM_COLS <= Row(NUM_ROWS)
    BY <1>5, RowsApart, Screen
  <2>2. Row(a) \in Nat
    BY <1>5, RowNext
  <2>3. Row(a) + j \in Cells
    BY <1>2, <2>1, <2>2, Screen DEF Cells
  <2>4. QED
    BY <1>1, <1>5, <2>3
<1>6. QED
  BY <1>3, <1>4, <1>5, Screen

LEMMA CellIn ==
  ASSUME NEW p \in Cells
  PROVE  \E a \in 0..NUM_ROWS-1, j \in 0..NUM_COLS-1 : p = Row(a) + j
<1>1. p \in Nat
  BY Screen DEF Cells
<1>2. PICK C \in Nat \ {0} : C = NUM_COLS
  BY Screen
<1>3. PICK a \in Nat, j \in 0..C-1 : p = a * C + j
  BY <1>1, Divided
<1>4. p = Row(a) + j /\ j \in 0..NUM_COLS-1
  BY <1>2, <1>3 DEF Row
<1>5. a \in 0..NUM_ROWS-1
  BY <1>4, CellIs
<1>6. QED
  BY <1>4, <1>5

-----------------------------------------------------------------------------
(* A text by its places.                                                   *)
Filled(rows, a, j) == a < Len(rows) /\ j < Len(rows[a+1])
TextAt(rows, a, j) == IF Filled(rows, a, j) THEN rows[a+1][j+1] ELSE Blank

Last1(rows) == Len(rows[Len(rows)])

Added(rows, c, a, j) == c # LF /\ a = Len(rows) - 1 /\ j = Last1(rows)

(* What a character changes in the places of a text, d rows further down.  *)
Changes(u, rows, c, d) ==
  \A a \in Rows, j \in Cols :
    /\ Filled(u, a, j) <=> Filled(rows, a + d, j) \/ Added(rows, c, a + d, j)
    /\ TextAt(u, a, j) = IF Added(rows, c, a + d, j) THEN c ELSE TextAt(rows, a + d, j)

LEMMA TextIs ==
  ASSUME NEW rows, Text(rows)
  PROVE  /\ Len(rows) \in 1..NUM_ROWS /\ Last1(rows) \in Cols
         /\ End(rows) = Row(Len(rows) - 1) + Last1(rows)
         /\ \A i \in 1..Len(rows) : Len(rows[i]) \in 0..NUM_COLS /\ rows[i] \in Seq(Letter)
<1>1. PICK n \in 1..NUM_ROWS : n = Len(rows)
  BY DEF Text, TextOver
<1>2. /\ \A i \in 1..n : Len(rows[i]) \in 0..NUM_COLS /\ rows[i] \in Seq(Letter)
      /\ Len(rows[n]) < NUM_COLS
  BY <1>1 DEF Text, TextOver
<1>3. Last1(rows) \in Cols
  BY <1>1, <1>2, Screen DEF Last1, Cols
<1>4. End(rows) = Row(n - 1) + Last1(rows)
  BY <1>1 DEF End, Last, Row, Last1
<1>5. QED
  BY <1>1, <1>2, <1>3, <1>4

LEMMA SayChanges ==
  ASSUME NEW rows, Text(rows), NEW c \in Letter \cup {LF}, NEW u, Says(u, rows, c)
  PROVE  Changes(u, rows, c, Lost(rows, c))
<1>1. PICK n \in 1..NUM_ROWS : n = Len(rows)
  BY TextIs
<1>2. PICK l \in Cols : l = Last1(rows) /\ l = Len(rows[n])
  BY <1>1, TextIs DEF Last1
<1>3. PICK d \in 0..1 : d = Lost(rows, c)
  BY DEF Lost
<1>4. /\ \A i \in 1..Len(u) : u[i] = IF i + d < n THEN rows[i + d]
                                   ELSE IF i + d = n THEN Full(rows[n], c) ELSE <<>>
      /\ Len(u) = IF Breaks(rows[n], c) THEN n + 1 - d ELSE n
  BY <1>1, <1>3 DEF Says
<1>5. PICK full : /\ full = Full(rows[n], c)
                  /\ Len(full) = IF c = LF THEN l ELSE l + 1
                  /\ \A j \in 1..l : full[j] = rows[n][j]
                  /\ c # LF => full[l + 1] = c
  <2>1. CASE c = LF
    BY <1>2, <2>1 DEF Full
  <2>2. CASE c # LF
    <3>1. c \in Letter /\ rows[n] \in Seq(Letter)
      BY <1>1, <2>2, TextIs
    <3>2. OneMore(Append(rows[n], c), rows[n], c)
      BY <3>1, AppendIs
    <3>3. QED
      BY <1>2, <2>2, <3>2 DEF OneMore, Full
  <2>3. QED
    BY <2>1, <2>2
<1>6. d = 1 => n = NUM_ROWS /\ Breaks(rows[n], c)
  BY <1>1, <1>3 DEF Lost
<1>7. ASSUME NEW a \in Rows, NEW j \in Cols
      PROVE  /\ Filled(u, a, j) <=> Filled(rows, a + d, j) \/ Added(rows, c, a + d, j)
             /\ TextAt(u, a, j) = IF Added(rows, c, a + d, j) THEN c ELSE TextAt(rows, a + d, j)
  <2>1. CASE a + d < n - 1
    <3>1. a < Len(u) /\ u[a+1] = rows[a+d+1] /\ a + 1 + d = a + d + 1
      <4>1. a + 1 \in 1..Len(u) /\ a + 1 + d < n
        BY <1>1, <1>4, <2>1 DEF Rows
      <4>2. u[a+1] = rows[a+1+d] /\ a + 1 + d = a + d + 1
        BY <1>4, <4>1 DEF Rows
      <4>3. QED
        BY <4>1, <4>2, <1>4, <1>1, <2>1 DEF Rows
    <3>2. ~ Added(rows, c, a + d, j) /\ a + d < Len(rows)
      BY <1>1, <2>1 DEF Added, Rows
    <3>3. QED
      BY <3>1, <3>2 DEF Filled, TextAt
  <2>2. CASE a + d = n - 1
    <3>1. a < Len(u) /\ u[a+1] = full /\ a + d + 1 = n
      <4>1. a + 1 \in 1..Len(u) /\ a + 1 + d = n
        BY <1>1, <1>4, <2>2 DEF Rows
      <4>2. u[a+1] = full
        BY <1>4, <1>5, <4>1
      <4>3. QED
        BY <4>1, <4>2, <1>1, <1>4, <2>2 DEF Rows
    <3>2. Added(rows, c, a + d, j) <=> c # LF /\ j = l
      BY <1>1, <1>2, <2>2 DEF Added
    <3>3. Filled(u, a, j) <=> j < Len(full)
      BY <3>1 DEF Filled
    <3>4. Filled(rows, a + d, j) <=> j < l
      BY <1>1, <1>2, <2>2, <3>1 DEF Filled
    <3>5. TextAt(u, a, j) = IF j < Len(full) THEN full[j+1] ELSE Blank
      BY <3>1, <3>3 DEF TextAt
    <3>6. TextAt(rows, a + d, j) = IF j < l THEN rows[n][j+1] ELSE Blank
      BY <3>1, <3>4 DEF TextAt
    <3>7. j \in Nat /\ l \in Nat /\ (j < l => j + 1 \in 1..l)
      BY Screen DEF Cols
    <3>8. QED
      BY <1>5, <3>2, <3>3, <3>4, <3>5, <3>6, <3>7
  <2>3. CASE a + d > n - 1
    <3>1. ~ Added(rows, c, a + d, j) /\ ~ Filled(rows, a + d, j)
      BY <1>1, <2>3 DEF Added, Filled, Rows
    <3>2. ~ Filled(u, a, j)
      <4>1. CASE a < Len(u)
        <5>1. a + 1 \in 1..Len(u) /\ a + 1 + d > n
          BY <1>1, <1>4, <2>3, <4>1 DEF Rows
        <5>2. u[a+1] = <<>>
          BY <1>4, <5>1
        <5>3. QED
          BY <5>2, Screen DEF Filled, Cols
      <4>2. CASE ~ (a < Len(u))
        BY <4>2 DEF Filled
      <4>3. QED
        BY <4>1, <4>2
    <3>3. QED
      BY <3>1, <3>2 DEF TextAt
  <2>4. QED
    BY <1>1, <2>1, <2>2, <2>3 DEF Rows
<1>8. QED
  BY <1>3, <1>7 DEF Changes

(* Where a text ends after another character.                              *)
LEMMA SayEnd ==
  ASSUME NEW rows, Text(rows), NEW c \in Letter \cup {LF}, NEW u, Says(u, rows, c)
  PROVE  /\ Len(u) = IF Breaks(rows[Len(rows)], c) THEN Len(rows) + 1 - Lost(rows, c) ELSE Len(rows)
         /\ Last1(u) = IF Breaks(rows[Len(rows)], c) THEN 0 ELSE Last1(rows) + 1
         /\ c # LF => End(u) = End(rows) + 1 - Row(Lost(rows, c))
<1>1. PICK n \in 1..NUM_ROWS : n = Len(rows)
  BY TextIs
<1>2. PICK l \in Cols : l = Last1(rows) /\ l = Len(rows[n])
  BY <1>1, TextIs DEF Last1
<1>3. PICK d \in 0..1 : d = Lost(rows, c) /\ (d = 1 => Breaks(rows[n], c))
  BY <1>1 DEF Lost
<1>4. /\ \A i \in 1..Len(u) : u[i] = IF i + d < n THEN rows[i + d]
                                   ELSE IF i + d = n THEN Full(rows[n], c) ELSE <<>>
      /\ Len(u) = IF Breaks(rows[n], c) THEN n + 1 - d ELSE n
      /\ Text(u)
  BY <1>1, <1>3 DEF Says
<1>5. PICK b \in BOOLEAN : b = Breaks(rows[n], c)
  BY DEF Breaks
<1>6. Last1(u) = IF b THEN 0 ELSE l + 1
  <2>1. CASE b
    <3>1. Len(u) \in 1..Len(u) /\ Len(u) + d > n
      BY <1>1, <1>4, <1>5, <2>1
    <3>2. u[Len(u)] = <<>>
      BY <1>4, <3>1
    <3>3. QED
      BY <2>1, <3>2 DEF Last1
  <2>2. CASE ~ b
    <3>1. d = 0 /\ Len(u) = n /\ c # LF
      <4>1. ~ Breaks(rows[n], c)
        BY <1>5, <2>2
      <4>2. c # LF
        BY <4>1 DEF Breaks
      <4>3. QED
        BY <1>3, <1>4, <4>1, <4>2
    <3>2. u[n] = Append(rows[n], c)
      <4>1. n \in 1..Len(u) /\ n + d = n
        BY <3>1
      <4>2. u[n] = Full(rows[n], c)
        BY <1>4, <4>1
      <4>3. QED
        BY <3>1, <4>2 DEF Full
    <3>3. c \in Letter /\ rows[n] \in Seq(Letter)
      BY <1>1, <3>1, TextIs
    <3>4. Len(Append(rows[n], c)) = l + 1
      BY <1>2, <3>3, AppendProperties
    <3>5. QED
      BY <2>2, <3>1, <3>2, <3>4 DEF Last1
  <2>3. QED
    BY <2>1, <2>2
<1>7. ASSUME c # LF
      PROVE  End(u) = End(rows) + 1 - Row(d)
  <2>1. End(rows) = Row(n - 1) + l /\ End(u) = Row(Len(u) - 1) + Last1(u)
    BY <1>1, <1>2, <1>4, TextIs
  <2>2. PICK p \in Int : p = Row(n - 1)
    <3>1. n - 1 \in Int
      OBVIOUS
    <3>2. QED
      BY <3>1, RowNext
  <2>3. Row(n) = p + NUM_COLS
    BY <1>1, <2>2, RowNext
  <2>4. Row(d) = IF d = 0 THEN 0 ELSE NUM_COLS
    <3>1. Row(0 + 1) = Row(0) + NUM_COLS
      BY RowNext
    <3>2. QED
      BY <3>1, RowNext, Screen
  <2>5. CASE ~ b
    <3>1. d = 0 /\ Len(u) = n
      BY <1>3, <1>4, <1>5, <2>5
    <3>2. QED
      BY <1>6, <2>1, <2>2, <2>4, <2>5, <3>1, <1>2 DEF Cols
  <2>6. CASE b
    <3>1. l + 1 = NUM_COLS
      BY <1>2, <1>5, <1>7, <2>6 DEF Breaks
    <3>2. CASE d = 0
      <4>1. Len(u) - 1 = n
        BY <1>1, <1>4, <1>5, <2>6, <3>2
      <4>2. QED
        BY <1>6, <2>1, <2>2, <2>3, <2>4, <2>6, <3>1, <3>2, <4>1, Screen, <1>2 DEF Cols
    <3>3. CASE d = 1
      <4>1. Len(u) - 1 = n - 1
        BY <1>1, <1>4, <1>5, <2>6, <3>3
      <4>2. QED
        BY <1>6, <2>1, <2>2, <2>4, <2>6, <3>1, <3>3, <4>1, Screen, <1>2 DEF Cols
    <3>4. QED
      BY <3>2, <3>3
  <2>7. QED
    BY <2>5, <2>6
<1>8. QED
  BY <1>1, <1>2, <1>3, <1>4, <1>5, <1>6, <1>7

-----------------------------------------------------------------------------
(* What has been typed since the line began: the last E characters, none   *)
(* of which has left the screen.                                           *)
Trail(rows, tr, E) ==
  /\ E <= End(rows)
  /\ \A k \in 1..E : \A a \in Rows, j \in Cols :
       Row(a) + j = End(rows) - E + k - 1 => Filled(rows, a, j) /\ rows[a+1][j+1] = tr[k]

LEMMA TrailGrows ==
  ASSUME NEW rows, Text(rows), NEW c \in Letter, NEW tr, NEW E \in Nat, Trail(rows, tr, E),
         tr[E + 1] = c, E + 1 <= Row(NUM_ROWS - 1)
  PROVE  Trail(Say(rows, c), tr, E + 1)
<1>1. PICK u : u = Say(rows, c) /\ Says(u, rows, c)
  BY SayIs
<1>2. Changes(u, rows, c, Lost(rows, c))
  BY <1>1, SayChanges
<1>3. PICK n \in 1..NUM_ROWS : n = Len(rows)
  BY TextIs
<1>4. PICK d \in 0..1 : d = Lost(rows, c) /\ (d = 1 => n = NUM_ROWS /\ Breaks(rows[n], c))
  BY <1>3 DEF Lost
<1>5. PICK l \in Cols : l = Last1(rows)
  BY TextIs
<1>6. c # LF
  BY DEF Letter
<1>7. PICK p \in Int, e \in Int : p = Row(n - 1) /\ e = End(rows) /\ e = p + l
  <2>1. n - 1 \in Int
    OBVIOUS
  <2>2. PICK p \in Int : p = Row(n - 1)
    BY <2>1, RowNext
  <2>3. End(rows) = p + l /\ p + l \in Int
    BY <1>3, <1>5, <2>2, TextIs DEF Cols
  <2>4. QED
    BY <2>2, <2>3
<1>8. PICK r \in Int : r = Row(d)
  BY RowNext
<1>9. End(u) = e + 1 - r
  BY <1>1, <1>4, <1>6, <1>7, <1>8, SayEnd
<1>10. r = IF d = 0 THEN 0 ELSE NUM_COLS
  <2>1. Row(0 + 1) = Row(0) + NUM_COLS
    BY RowNext
  <2>2. QED
    BY <1>8, <2>1, RowNext, Screen
<1>11. E + 1 <= e + 1 - r
  <2>1. CASE d = 0
    BY <1>7, <1>10, <2>1 DEF Trail
  <2>2. CASE d = 1
    <3>1. n = NUM_ROWS /\ Breaks(rows[n], c)
      BY <1>4, <2>2
    <3>2. l + 1 = NUM_COLS
      BY <1>3, <1>5, <1>6, <3>1 DEF Breaks, Last1
    <3>3. E + 1 <= p
      BY <1>7, <3>1
    <3>4. QED
      BY <1>7, <1>10, <2>2, <3>2, <3>3, Screen DEF Cols
  <2>3. QED
    BY <2>1, <2>2
<1>12. ASSUME NEW k \in 1..E+1, NEW a \in Rows, NEW j \in Cols, Row(a) + j = End(u) - (E + 1) + k - 1
       PROVE  Filled(u, a, j) /\ u[a+1][j+1] = tr[k]
  <2>1. PICK q \in Int : q = Row(a)
    BY RowNext DEF Rows
  <2>2. Row(a + d) = q + r
    <3>1. CASE d = 0
      BY <1>10, <2>1, <3>1 DEF Rows
    <3>2. CASE d = 1
      <4>1. Row(a + 1) = Row(a) + NUM_COLS
        BY RowNext DEF Rows
      <4>2. QED
        BY <1>10, <2>1, <3>2, <4>1
    <3>3. QED
      BY <3>1, <3>2
  <2>3. Row(a + d) + j = e - E + k - 1
    BY <1>8, <1>9, <1>12, <2>1, <2>2 DEF Cols
  <2>4. a + d \in Int /\ j \in 0..NUM_COLS-1 /\ l \in 0..NUM_COLS-1
    BY DEF Rows, Cols
  <2>5. /\ Filled(u, a, j) <=> Filled(rows, a + d, j) \/ Added(rows, c, a + d, j)
        /\ TextAt(u, a, j) = IF Added(rows, c, a + d, j) THEN c ELSE TextAt(rows, a + d, j)
    BY <1>2, <1>4 DEF Changes
  <2>6. CASE k = E + 1
    <3>1. Row(a + d) + j = Row(n - 1) + l
      BY <1>7, <2>3, <2>6
    <3>2. a + d = n - 1 /\ j = l
      BY <1>3, <2>4, <3>1, Same
    <3>3. Added(rows, c, a + d, j)
      BY <1>3, <1>5, <1>6, <3>2 DEF Added
    <3>4. QED
      BY <2>5, <2>6, <3>3 DEF TextAt
  <2>7. CASE k # E + 1
    <3>1. k \in 1..E
      BY <2>7
    <3>2. a + d \in Rows
      <4>1. a + d # NUM_ROWS
        <5>1. CASE a + d = NUM_ROWS
          <6>1. Row(n - 1) < Row(NUM_ROWS)
            <7>1. n - 1 < NUM_ROWS /\ n - 1 \in Int /\ NUM_ROWS \in Int
              BY <1>3, Screen
            <7>2. Row(n - 1) + NUM_COLS <= Row(NUM_ROWS)
              BY <7>1, RowsApart
            <7>3. QED
              BY <7>1, <7>2, RowNext, Screen
          <6>2. Row(n - 1) + NUM_COLS <= Row(NUM_ROWS)
            BY <1>3, Screen, RowsApart
          <6>3. QED
            BY <1>7, <2>3, <3>1, <5>1, <6>2, Screen, RowNext DEF Cols
        <5>2. QED
          BY <5>1
      <4>2. QED
        BY <4>1, Screen DEF Rows
    <3>3. Filled(rows, a + d, j) /\ rows[a+d+1][j+1] = tr[k]
      BY <1>7, <2>3, <3>1, <3>2 DEF Trail
    <3>4. ~ Added(rows, c, a + d, j)
      <4>1. CASE Added(rows, c, a + d, j)
        <5>1. a + d = n - 1 /\ j = l
          BY <1>3, <1>5, <4>1 DEF Added
        <5>2. QED
          BY <1>7, <2>3, <3>1, <5>1
      <4>2. QED
        BY <4>1
    <3>5. Filled(u, a, j) /\ TextAt(u, a, j) = TextAt(rows, a + d, j)
      BY <2>5, <3>3, <3>4
    <3>6. QED
      BY <3>3, <3>5 DEF TextAt
  <2>8. QED
    BY <2>6, <2>7
<1>13. QED
  BY <1>1, <1>9, <1>11, <1>12 DEF Trail

-----------------------------------------------------------------------------
(* The last place of a text, which a backspace takes back.                 *)
Behind(rows, a, j) ==
  /\ Row(a) + j = End(rows) - 1 /\ Filled(rows, a, j)
  /\ a + 1 = LastRow(rows) /\ j + 1 = Len(rows[a+1])

TrailEndsAt(rows, a, j, x) == Behind(rows, a, j) /\ rows[a+1][j+1] = x

LEMMA TrailEnds ==
  ASSUME NEW rows, Text(rows), NEW tr, NEW E \in Nat \ {0}, Trail(rows, tr, E)
  PROVE  \E a \in Rows, j \in Cols : TrailEndsAt(rows, a, j, tr[E])
<1>1. PICK n \in 1..NUM_ROWS : n = Len(rows)
  BY TextIs
<1>2. PICK l \in Cols : l = Last1(rows) /\ l = Len(rows[n])
  BY <1>1, TextIs DEF Last1
<1>3. PICK p \in Int, e \in Int : p = Row(n - 1) /\ e = End(rows) /\ e = p + l
  <2>1. n - 1 \in Int
    OBVIOUS
  <2>2. PICK p \in Int : p = Row(n - 1)
    BY <2>1, RowNext
  <2>3. End(rows) = p + l
    BY <1>1, <1>2, <2>2, TextIs
  <2>4. p + l \in Int
    BY Screen DEF Cols
  <2>5. QED
    BY <2>2, <2>3, <2>4
<1>4. /\ E <= e
      /\ \A a \in Rows, j \in Cols :
           Row(a) + j = e - 1 => Filled(rows, a, j) /\ rows[a+1][j+1] = tr[E]
  <2>1. E \in 1..E /\ e - E + E - 1 = e - 1
    BY <1>3
  <2>2. QED
    BY <1>3, <2>1 DEF Trail
<1>5. CASE l > 0
  <2>1. PICK a \in Rows, j \in Cols : a = n - 1 /\ j = l - 1
    <3>1. n - 1 \in Rows
      BY <1>1, Screen DEF Rows
    <3>2. l - 1 \in Cols
      BY <1>2, <1>5, Screen DEF Cols
    <3>3. QED
      BY <3>1, <3>2
  <2>2. Row(a) + j = e - 1
    BY <1>3, <2>1 DEF Cols
  <2>3. a + 1 = n /\ j + 1 = l
    BY <1>1, <1>2, <2>1 DEF Cols
  <2>4. LastRow(rows) = n
    BY <1>1, <1>2, <1>5 DEF LastRow
  <2>5. QED
    BY <1>2, <1>3, <1>4, <2>2, <2>3, <2>4 DEF Behind, TrailEndsAt
<1>6. CASE l = 0
  <2>1. n - 1 # 0
    BY <1>3, <1>4, <1>6, RowNext
  <2>2. PICK a \in Rows, j \in Cols : a = n - 2 /\ j = NUM_COLS - 1
    BY <1>1, <2>1, Screen DEF Rows, Cols
  <2>3. Row(a) + NUM_COLS = p
    <3>1. n - 1 \in Int /\ n - 1 - 1 = a
      BY <2>2
    <3>2. Row(n - 1 - 1) = p - NUM_COLS
      BY <1>3, <3>1, RowNext
    <3>3. QED
      BY <1>3, <3>1, <3>2, Screen
  <2>4. Row(a) + j = e - 1
    <3>1. PICK q \in Int : q = Row(a)
      BY RowNext DEF Rows
    <3>2. QED
      BY <1>3, <1>6, <2>2, <2>3, <3>1, Screen
  <2>5. Filled(rows, a, j) /\ rows[a+1][j+1] = tr[E]
    BY <1>4, <2>4
  <2>6. a + 1 \in 1..n /\ a + 1 = n - 1
    BY <1>1, <2>1, <2>2 DEF Rows
  <2>7. j + 1 = Len(rows[a+1])
    <3>1. Len(rows[a+1]) \in 0..NUM_COLS
      BY <1>1, <2>6, TextIs
    <3>2. j < Len(rows[a+1])
      BY <2>5 DEF Filled
    <3>3. QED
      BY <2>2, <3>1, <3>2, Screen
  <2>8. LastRow(rows) = n - 1
    BY <1>1, <1>2, <1>6 DEF LastRow
  <2>9. QED
    BY <1>3, <2>4, <2>5, <2>6, <2>7, <2>8 DEF Behind, TrailEndsAt
<1>7. QED
  BY <1>2, <1>5, <1>6, Screen DEF Cols

Removes(u, rows, a, j) ==
  /\ Text(u) /\ Len(u) = a + 1 /\ Last1(u) = j /\ End(u) = Row(a) + j
  /\ \A b \in Rows, i \in Cols :
       /\ Filled(u, b, i) <=> Filled(rows, b, i) /\ ~ (b = a /\ i = j)
       /\ TextAt(u, b, i) = IF b = a /\ i = j THEN Blank ELSE TextAt(rows, b, i)

LEMMA UnsayRemoves ==
  ASSUME NEW rows, Text(rows), NEW a \in Rows, NEW j \in Cols, Behind(rows, a, j)
  PROVE  Removes(Unsay(rows), rows, a, j)
<1>1. PICK n \in 1..NUM_ROWS : n = Len(rows)
  BY TextIs
<1>2. a \in Nat /\ j \in Nat
  BY Screen DEF Rows, Cols
<1>3. LastRow(rows) = a + 1 /\ Len(rows[a+1]) = j + 1
  BY DEF Behind
<1>4. PICK u : u = Unsay(rows) /\ Unsays(u, rows)
  <2>1. LastRow(rows) > 0 /\ Len(rows[LastRow(rows)]) > 0
    BY <1>2, <1>3
  <2>2. QED
    BY <2>1, UnsayIs
<1>5. /\ Text(u) /\ Len(u) = a + 1 /\ \A i \in 1..a : u[i] = rows[i]
      /\ Len(u[a+1]) = j /\ \A i \in 1..j : u[a+1][i] = rows[a+1][i]
  <2>1. Len(rows[a+1]) - 1 = j /\ (a + 1) - 1 = a
    BY <1>2, <1>3
  <2>2. QED
    BY <1>3, <1>4, <2>1 DEF Unsays
<1>6. Last1(u) = j
  BY <1>5 DEF Last1
<1>7. End(u) = Row(a) + j
  <2>1. (a + 1) - 1 = a
    BY <1>2
  <2>2. QED
    BY <1>5, <1>6, <2>1, TextIs
<1>8. (n = a + 1) \/ (n = a + 2 /\ Len(rows[n]) = 0)
  BY <1>1, <1>2, <1>3 DEF LastRow
<1>9. ASSUME NEW b \in Rows, NEW i \in Cols
      PROVE  /\ Filled(u, b, i) <=> Filled(rows, b, i) /\ ~ (b = a /\ i = j)
             /\ TextAt(u, b, i) = IF b = a /\ i = j THEN Blank ELSE TextAt(rows, b, i)
  <2>1. b \in Nat /\ i \in Nat
    BY Screen DEF Rows, Cols
  <2>2. CASE b < a
    <3>1. b + 1 \in 1..a /\ b < n /\ b < a + 1 /\ b # a
      BY <1>1, <1>2, <1>8, <2>1, <2>2
    <3>2. u[b+1] = rows[b+1]
      BY <1>5, <3>1
    <3>3. Filled(u, b, i) <=> Filled(rows, b, i)
      BY <1>1, <1>5, <3>1, <3>2 DEF Filled
    <3>4. QED
      BY <3>1, <3>2, <3>3 DEF TextAt
  <2>3. CASE b = a
    <3>1. b < n /\ b < a + 1
      BY <1>1, <1>2, <1>8, <2>3
    <3>2. /\ Filled(u, b, i) <=> i < j
          /\ Filled(rows, b, i) <=> i < j + 1
      BY <1>1, <1>3, <1>5, <2>3, <3>1 DEF Filled
    <3>3. i < j => i + 1 \in 1..j
      BY <1>2, <2>1
    <3>4. i < j => u[b+1][i+1] = rows[b+1][i+1]
      BY <1>5, <2>3, <3>3
    <3>5. i < j + 1 <=> i < j \/ i = j
      BY <1>2, <2>1
    <3>6. ~ (i < j /\ i = j)
      BY <1>2, <2>1
    <3>7. QED
      BY <2>3, <3>2, <3>4, <3>5, <3>6 DEF TextAt
  <2>4. CASE b > a
    <3>1. ~ Filled(u, b, i)
      BY <1>2, <1>5, <2>1, <2>4 DEF Filled
    <3>2. ~ Filled(rows, b, i)
      <4>1. CASE b < n
        <5>1. b + 1 = n /\ Len(rows[n]) = 0
          BY <1>1, <1>2, <1>8, <2>1, <2>4, <4>1
        <5>2. QED
          BY <2>1, <5>1 DEF Filled
      <4>2. CASE ~ (b < n)
        BY <1>1, <4>2 DEF Filled
      <4>3. QED
        BY <4>1, <4>2
    <3>3. b # a
      BY <1>2, <2>1, <2>4
    <3>4. QED
      BY <3>1, <3>2, <3>3 DEF TextAt
  <2>5. QED
    BY <1>2, <2>1, <2>2, <2>3, <2>4
<1>10. QED
  BY <1>4, <1>5, <1>6, <1>7, <1>9 DEF Removes

LEMMA TrailShrinks ==
  ASSUME NEW rows, Text(rows), NEW tr, NEW E \in Nat \ {0}, Trail(rows, tr, E),
         NEW a \in Rows, NEW j \in Cols, Behind(rows, a, j)
  PROVE  Trail(Unsay(rows), tr, E - 1)
<1>1. PICK u : u = Unsay(rows) /\ Removes(u, rows, a, j)
  BY UnsayRemoves
<1>2. PICK e \in Int : e = End(rows)
  <2>1. Row(Len(rows) - 1) \in Int /\ Last1(rows) \in Int
    <3>1. Len(rows) - 1 \in Int
      BY TextIs
    <3>2. QED
      BY <3>1, RowNext, TextIs DEF Cols
  <2>2. Row(Len(rows) - 1) + Last1(rows) \in Int
    BY <2>1
  <2>3. QED
    BY <2>2, TextIs
<1>3. End(u) = e - 1 /\ Row(a) + j = e - 1
  BY <1>1, <1>2 DEF Removes, Behind
<1>4. E - 1 <= e - 1
  BY <1>2 DEF Trail
<1>5. ASSUME NEW k \in 1..E-1, NEW b \in Rows, NEW i \in Cols, Row(b) + i = (e - 1) - (E - 1) + k - 1
      PROVE  Filled(u, b, i) /\ u[b+1][i+1] = tr[k]
  <2>1. k \in 1..E /\ Row(b) + i = e - E + k - 1
    BY <1>2, <1>5
  <2>2. Filled(rows, b, i) /\ rows[b+1][i+1] = tr[k]
    BY <1>2, <2>1 DEF Trail
  <2>3. ~ (b = a /\ i = j)
    BY <1>2, <1>3, <2>1
  <2>4. Filled(u, b, i) /\ TextAt(u, b, i) = TextAt(rows, b, i)
    BY <1>1, <2>2, <2>3 DEF Removes
  <2>5. QED
    BY <2>2, <2>4 DEF TextAt
<1>6. QED
  BY <1>1, <1>3, <1>4, <1>5 DEF Trail

-----------------------------------------------------------------------------
(* The console, with the text that is on the screen.                       *)
Glyph    == Char \cup {"?", NUL, Blank}
Memories == [Cells -> Glyph]
Pages    == [0..Terms -> Memories]
Consoles == [pages : Pages, x : Cols, y : Rows, pos : Cells]

ShowsRows(mem, rows) == \A a \in Rows, j \in Cols : Seen(mem[Row(a) + j]) = TextAt(rows, a, j)

OnScreen(k, rows) ==
  /\ k \in Consoles /\ Text(rows) /\ ShowsRows(k.pages[0], rows)
  /\ k.y = Len(rows) - 1 /\ k.x = Last1(rows)

Wrote(u, k, rows) ==
  /\ OnScreen(u, rows) /\ u.pos = Place(u)
  /\ \A v \in 1..Terms : u.pages[v] = k.pages[v]

LEMMA Characters ==
  /\ Blank \in Letter /\ "t" \in Letter /\ LF \notin Letter /\ NUL \notin Letter /\ LF # NUL
  /\ Letter \subseteq Char /\ Letter \subseteq Glyph
BY DEF Letter, Char, Blank, LF, NUL, Glyph

LEMMA CellOf ==
  ASSUME NEW a \in Rows, NEW j \in Cols
  PROVE  /\ Row(a) + j \in Cells /\ Row(a) + j \in Int
         /\ (Row(a) + j) \div NUM_COLS = a /\ (Row(a) + j) % NUM_COLS = j
<1>1. a \in Int /\ j \in 0..NUM_COLS-1 /\ a \in 0..NUM_ROWS-1
  BY DEF Rows, Cols
<1>2. /\ Row(a) + j \in Cells
      /\ (Row(a) + j) \div NUM_COLS = a /\ (Row(a) + j) % NUM_COLS = j
  BY <1>1, CellIs
<1>3. QED
  BY <1>1, <1>2, RowNext

LEMMA Placed ==
  ASSUME NEW k \in Consoles
  PROVE  /\ Place(k) = Row(k.y) + k.x /\ Place(k) \in Cells
         /\ \A a \in Rows, j \in Cols : Row(a) + j = Place(k) <=> a = k.y /\ j = k.x
<1>1. k.y \in Rows /\ k.x \in Cols
  BY DEF Consoles
<1>2. Place(k) = Row(k.y) + k.x
  BY DEF Place, Row
<1>3. ASSUME NEW a \in Rows, NEW j \in Cols
      PROVE  Row(a) + j = Row(k.y) + k.x <=> a = k.y /\ j = k.x
  <2>1. a \in Int /\ k.y \in Int /\ j \in 0..NUM_COLS-1 /\ k.x \in 0..NUM_COLS-1
    BY <1>1 DEF Rows, Cols
  <2>2. QED
    BY <2>1, Same
<1>4. QED
  BY <1>1, <1>2, <1>3, CellOf

LEMMA Scrolled ==
  ASSUME NEW mem \in Memories
  PROVE  /\ ScrollDown(mem) \in Memories
         /\ \A a \in Rows, j \in Cols :
              ScrollDown(mem)[Row(a) + j] = IF a + 1 \in Rows THEN mem[Row(a + 1) + j] ELSE Blank
<1>1. ScrollDown(mem) \in Memories
  BY DEF ScrollDown, Memories, Glyph
<1>2. ASSUME NEW a \in Rows, NEW j \in Cols
      PROVE  ScrollDown(mem)[Row(a) + j] = IF a + 1 \in Rows THEN mem[Row(a + 1) + j] ELSE Blank
  <2>1. PICK q \in Int : q = Row(a) /\ Row(a + 1) = q + NUM_COLS
    BY RowNext DEF Rows
  <2>2. Row(a) + j \in Cells
    BY CellOf
  <2>3. Row(a) + j + NUM_COLS = Row(a + 1) + j
    BY <2>1, Screen DEF Cols
  <2>4. Row(a + 1) + j \in Cells <=> a + 1 \in Rows
    <3>1. a + 1 \in Int /\ j \in 0..NUM_COLS-1
      BY DEF Rows, Cols
    <3>2. QED
      BY <3>1, CellIs DEF Rows
  <2>5. QED
    BY <2>2, <2>3, <2>4 DEF ScrollDown
<1>3. QED
  BY <1>1, <1>2

(* What putc makes of the console, but for the backspace.                  *)
Overwritten(k, c) == IF c = LF THEN k.pages[0] ELSE [k.pages[0] EXCEPT ![Place(k)] = c]
Wraps(k, c)       == c = LF \/ k.x + 1 = NUM_COLS
Scrolls(k, c)     == Wraps(k, c) /\ k.y + 1 = NUM_ROWS

PutcIs(u, k, c) ==
  /\ u \in Consoles /\ u.pos = Place(u)
  /\ u.x = IF Wraps(k, c) THEN 0 ELSE k.x + 1
  /\ u.y = IF Wraps(k, c) /\ ~ Scrolls(k, c) THEN k.y + 1 ELSE k.y
  /\ u.pages[0] = IF Scrolls(k, c) THEN ScrollDown(Overwritten(k, c)) ELSE Overwritten(k, c)
  /\ \A v \in 1..Terms : u.pages[v] = k.pages[v]

(* A console between the steps of putc may be one row below the screen.    *)
Below == [pages : Pages, x : Cols, y : 0..NUM_ROWS, pos : Cells]

SettledIs(u, k) ==
  /\ u \in Consoles /\ u.x = k.x
  /\ u.y = IF k.y = NUM_ROWS THEN NUM_ROWS - 1 ELSE k.y
  /\ u.pages[0] = IF k.y = NUM_ROWS THEN ScrollDown(k.pages[0]) ELSE k.pages[0]
  /\ \A v \in 1..Terms : u.pages[v] = k.pages[v]

LEMMA PageWritten ==
  ASSUME NEW pg \in Pages, NEW mem \in Memories
  PROVE  /\ [pg EXCEPT ![0] = mem] \in Pages /\ [pg EXCEPT ![0] = mem][0] = mem
         /\ \A v \in 1..Terms : [pg EXCEPT ![0] = mem][v] = pg[v]
<1>1. 0 \in 0..Terms /\ \A v \in 1..Terms : v \in 0..Terms /\ v # 0
  BY Screen
<1>2. QED
  BY <1>1 DEF Pages

LEMMA Settles ==
  ASSUME NEW k \in Below
  PROVE  SettledIs(Settled(k), k)
<1>1. k.pages \in Pages /\ k.pages[0] \in Memories /\ 0 \in 0..Terms /\ k.x \in Cols /\ k.pos \in Cells
  BY Screen DEF Below, Pages
<1>2. CASE k.y = NUM_ROWS
  <2>1. NUM_ROWS - 1 \in Rows
    BY Screen DEF Rows
  <2> DEFINE pg == [k.pages EXCEPT ![0] = ScrollDown(k.pages[0])]
             u  == [pages |-> pg, x |-> k.x, y |-> NUM_ROWS - 1, pos |-> k.pos]
  <2>2. pg \in Pages /\ pg[0] = ScrollDown(k.pages[0]) /\ \A v \in 1..Terms : pg[v] = k.pages[v]
    BY <1>1, Scrolled, PageWritten
  <2>3. Settled(k) = u
    BY <1>2 DEF Settled, Below
  <2>4. u \in Consoles /\ u.pages = pg /\ u.x = k.x /\ u.y = NUM_ROWS - 1
    BY <1>1, <2>1, <2>2 DEF Consoles
  <2> HIDE DEF u, pg
  <2>5. QED
    BY <1>2, <2>2, <2>3, <2>4 DEF SettledIs
<1>3. CASE k.y # NUM_ROWS
  <2>1. k.y \in Rows
    BY <1>3, Screen DEF Below, Rows
  <2>2. k \in Consoles
    BY <2>1 DEF Below, Consoles
  <2>3. Settled(k) = k
    BY <1>3 DEF Settled
  <2>4. QED
    BY <1>3, <2>2, <2>3 DEF SettledIs
<1>4. QED
  BY <1>2, <1>3

LEMMA CursoredIs ==
  ASSUME NEW k \in Consoles
  PROVE  /\ Cursored(k) \in Consoles /\ Cursored(k).pages = k.pages
         /\ Cursored(k).x = k.x /\ Cursored(k).y = k.y /\ Cursored(k).pos = Place(k)
<1>1. Place(k) \in Cells
  BY Placed
<1>2. QED
  BY <1>1 DEF Cursored, Consoles

LEMMA PutcDoes ==
  ASSUME NEW k \in Consoles, NEW c \in Letter \cup {LF}
  PROVE  PutcIs(Putc(k, c), k, c)
<1>1. /\ k.pages \in Pages /\ k.pages[0] \in Memories /\ 0 \in 0..Terms /\ k.x \in Cols
      /\ k.y \in Rows /\ k.pos \in Cells
  BY Screen DEF Consoles, Pages
<1>2. CASE c = LF
  <2>1. PICK w : w = [k EXCEPT !.y = k.y + 1]
    OBVIOUS
  <2>2. w \in Below /\ w.pages = k.pages /\ w.y = k.y + 1
    <3>1. k.y + 1 \in 0..NUM_ROWS
      BY <1>1, Screen DEF Rows
    <3>2. QED
      BY <2>1, <3>1 DEF Consoles, Below
  <2>3. PICK z : z = Settled(w) /\ SettledIs(z, w)
    BY <2>2, Settles
  <2>4. PICK r : r = [z EXCEPT !.x = 0]
    OBVIOUS
  <2>5. r \in Consoles /\ r.pages = z.pages /\ r.x = 0 /\ r.y = z.y
    <3>1. 0 \in Cols
      BY Screen DEF Cols
    <3>2. z \in Consoles
      BY <2>3 DEF SettledIs
    <3>3. QED
      BY <2>4, <3>1, <3>2 DEF Consoles
  <2>6. Putc(k, c) = Cursored(r)
    <3>1. Putc(k, c) = NewRow(k)
      BY <1>2, Characters DEF Putc, Emit
    <3>2. NewRow(k) = Cursored(r)
      BY <2>1, <2>3, <2>4 DEF NewRow
    <3>3. QED
      BY <3>1, <3>2
  <2>7. PICK u : u = Cursored(r) /\ u \in Consoles /\ u.pages = r.pages /\ u.x = r.x /\ u.y = r.y
                 /\ u.pos = Place(r)
    BY <2>5, CursoredIs
  <2>8. Place(u) = Place(r)
    BY <2>7 DEF Place
  <2>9. Overwritten(k, c) = k.pages[0] /\ Wraps(k, c) /\ (Scrolls(k, c) <=> k.y + 1 = NUM_ROWS)
    BY <1>2 DEF Overwritten, Wraps, Scrolls
  <2>10. u.y = IF Wraps(k, c) /\ ~ Scrolls(k, c) THEN k.y + 1 ELSE k.y
    <3>1. u.y = IF k.y + 1 = NUM_ROWS THEN NUM_ROWS - 1 ELSE k.y + 1
      BY <2>2, <2>3, <2>5, <2>7 DEF SettledIs
    <3>2. QED
      BY <1>1, <2>9, <3>1, Screen DEF Rows
  <2>11. u.pages = z.pages
    BY <2>5, <2>7
  <2>12. u.pages[0] = IF Scrolls(k, c) THEN ScrollDown(Overwritten(k, c)) ELSE Overwritten(k, c)
    BY <2>2, <2>3, <2>9, <2>11 DEF SettledIs
  <2>13. \A v \in 1..Terms : u.pages[v] = k.pages[v]
    BY <2>2, <2>3, <2>11 DEF SettledIs
  <2>14. QED
    BY <2>5, <2>6, <2>7, <2>8, <2>9, <2>10, <2>12, <2>13 DEF PutcIs
<1>3. CASE c # LF
  <2>1. c \in Glyph /\ c # NUL
    BY <1>3, Characters
  <2>2. PICK p \in Cells : p = Place(k)
    BY Placed
  <2>3. PICK mem \in Memories : mem = Overwritten(k, c) /\ mem = [k.pages[0] EXCEPT ![p] = c]
    BY <1>1, <1>3, <2>1, <2>2 DEF Overwritten, Memories
  <2>4. PICK pg \in Pages : pg = [k.pages EXCEPT ![0] = mem] /\ pg[0] = mem
                            /\ \A v \in 1..Terms : pg[v] = k.pages[v]
    <3>1. PICK pg : pg = [k.pages EXCEPT ![0] = mem]
      OBVIOUS
    <3>2. pg \in Pages /\ pg[0] = mem /\ \A v \in 1..Terms : pg[v] = k.pages[v]
      BY <1>1, <3>1, PageWritten
    <3>3. QED
      BY <3>1, <3>2
  <2>5. PICK x \in Cols, y \in 0..NUM_ROWS :
             /\ x = (k.x + 1) % NUM_COLS /\ y = k.y + ((k.x + 1) \div NUM_COLS)
             /\ x = (IF k.x + 1 = NUM_COLS THEN 0 ELSE k.x + 1)
             /\ y = (IF k.x + 1 = NUM_COLS THEN k.y + 1 ELSE k.y)
    <3>1. PICK C \in Nat \ {0} : C = NUM_COLS
      BY Screen
    <3>2. k.x \in 0..C-1
      BY <1>1, <3>1 DEF Cols
    <3>3. CASE k.x + 1 = C
      <4>1. 0 \in 0..C-1 /\ 1 \in Int
        BY <3>1
      <4>2. (1 * C + 0) \div C = 1 /\ (1 * C + 0) % C = 0
        BY <4>1, <3>1, InRow
      <4>3. 1 * C + 0 = k.x + 1
        BY <3>3, <3>1
      <4>4. (k.x + 1) \div C = 1 /\ (k.x + 1) % C = 0
        BY <4>2, <4>3
      <4>5. k.y + 1 \in 0..NUM_ROWS /\ 0 \in Cols
        BY <1>1, Screen DEF Rows, Cols
      <4>6. QED
        BY <3>1, <3>3, <4>4, <4>5
    <3>4. CASE k.x + 1 # C
      <4>1. k.x + 1 \in 0..C-1 /\ 0 \in Int
        BY <3>1, <3>2, <3>4
      <4>2. (0 * C + (k.x + 1)) \div C = 0 /\ (0 * C + (k.x + 1)) % C = k.x + 1
        BY <4>1, <3>1, InRow
      <4>3. 0 * C + (k.x + 1) = k.x + 1
        BY <3>1, <3>2
      <4>4. (k.x + 1) \div C = 0 /\ (k.x + 1) % C = k.x + 1
        BY <4>2, <4>3
      <4>5. k.y + 0 = k.y /\ k.y \in 0..NUM_ROWS /\ k.x + 1 \in Cols
        BY <1>1, <3>1, <4>1, Screen DEF Rows, Cols
      <4>6. QED
        BY <3>1, <3>4, <4>4, <4>5
    <3>5. QED
      BY <3>3, <3>4
  <2>6. PICK w : w = [k EXCEPT !.pages[0][Place(k)] = c,
                               !.x = (k.x + 1) % NUM_COLS,
                               !.y = @ + ((k.x + 1) \div NUM_COLS)]
    OBVIOUS
  <2>7. w \in Below /\ w.pages = pg /\ w.y = y /\ w.x = x
    <3>1. w = [pages |-> pg, x |-> x, y |-> y, pos |-> k.pos]
      BY <2>2, <2>3, <2>4, <2>5, <2>6 DEF Consoles
    <3>2. QED
      BY <1>1, <3>1 DEF Below
  <2>8. PICK z : z = Settled(w) /\ SettledIs(z, w)
    BY <2>7, Settles
  <2>9. z \in Consoles
    BY <2>8 DEF SettledIs
  <2>10. Putc(k, c) = Cursored(z)
    <3>1. Putc(k, c) = Shown(k, 0, c)
      BY <1>3, <2>1 DEF Putc, Emit
    <3>2. Shown(k, 0, c) = Cursored(z)
      BY <2>6, <2>8 DEF Shown
    <3>3. QED
      BY <3>1, <3>2
  <2>11. PICK u : u = Cursored(z) /\ u \in Consoles /\ u.pages = z.pages /\ u.x = z.x /\ u.y = z.y
                  /\ u.pos = Place(z)
    BY <2>9, CursoredIs
  <2>12. Place(u) = Place(z)
    BY <2>11 DEF Place
  <2>13. (Wraps(k, c) <=> k.x + 1 = NUM_COLS) /\ (Scrolls(k, c) <=> y = NUM_ROWS)
    <3>1. k.y < NUM_ROWS
      BY <1>1, Screen DEF Rows
    <3>2. QED
      BY <1>3, <2>5, <3>1, Screen DEF Wraps, Scrolls
  <2>14. u.x = IF Wraps(k, c) THEN 0 ELSE k.x + 1
    BY <2>5, <2>7, <2>8, <2>11, <2>13 DEF SettledIs
  <2>15. u.y = IF Wraps(k, c) /\ ~ Scrolls(k, c) THEN k.y + 1 ELSE k.y
    <3>1. u.y = IF y = NUM_ROWS THEN NUM_ROWS - 1 ELSE y
      BY <2>7, <2>8, <2>11 DEF SettledIs
    <3>2. QED
      BY <1>1, <2>5, <2>13, <3>1, Screen DEF Rows
  <2>16. u.pages[0] = IF Scrolls(k, c) THEN ScrollDown(Overwritten(k, c)) ELSE Overwritten(k, c)
    BY <2>3, <2>4, <2>7, <2>8, <2>11, <2>13 DEF SettledIs
  <2>17. \A v \in 1..Terms : u.pages[v] = k.pages[v]
    BY <2>4, <2>7, <2>8, <2>11 DEF SettledIs
  <2>18. QED
    BY <2>10, <2>11, <2>12, <2>14, <2>15, <2>16, <2>17 DEF PutcIs
<1>4. QED
  BY <1>2, <1>3

LEMMA EndPlace ==
  ASSUME NEW k, NEW rows, OnScreen(k, rows)
  PROVE  Place(k) = End(rows) /\ Place(k) \in Cells
<1>1. Place(k) = Row(k.y) + k.x /\ Place(k) \in Cells
  BY Placed DEF OnScreen
<1>2. End(rows) = Row(k.y) + k.x
  BY TextIs DEF OnScreen
<1>3. QED
  BY <1>1, <1>2

LEMMA PutcSays ==
  ASSUME NEW k, NEW rows, OnScreen(k, rows), NEW c \in Letter \cup {LF}
  PROVE  Wrote(Putc(k, c), k, Say(rows, c))
<1>1. PICK u : u = Putc(k, c) /\ PutcIs(u, k, c)
  BY PutcDoes DEF OnScreen
<1>2. PICK t : t = Say(rows, c) /\ Says(t, rows, c)
  BY SayIs DEF OnScreen
<1>3. Text(rows) /\ k \in Consoles /\ ShowsRows(k.pages[0], rows) /\ Text(t)
  BY <1>2 DEF OnScreen, Says
<1>4. PICK n \in 1..NUM_ROWS : n = Len(rows) /\ k.y = n - 1
  BY <1>3, TextIs DEF OnScreen
<1>5. k.x = Last1(rows) /\ Last1(rows) = Len(rows[n]) /\ k.x \in Cols /\ k.y \in Rows
  BY <1>3, <1>4 DEF OnScreen, Last1, Consoles
<1>6. Wraps(k, c) <=> Breaks(rows[n], c)
  BY <1>5 DEF Wraps, Breaks
<1>7. PICK d \in 0..1 : d = Lost(rows, c) /\ (d = 1 <=> Scrolls(k, c))
  <2>1. Scrolls(k, c) <=> Breaks(rows[n], c) /\ n = NUM_ROWS
    BY <1>4, <1>6 DEF Scrolls
  <2>2. QED
    BY <1>4, <2>1 DEF Lost
<1>8. Changes(t, rows, c, d)
  BY <1>2, <1>3, <1>7, SayChanges
<1>9. u.y = Len(t) - 1 /\ u.x = Last1(t)
  <2>1. /\ Len(t) = IF Breaks(rows[n], c) THEN n + 1 - d ELSE n
        /\ Last1(t) = IF Breaks(rows[n], c) THEN 0 ELSE Last1(rows) + 1
    BY <1>2, <1>3, <1>4, <1>7, SayEnd
  <2>2. /\ u.x = IF Wraps(k, c) THEN 0 ELSE k.x + 1
        /\ u.y = IF Wraps(k, c) /\ ~ Scrolls(k, c) THEN k.y + 1 ELSE k.y
    BY <1>1 DEF PutcIs
  <2>3. QED
    BY <1>4, <1>5, <1>6, <1>7, <2>1, <2>2
<1>10. PICK mem \in Memories : mem = Overwritten(k, c)
  <2>1. k.pages[0] \in Memories
    BY <1>3, Screen DEF Consoles, Pages
  <2>2. CASE c = LF
    BY <2>1, <2>2 DEF Overwritten
  <2>3. CASE c # LF
    <3>1. c \in Glyph
      BY <2>3, Characters
    <3>2. [k.pages[0] EXCEPT ![Place(k)] = c] \in Memories
      BY <2>1, <3>1 DEF Memories
    <3>3. QED
      BY <2>3, <3>2 DEF Overwritten
  <2>4. QED
    BY <2>2, <2>3
<1>11. ASSUME NEW b \in Rows, NEW j \in Cols
       PROVE  mem[Row(b) + j] = IF Added(rows, c, b, j) THEN c ELSE k.pages[0][Row(b) + j]
  <2>1. Row(b) + j \in Cells
    BY CellOf
  <2>2. Row(b) + j = Place(k) <=> b = k.y /\ j = k.x
    BY <1>3, Placed
  <2>3. Added(rows, c, b, j) <=> c # LF /\ Row(b) + j = Place(k)
    BY <1>4, <1>5, <2>2 DEF Added
  <2>4. k.pages[0] \in Memories
    BY <1>3, Screen DEF Consoles, Pages
  <2>5. QED
    BY <1>10, <2>1, <2>3, <2>4 DEF Overwritten, Memories
<1>12. ASSUME NEW a \in Rows, NEW j \in Cols
       PROVE  Seen(u.pages[0][Row(a) + j]) = TextAt(t, a, j)
  <2>1. TextAt(t, a, j) = IF Added(rows, c, a + d, j) THEN c ELSE TextAt(rows, a + d, j)
    BY <1>8 DEF Changes
  <2>2. u.pages[0][Row(a) + j] = IF a + d \in Rows THEN mem[Row(a + d) + j] ELSE Blank
    <3>1. CASE d = 1
      <4>1. u.pages[0] = ScrollDown(mem)
        BY <1>1, <1>7, <1>10, <3>1 DEF PutcIs
      <4>2. QED
        BY <1>10, <3>1, <4>1, Scrolled
    <3>2. CASE d = 0
      <4>1. u.pages[0] = mem
        BY <1>1, <1>7, <1>10, <3>2 DEF PutcIs
      <4>2. a + d = a
        BY <3>2 DEF Rows
      <4>3. QED
        BY <4>1, <4>2
    <3>3. QED
      BY <3>1, <3>2
  <2>3. CASE a + d \in Rows
    <3>1. mem[Row(a + d) + j] = IF Added(rows, c, a + d, j) THEN c ELSE k.pages[0][Row(a + d) + j]
      BY <1>11, <2>3
    <3>2. Seen(k.pages[0][Row(a + d) + j]) = TextAt(rows, a + d, j)
      BY <1>3, <2>3 DEF ShowsRows
    <3>3. Added(rows, c, a + d, j) => Seen(c) = c
      BY Characters DEF Added, Seen
    <3>4. QED
      BY <2>1, <2>2, <2>3, <3>1, <3>2, <3>3
  <2>4. CASE a + d \notin Rows
    <3>1. a + d >= NUM_ROWS
      BY <2>4, Screen DEF Rows
    <3>2. ~ Added(rows, c, a + d, j) /\ ~ Filled(rows, a + d, j)
      BY <1>4, <3>1, Screen DEF Added, Filled, Rows
    <3>3. Seen(Blank) = Blank
      BY DEF Seen, Blank, NUL
    <3>4. QED
      BY <2>1, <2>2, <2>4, <3>2, <3>3 DEF TextAt
  <2>5. QED
    BY <2>3, <2>4
<1>13. ShowsRows(u.pages[0], t)
  BY <1>12 DEF ShowsRows
<1>14. OnScreen(u, t)
  BY <1>1, <1>3, <1>9, <1>13 DEF OnScreen, PutcIs
<1>15. QED
  BY <1>1, <1>2, <1>14 DEF Wrote, PutcIs

TookBack(u, k, rows, x) == Wrote(u, k, rows) /\ (x > 0 => u.x = x - 1)

LEMMA TakesBack ==
  ASSUME NEW k, NEW rows, OnScreen(k, rows), NEW a \in Rows, NEW j \in Cols, NEW x,
         TrailEndsAt(rows, a, j, x), x # ">", x # Blank \/ k.x > 0
  PROVE  TookBack(TakenBack(k, 0), k, Unsay(rows), k.x)
<1>1. k \in Consoles /\ Text(rows) /\ ShowsRows(k.pages[0], rows) /\ k.x = Last1(rows)
  BY DEF OnScreen
<1>2. PICK p \in Cells : p = Row(a) + j /\ p \div NUM_COLS = a /\ p % NUM_COLS = j
  BY CellOf
<1>3. Place(k) - 1 = p
  BY <1>2, EndPlace DEF TrailEndsAt, Behind
<1>4. Seen(k.pages[0][p]) = x
  <2>1. Seen(k.pages[0][p]) = TextAt(rows, a, j)
    BY <1>1, <1>2 DEF ShowsRows
  <2>2. QED
    BY <2>1 DEF TrailEndsAt, Behind, TextAt
<1>5. k.pages[0][p] # ">"
  BY <1>4 DEF Seen, NUL
<1>6. p \in Nat
  BY Screen DEF Cells
<1> DEFINE full == {q \in 0..p : k.pages[0][q] \notin {Blank, NUL}}
           at   == IF k.x > 0 THEN p ELSE Max(full \cup {0})
           w    == [k EXCEPT !.pages[0][at] = NUL, !.x = at % NUM_COLS, !.y = at \div NUM_COLS]
<1>7. at = p
  <2>1. CASE k.x > 0
    BY <2>1
  <2>2. CASE ~ (k.x > 0)
    <3>1. x # Blank
      BY <2>2
    <3>2. k.pages[0][p] \notin {Blank, NUL}
      BY <1>4, <3>1 DEF Seen
    <3>3. p \in full \cup {0} /\ \A y \in full \cup {0} : y \in Int /\ y <= p
      BY <1>6, <3>2
    <3> HIDE DEF full
    <3>4. p \in Int
      BY <1>6
    <3>5. Max(full \cup {0}) = p
      BY <3>3, <3>4, MaxIs
    <3>6. QED
      BY <2>2, <3>5
  <2>3. QED
    BY <2>1, <2>2
<1>8. TakenBack(k, 0) = Cursored(w)
  <2>1. ~ (k.pages[0][p] = ">")
    BY <1>5
  <2>2. QED
    BY <1>3, <2>1, Zenon DEF TakenBack
<1> HIDE DEF full, at
<1>9. PICK mem \in Memories : mem = [k.pages[0] EXCEPT ![p] = NUL]
  <2>1. k.pages[0] \in Memories
    BY <1>1, Screen DEF Consoles, Pages
  <2>2. NUL \in Glyph
    BY DEF Glyph
  <2>3. QED
    BY <2>1, <2>2 DEF Memories
<1>10. PICK pg : pg = [k.pages EXCEPT ![0] = mem]
  OBVIOUS
<1>11. pg \in Pages /\ pg[0] = mem /\ \A v \in 1..Terms : pg[v] = k.pages[v]
  BY <1>1, <1>10, PageWritten DEF Consoles
<1>12. w \in Consoles /\ w.pages = pg /\ w.x = j /\ w.y = a
  <2>1. w = [pages |-> pg, x |-> j, y |-> a, pos |-> k.pos]
    <3>1. w = [k EXCEPT !.pages[0][p] = NUL, !.x = p % NUM_COLS, !.y = p \div NUM_COLS]
      BY <1>7
    <3>2. w = [k EXCEPT !.pages[0][p] = NUL, !.x = j, !.y = a]
      BY <1>2, <3>1
    <3> HIDE DEF w
    <3>3. QED
      BY <1>1, <1>9, <1>10, <3>2 DEF Consoles
  <2>2. k.pos \in Cells
    BY <1>1 DEF Consoles
  <2> HIDE DEF w
  <2>3. QED
    BY <1>11, <2>1, <2>2 DEF Consoles
<1> HIDE DEF w
<1>13. PICK u : u = Cursored(w) /\ u \in Consoles /\ u.pages = pg /\ u.x = j /\ u.y = a
                /\ u.pos = Place(w)
  BY <1>12, CursoredIs
<1>14. Place(u) = Place(w)
  BY <1>12, <1>13 DEF Place
<1>15. PICK t : t = Unsay(rows) /\ Removes(t, rows, a, j)
  BY <1>1, UnsayRemoves DEF TrailEndsAt
<1>16. Text(t) /\ Last1(t) = j /\ Len(t) - 1 = a
  BY <1>15 DEF Removes, Rows
<1>17. ASSUME NEW b \in Rows, NEW i \in Cols
       PROVE  Seen(mem[Row(b) + i]) = TextAt(t, b, i)
  <2>1. Row(b) + i \in Cells
    BY CellOf
  <2>2. Row(b) + i = p <=> b = a /\ i = j
    <3>1. a \in Int /\ b \in Int /\ j \in 0..NUM_COLS-1 /\ i \in 0..NUM_COLS-1
      BY DEF Rows, Cols
    <3>2. QED
      BY <1>2, <3>1, Same
  <2>3. k.pages[0] \in Memories
    BY <1>1, Screen DEF Consoles, Pages
  <2>4. mem[Row(b) + i] = IF b = a /\ i = j THEN NUL ELSE k.pages[0][Row(b) + i]
    BY <1>9, <2>1, <2>2, <2>3 DEF Memories
  <2>5. Seen(k.pages[0][Row(b) + i]) = TextAt(rows, b, i)
    BY <1>1 DEF ShowsRows
  <2>6. TextAt(t, b, i) = IF b = a /\ i = j THEN Blank ELSE TextAt(rows, b, i)
    BY <1>15 DEF Removes
  <2>7. Seen(NUL) = Blank
    BY DEF Seen
  <2>8. QED
    BY <2>4, <2>5, <2>6, <2>7
<1>18. ShowsRows(mem, t)
  BY <1>17 DEF ShowsRows
<1>19. Wrote(u, k, t)
  BY <1>11, <1>13, <1>14, <1>16, <1>18 DEF Wrote, OnScreen
<1>20. k.x > 0 => j = k.x - 1
  <2>1. CASE k.x > 0
    <3>1. LastRow(rows) = Len(rows) /\ Last1(rows) = Len(rows[Len(rows)])
      BY <1>1, <2>1 DEF LastRow, Last1
    <3>2. j + 1 = k.x
      BY <1>1, <3>1 DEF TrailEndsAt, Behind
    <3>3. QED
      BY <3>2 DEF Cols
  <2>2. QED
    BY <2>1
<1>21. QED
  BY <1>8, <1>13, <1>15, <1>19, <1>20 DEF TookBack

-----------------------------------------------------------------------------
(* Several characters at a time.                                           *)
Along(u, k, rows, i) ==
  /\ OnScreen(u, rows) /\ (i > 0 => u.pos = Place(u))
  /\ \A v \in 1..Terms : u.pages[v] = k.pages[v]

LEMMA PutsSays ==
  ASSUME NEW k, NEW rows, OnScreen(k, rows), NEW n \in Nat \ {0}, NEW s, DOMAIN s = 1..n,
         \A i \in 1..n : s[i] \in Letter \cup {LF}
  PROVE  Wrote(Puts(k, s), k, SayAll(rows, s))
<1>1. PICK h : Run(h, <<"putc">>, k, s, n) /\ Puts(k, s) = h[n]
  BY PutsRuns
<1>2. PICK g : Run(g, <<"say">>, rows, s, n) /\ SayAll(rows, s) = g[n]
  BY SayRuns
<1> DEFINE T == {i \in Nat : i <= n => Along(h[i], k, g[i], i)}
<1>3. 0 \in T
  <2>1. h[0] = k /\ g[0] = rows
    BY <1>1, <1>2 DEF Run
  <2>2. QED
    BY <2>1 DEF Along
<1>4. ASSUME NEW i \in Nat, i \in T
      PROVE  i + 1 \in T
  <2>1. SUFFICES ASSUME i + 1 <= n
                 PROVE  Along(h[i+1], k, g[i+1], i + 1)
    OBVIOUS
  <2>2. Along(h[i], k, g[i], i)
    BY <1>4, <2>1
  <2>3. i + 1 \in 1..n /\ (i + 1) - 1 = i
    BY <2>1
  <2>4. PICK c \in Letter \cup {LF} : c = s[i+1]
    BY <2>3
  <2>5. h[i+1] = Putc(h[i], c) /\ g[i+1] = Say(g[i], c)
    BY <1>1, <1>2, <2>3, <2>4 DEF Run, Op
  <2>6. Wrote(h[i+1], h[i], g[i+1])
    BY <2>2, <2>5, PutcSays DEF Along
  <2>7. QED
    BY <2>2, <2>6 DEF Wrote, Along
<1> HIDE DEF T
<1>5. Nat \subseteq T
  BY <1>3, <1>4, Induction
<1>6. Along(h[n], k, g[n], n)
  BY <1>5 DEF T
<1>7. QED
  BY <1>1, <1>2, <1>6 DEF Along, Wrote

LEMMA SayAllTrails ==
  ASSUME NEW rows, Text(rows), NEW n \in Nat, NEW s, DOMAIN s = 1..n, NEW tr, NEW E \in Nat,
         Trail(rows, tr, E), E + n <= Row(NUM_ROWS - 1),
         \A i \in 1..n : s[i] \in Letter /\ tr[E + i] = s[i]
  PROVE  Trail(SayAll(rows, s), tr, E + n)
<1>1. PICK g : Run(g, <<"say">>, rows, s, n) /\ SayAll(rows, s) = g[n]
  BY SayRuns
<1> DEFINE T == {i \in Nat : i <= n => Text(g[i]) /\ Trail(g[i], tr, E + i)}
<1>2. 0 \in T
  BY <1>1 DEF Run
<1>3. ASSUME NEW i \in Nat, i \in T
      PROVE  i + 1 \in T
  <2>1. SUFFICES ASSUME i + 1 <= n
                 PROVE  Text(g[i+1]) /\ Trail(g[i+1], tr, E + (i + 1))
    OBVIOUS
  <2>2. Text(g[i]) /\ Trail(g[i], tr, E + i)
    BY <1>3, <2>1
  <2>3. i + 1 \in 1..n /\ (i + 1) - 1 = i /\ E + (i + 1) = (E + i) + 1 /\ E + i \in Nat
    BY <2>1
  <2>4. PICK c \in Letter : c = s[i+1] /\ tr[(E + i) + 1] = c
    BY <2>3
  <2>5. g[i+1] = Say(g[i], c)
    BY <1>1, <2>3, <2>4 DEF Run, Op
  <2>6. Text(Say(g[i], c))
    BY <2>2, SayIs DEF Says
  <2>7. (E + i) + 1 <= Row(NUM_ROWS - 1)
    <3>1. NUM_ROWS - 1 \in Int
      BY Screen
    <3>2. PICK r \in Int : r = Row(NUM_ROWS - 1)
      BY <3>1, RowNext
    <3>3. QED
      BY <2>1, <3>2
  <2>8. Trail(Say(g[i], c), tr, (E + i) + 1)
    BY <2>2, <2>3, <2>4, <2>7, TrailGrows
  <2>9. QED
    BY <2>3, <2>5, <2>6, <2>8
<1> HIDE DEF T
<1>4. Nat \subseteq T
  BY <1>2, <1>3, Induction
<1>5. QED
  BY <1>1, <1>4 DEF T

(* What may be taken back: no ">", no blank that ended a row.              *)
Takeable(k, tr, E, n) == \A i \in 1..n : tr[E - n + i] # ">" /\ (tr[E - n + i] # Blank \/ k.x >= n)

Unwrote(u, k, rows, tr, E, n) == Wrote(u, k, rows) /\ Trail(rows, tr, E - n)

Backward(u, k, rows, tr, E, n, i) ==
  /\ Along(u, k, rows, i) /\ Trail(rows, tr, E - i)
  /\ (k.x >= n => u.x = k.x - i)

LEMMA PutsUnsays ==
  ASSUME NEW k, NEW rows, OnScreen(k, rows), NEW n \in Nat \ {0}, NEW tr, NEW E \in Nat,
         n <= E, Trail(rows, tr, E), Takeable(k, tr, E, n)
  PROVE  Unwrote(Puts(k, [i \in 1..n |-> NUL]), k, UnsayAll(rows, n), tr, E, n)
<1> DEFINE s == [i \in 1..n |-> NUL]
<1>1. DOMAIN s = 1..n /\ \A i \in 1..n : s[i] = NUL
  OBVIOUS
<1> HIDE DEF s
<1>2. PICK h : Run(h, <<"putc">>, k, s, n) /\ Puts(k, s) = h[n]
  BY <1>1, PutsRuns
<1>3. PICK g : Run(g, <<"unsay">>, rows, [i \in 1..n |-> i], n) /\ UnsayAll(rows, n) = g[n]
  BY UnsayRuns
<1> DEFINE T == {i \in Nat : i <= n => Backward(h[i], k, g[i], tr, E, n, i)}
<1>4. k.x \in Int
  BY DEF OnScreen, Consoles, Cols
<1>5. 0 \in T
  <2>1. h[0] = k /\ g[0] = rows /\ E - 0 = E /\ k.x - 0 = k.x
    BY <1>2, <1>3, <1>4 DEF Run
  <2>2. QED
    BY <2>1 DEF Along, Backward
<1>6. ASSUME NEW i \in Nat, i \in T
      PROVE  i + 1 \in T
  <2>1. SUFFICES ASSUME i + 1 <= n
                 PROVE  Backward(h[i+1], k, g[i+1], tr, E, n, i + 1)
    OBVIOUS
  <2>2. Backward(h[i], k, g[i], tr, E, n, i)
    BY <1>6, <2>1
  <2>3. /\ i + 1 \in 1..n /\ (i + 1) - 1 = i /\ E - i \in Nat \ {0} /\ (E - i) - 1 = E - (i + 1)
        /\ n - i \in 1..n /\ E - n + (n - i) = E - i
    BY <2>1
  <2>4. OnScreen(h[i], g[i]) /\ Trail(g[i], tr, E - i) /\ Text(g[i])
    BY <2>2 DEF Backward, Along, OnScreen
  <2>5. PICK a \in Rows, j \in Cols : TrailEndsAt(g[i], a, j, tr[E - i])
    BY <2>3, <2>4, TrailEnds
  <2>6. tr[E - i] # ">" /\ (tr[E - i] # Blank \/ k.x >= n)
    BY <2>3 DEF Takeable
  <2>7. tr[E - i] # Blank \/ h[i].x > 0
    <3>1. k.x >= n => h[i].x = k.x - i
      BY <2>2 DEF Backward
    <3>2. QED
      BY <1>4, <2>1, <2>6, <3>1
  <2>8. TookBack(TakenBack(h[i], 0), h[i], Unsay(g[i]), h[i].x)
    BY <2>4, <2>5, <2>6, <2>7, TakesBack
  <2>9. h[i+1] = TakenBack(h[i], 0) /\ g[i+1] = Unsay(g[i])
    <3>1. h[i+1] = Putc(h[i], NUL)
      BY <1>1, <1>2, <2>3 DEF Run, Op
    <3>2. Putc(h[i], NUL) = TakenBack(h[i], 0)
      BY Characters DEF Putc, Emit
    <3>3. g[i+1] = Unsay(g[i])
      BY <1>3, <2>3 DEF Run, Op
    <3>4. QED
      BY <3>1, <3>2, <3>3
  <2>10. Wrote(h[i+1], h[i], g[i+1]) /\ (h[i].x > 0 => h[i+1].x = h[i].x - 1)
    BY <2>8, <2>9 DEF TookBack
  <2>11. Along(h[i+1], k, g[i+1], i + 1)
    BY <2>2, <2>10 DEF Wrote, Along, Backward
  <2>12. Trail(g[i+1], tr, E - (i + 1))
    <3>1. Behind(g[i], a, j)
      BY <2>5 DEF TrailEndsAt
    <3>2. Trail(Unsay(g[i]), tr, (E - i) - 1)
      BY <2>3, <2>4, <3>1, TrailShrinks
    <3>3. QED
      BY <2>3, <2>9, <3>2
  <2>13. k.x >= n => h[i+1].x = k.x - (i + 1)
    <3>1. k.x >= n => h[i].x = k.x - i
      BY <2>2 DEF Backward
    <3>2. QED
      BY <1>4, <2>1, <2>10, <3>1
  <2>14. QED
    BY <2>11, <2>12, <2>13 DEF Backward
<1> HIDE DEF T
<1>7. Nat \subseteq T
  BY <1>5, <1>6, Induction
<1>8. Backward(h[n], k, g[n], tr, E, n, n)
  BY <1>7 DEF T
<1>9. Unwrote(Puts(k, s), k, UnsayAll(rows, n), tr, E, n)
  BY <1>2, <1>3, <1>8 DEF Along, Wrote, Backward, Unwrote
<1>10. QED
  BY <1>9 DEF s

-----------------------------------------------------------------------------
(* Powers of two, and the radixes.                                         *)
Pow(f, n) == f = [k \in 0..n |-> IF k = 0 THEN 1 ELSE 2 * f[k-1]]

LEMMA PowExists ==
  ASSUME NEW n \in Nat
  PROVE  \E f : Pow(f, n)
<1> DEFINE T == {m \in Nat : \E f : Pow(f, m)}
<1>1. 0 \in T
  <2> DEFINE f == [k \in 0..0 |-> 1]
  <2>1. \A k \in 0..0 : k = 0
    OBVIOUS
  <2>2. Pow(f, 0)
    BY <2>1 DEF Pow
  <2>3. QED
    BY <2>2
<1>2. ASSUME NEW m \in Nat, m \in T
      PROVE  m + 1 \in T
  <2>1. PICK f : Pow(f, m)
    BY <1>2
  <2> DEFINE g == [k \in 0..m+1 |-> IF k = m + 1 THEN 2 * f[m] ELSE f[k]]
  <2>2. ASSUME NEW k \in 0..m+1
        PROVE  g[k] = IF k = 0 THEN 1 ELSE 2 * g[k-1]
    <3>1. CASE k = m + 1
      <4>1. g[k] = 2 * f[m] /\ g[k-1] = f[m] /\ k # 0
        BY <3>1
      <4>2. QED
        BY <4>1
    <3>2. CASE k # m + 1
      <4>1. k \in 0..m /\ g[k] = f[k] /\ (k # 0 => g[k-1] = f[k-1])
        BY <3>2
      <4>2. f[k] = IF k = 0 THEN 1 ELSE 2 * f[k-1]
        BY <2>1, <4>1 DEF Pow
      <4>3. QED
        BY <4>1, <4>2
    <3>3. QED
      BY <3>1, <3>2
  <2>3. g = [k \in 0..m+1 |-> g[k]]
    OBVIOUS
  <2> HIDE DEF g
  <2>4. Pow(g, m + 1)
    BY <2>2, <2>3 DEF Pow
  <2>5. QED
    BY <2>4
<1> HIDE DEF T
<1>3. Nat \subseteq T
  BY <1>1, <1>2, Induction
<1>4. QED
  BY <1>3 DEF T

LEMMA PowUnfold ==
  ASSUME NEW n \in Nat
  PROVE  \E f : Pow(f, n) /\ Pow2(n) = f[n]
<1> DEFINE P(f) == f = [k \in 0..n |-> IF k = 0 THEN 1 ELSE 2 * f[k-1]]
           pow == CHOOSE f : P(f)
<1>1. \E f : P(f)
  BY PowExists DEF Pow
<1>2. P(pow)
  BY <1>1
<1>3. Pow2(n) = pow[n]
  BY DEF Pow2
<1> HIDE DEF pow
<1>4. QED
  BY <1>2, <1>3 DEF Pow

LEMMA PowNext ==
  ASSUME NEW n \in Nat
  PROVE  Pow2(0) = 1 /\ Pow2(n + 1) = 2 * Pow2(n)
<1>1. Pow2(0) = 1
  <2>1. PICK f : Pow(f, 0) /\ Pow2(0) = f[0]
    BY PowUnfold
  <2>2. QED
    BY <2>1 DEF Pow
<1>2. PICK f : Pow(f, n) /\ Pow2(n) = f[n]
  BY PowUnfold
<1>3. n + 1 \in Nat
  OBVIOUS
<1>4. PICK g : Pow(g, n + 1) /\ Pow2(n + 1) = g[n + 1]
  BY <1>3, PowUnfold
<1> DEFINE T == {k \in Nat : k <= n => f[k] = g[k]}
<1>5. \A k \in 0..n : f[k] = IF k = 0 THEN 1 ELSE 2 * f[k-1]
  BY <1>2 DEF Pow
<1>6. \A k \in 0..n+1 : g[k] = IF k = 0 THEN 1 ELSE 2 * g[k-1]
  BY <1>4 DEF Pow
<1>7. 0 \in T
  BY <1>5, <1>6
<1>8. ASSUME NEW k \in Nat, k \in T
      PROVE  k + 1 \in T
  <2>1. ASSUME k + 1 <= n
        PROVE  f[k + 1] = g[k + 1]
    <3>1. k + 1 \in 0..n /\ k + 1 \in 0..n+1 /\ k + 1 # 0 /\ (k + 1) - 1 = k /\ f[k] = g[k]
      BY <1>8, <2>1
    <3>2. QED
      BY <1>5, <1>6, <3>1
  <2>2. QED
    BY <2>1
<1> HIDE DEF T
<1>9. Nat \subseteq T
  BY <1>7, <1>8, Induction
<1>10. f[n] = g[n]
  BY <1>9 DEF T
<1>11. g[n + 1] = 2 * g[n]
  <2>1. n + 1 \in 0..n+1 /\ n + 1 # 0 /\ (n + 1) - 1 = n
    OBVIOUS
  <2>2. QED
    BY <1>6, <2>1
<1>12. QED
  BY <1>1, <1>2, <1>4, <1>10, <1>11

LEMMA PowIsNumber ==
  ASSUME NEW n \in Nat
  PROVE  Pow2(n) \in Nat \ {0} /\ Pow2(n + 4) = 16 * Pow2(n)
<1> DEFINE T == {k \in Nat : Pow2(k) \in Nat \ {0}}
<1>1. 0 \in T
  BY PowNext
<1>2. ASSUME NEW k \in Nat, k \in T
      PROVE  k + 1 \in T
  BY <1>2, PowNext
<1> HIDE DEF T
<1>3. Nat \subseteq T
  BY <1>1, <1>2, Induction
<1>4. Pow2(n) \in Nat \ {0}
  BY <1>3 DEF T
<1>5. /\ n + 1 \in Nat /\ n + 2 \in Nat /\ n + 3 \in Nat
      /\ (n + 1) + 1 = n + 2 /\ (n + 2) + 1 = n + 3 /\ (n + 3) + 1 = n + 4
  OBVIOUS
<1>6. /\ Pow2(n + 1) = 2 * Pow2(n) /\ Pow2(n + 2) = 2 * Pow2(n + 1)
      /\ Pow2(n + 3) = 2 * Pow2(n + 2) /\ Pow2(n + 4) = 2 * Pow2(n + 3)
  BY <1>5, PowNext
<1>7. PICK p \in Nat \ {0} : p = Pow2(n)
  BY <1>4
<1>8. Pow2(n + 1) = 2 * p /\ Pow2(n + 2) = 4 * p
  BY <1>6, <1>7
<1>9. Pow2(n + 3) = 8 * p
  BY <1>6, <1>8
<1>10. Pow2(n + 4) = 16 * p
  BY <1>6, <1>9
<1>11. QED
  BY <1>4, <1>7, <1>10

-----------------------------------------------------------------------------
(* A number in digits of a radix: printf, itoa and strrev.                 *)
Radixes == {10, 16}
Over(v, R) == v \div R

LEMMA Smaller ==
  ASSUME NEW R \in Radixes, NEW v \in Nat
  PROVE  /\ Over(v, R) \in Nat /\ Over(v, R) <= v /\ (v > 0 => Over(v, R) < v)
         /\ (v % R) + 1 \in 1..16 /\ v % R \in 0..15 /\ v = R * Over(v, R) + (v % R)
<1>1. CASE R = 10
  BY <1>1 DEF Over
<1>2. CASE R = 16
  BY <1>2 DEF Over
<1>3. QED
  BY <1>1, <1>2 DEF Radixes

Digits == Range(Lookup)
DigitIs(v, R) == <<Lookup[(v % R) + 1]>>

LEMMA LookupIs ==
  ASSUME NEW i \in 1..16
  PROVE  /\ Lookup[i] \in Digits /\ Digit(Lookup[i]) = i - 1
         /\ Lookup[i] = "0" => i = 1
<1>1. DOMAIN Lookup = 1..16
  BY DEF Lookup
<1>2. Lookup[i] \in Digits
  BY <1>1 DEF Digits, Range
<1>3. ASSUME NEW j \in 1..16, Lookup[i] = Lookup[j]
      PROVE  i = j
  BY <1>3 DEF Lookup
<1>4. Digit(Lookup[i]) = i - 1
  <2> DEFINE P(j) == j \in DOMAIN Lookup /\ Lookup[j] = Lookup[i]
             k == CHOOSE j : P(j)
  <2>1. P(i)
    BY <1>1
  <2>2. P(k)
    BY <2>1
  <2>3. k = i
    BY <1>1, <1>3, <2>2
  <2>4. Digit(Lookup[i]) = (CHOOSE j \in DOMAIN Lookup : Lookup[j] = Lookup[i]) - 1
    BY DEF Digit
  <2>5. k = CHOOSE j \in DOMAIN Lookup : Lookup[j] = Lookup[i]
    OBVIOUS
  <2> HIDE DEF k
  <2>6. QED
    BY <2>3, <2>4, <2>5
<1>5. Lookup[1] = "0"
  BY DEF Lookup
<1>6. Lookup[i] = "0" => i = 1
  BY <1>3, <1>5
<1>7. QED
  BY <1>2, <1>4, <1>6

Lowest(f, m, R) == f = [v \in 0..m |-> IF v = 0 THEN <<>> ELSE DigitIs(v, R) \o f[Over(v, R)]]

LEMMA LowestExists ==
  ASSUME NEW R \in Radixes, NEW m \in Nat
  PROVE  \E f : Lowest(f, m, R)
<1> DEFINE T == {i \in Nat : \E f : Lowest(f, i, R)}
<1>1. 0 \in T
  <2> DEFINE f == [v \in 0..0 |-> <<>>]
  <2>1. \A v \in 0..0 : v = 0
    OBVIOUS
  <2>2. Lowest(f, 0, R)
    BY <2>1 DEF Lowest
  <2>3. QED
    BY <2>2
<1>2. ASSUME NEW i \in Nat, i \in T
      PROVE  i + 1 \in T
  <2>1. PICK f : Lowest(f, i, R)
    BY <1>2
  <2> DEFINE g == [v \in 0..i+1 |-> IF v = i + 1 THEN DigitIs(v, R) \o f[Over(v, R)] ELSE f[v]]
  <2>2. ASSUME NEW v \in 0..i+1
        PROVE  g[v] = IF v = 0 THEN <<>> ELSE DigitIs(v, R) \o g[Over(v, R)]
    <3>1. v > 0 => Over(v, R) \in 0..i /\ g[Over(v, R)] = f[Over(v, R)]
      BY Smaller
    <3>2. CASE v = i + 1
      <4>1. g[v] = DigitIs(v, R) \o f[Over(v, R)]
        BY <3>2, Zenon
      <4> HIDE DEF g
      <4>2. v > 0 /\ v # 0
        BY <3>2
      <4>3. g[Over(v, R)] = f[Over(v, R)]
        BY <3>1, <4>2
      <4>4. g[v] = DigitIs(v, R) \o g[Over(v, R)]
        BY <4>1, <4>3, Zenon
      <4>5. QED
        BY <4>2, <4>4, Zenon
    <3>3. CASE v # i + 1
      <4>1. v \in 0..i /\ g[v] = f[v]
        BY <3>3
      <4>2. f[v] = IF v = 0 THEN <<>> ELSE DigitIs(v, R) \o f[Over(v, R)]
        BY <2>1, <4>1 DEF Lowest
      <4> HIDE DEF g
      <4>3. QED
        BY <3>1, <4>1, <4>2
    <3>4. QED
      BY <3>2, <3>3
  <2>3. g = [v \in 0..i+1 |-> g[v]]
    OBVIOUS
  <2> HIDE DEF g
  <2>4. Lowest(g, i + 1, R)
    BY <2>2, <2>3 DEF Lowest
  <2>5. QED
    BY <2>4
<1> HIDE DEF T
<1>3. Nat \subseteq T
  BY <1>1, <1>2, Induction
<1>4. QED
  BY <1>3 DEF T

(* A sequence backwards.                                                    *)
Back(u, s) == /\ Len(s) \in Nat /\ Len(u) = Len(s)
              /\ \A i \in 1..Len(s) : u[i] = s[Len(s) + 1 - i]

LEMMA StrrevIs ==
  ASSUME NEW S, NEW s \in Seq(S)
  PROVE  Strrev(s) \in Seq(S) /\ Back(Strrev(s), s)
<1>1. PICK n \in Nat : n = Len(s) /\ \A i \in 1..n : s[i] \in S
  BY LenProperties
<1>2. PICK half \in Int : half = n \div 2
  BY <1>1
<1>3. \A i \in 1..n : n + 1 - i \in 1..n /\ (i > half /\ i <= n - half => n + 1 - i = i)
  BY <1>1, <1>2
<1>4. PICK u : u = [i \in 1..n |-> s[n + 1 - i]]
  OBVIOUS
<1>5. Strrev(s) = [i \in 1..n |-> IF i <= half \/ i > n - half THEN s[n + 1 - i] ELSE s[i]]
  BY <1>1, <1>2 DEF Strrev
<1>6. ASSUME NEW i \in 1..n
      PROVE  (IF i <= half \/ i > n - half THEN s[n + 1 - i] ELSE s[i]) = s[n + 1 - i]
  BY <1>3, <1>2, <1>6
<1>7. Strrev(s) = u
  BY <1>4, <1>5, <1>6
<1>8. u \in [1..n -> S] /\ \A i \in 1..n : u[i] = s[n + 1 - i]
  BY <1>1, <1>3, <1>4
<1>9. u \in Seq(S) /\ Len(u) = n
  BY <1>8
<1>10. QED
  BY <1>1, <1>7, <1>8, <1>9 DEF Back

LEMMA StrrevGrows ==
  ASSUME NEW S, NEW c \in S, NEW t \in Seq(S)
  PROVE  Strrev(<<c>> \o t) = Append(Strrev(t), c)
<1>1. PICK w \in Seq(S) : w = <<c>> \o t /\ Len(w) = 1 + Len(t) /\ w[1] = c
                          /\ \A k \in 2..Len(t)+1 : w[k] = t[k - 1]
  <2>a. <<c>> \in Seq(S) /\ Len(<<c>>) = 1 /\ <<c>>[1] = c
    OBVIOUS
  <2>1. PICK o \in Seq(S) : o = <<c>> /\ Len(o) = 1 /\ o[1] = c
    BY <2>a
  <2>2. /\ o \o t \in Seq(S) /\ Len(o \o t) = Len(o) + Len(t)
        /\ \A k \in 1..Len(o)+Len(t) : (o \o t)[k] = IF k <= Len(o) THEN o[k] ELSE t[k - Len(o)]
    BY ConcatProperties
  <2>3. Len(t) \in Nat
    BY LenProperties
  <2>4. PICK w : w = o \o t
    OBVIOUS
  <2>5. 1 \in 1..1+Len(t) /\ \A k \in 2..Len(t)+1 : k \in 1..1+Len(t) /\ ~ (k <= 1)
    BY <2>3
  <2>6. w[1] = c /\ \A k \in 2..Len(t)+1 : w[k] = t[k - 1]
    BY <2>1, <2>2, <2>4, <2>5
  <2>7. QED
    BY <2>1, <2>2, <2>4, <2>6
<1>2. PICK u \in Seq(S) : u = Strrev(w) /\ Back(u, w)
  BY StrrevIs
<1>3. PICK v \in Seq(S) : v = Strrev(t) /\ Back(v, t)
  BY StrrevIs
<1>4. PICK x \in Seq(S) : /\ x = Append(v, c) /\ Len(x) = Len(v) + 1 /\ x[Len(v) + 1] = c
                          /\ \A k \in 1..Len(v) : x[k] = v[k]
  <2>1. /\ Append(v, c) \in Seq(S) /\ Len(Append(v, c)) = Len(v) + 1
        /\ \A k \in 1.. Len(v) : Append(v, c)[k] = v[k]
        /\ Append(v, c)[Len(v)+1] = c
    BY AppendProperties
  <2>2. QED
    BY <2>1
<1>5. PICK n \in Nat : n = Len(t) /\ Len(w) = n + 1 /\ Len(u) = n + 1 /\ Len(v) = n /\ Len(x) = n + 1
  BY <1>1, <1>2, <1>3, <1>4 DEF Back
<1>6. ASSUME NEW i \in 1..n+1
      PROVE  u[i] = x[i]
  <2>1. u[i] = w[n + 2 - i]
    BY <1>2, <1>5 DEF Back
  <2>2. CASE i = n + 1
    BY <2>1, <2>2, <1>1, <1>4, <1>5
  <2>3. CASE i # n + 1
    <3>1. i \in 1..n /\ n + 2 - i \in 2..n+1 /\ (n + 2 - i) - 1 = n + 1 - i
      BY <2>3
    <3>2. w[n + 2 - i] = t[n + 1 - i]
      BY <3>1, <1>1, <1>5
    <3>3. v[i] = t[n + 1 - i] /\ x[i] = v[i]
      BY <3>1, <1>3, <1>4, <1>5 DEF Back
    <3>4. QED
      BY <2>1, <3>2, <3>3
  <2>4. QED
    BY <2>2, <2>3
<1>7. u = x
  BY <1>5, <1>6, SeqEqual
<1>8. QED
  BY <1>1, <1>2, <1>3, <1>4, <1>7

(* What a reader takes digits for.                                          *)
LEMMA ValueRuns ==
  ASSUME NEW R, NEW s, NEW n \in Nat, DOMAIN s = 1..n
  PROVE  \E h : Run(h, <<"value", R>>, 0, s, n) /\ Value(s, R) = h[n]
<1> DEFINE P(f) == f = [S \in SUBSET (1..n) |->
                          IF S = {} THEN 0 ELSE R * f[S \ {Max(S)}] + Digit(s[Max(S)])]
           it == CHOOSE f : P(f)
<1>1. \E f : P(f)
  <2>1. PICK g : Folded(g, <<"value", R>>, 0, s, n)
    BY FoldExists
  <2>2. P(g)
    BY <2>1 DEF Folded, Op
  <2>3. QED
    BY <2>2
<1>2. P(it)
  BY <1>1
<1>3. Value(s, R) = it[1..n]
  BY DEF Value, FoldLeft, MapThenFoldSet
<1> HIDE DEF it
<1>4. Folded(it, <<"value", R>>, 0, s, n)
  BY <1>2 DEF Folded, Op
<1>5. QED
  BY <1>3, <1>4, FoldRuns

LEMMA RunsMeet ==
  ASSUME NEW op, NEW base, NEW s, NEW t, NEW n \in Nat, NEW m \in Nat, m <= n,
         NEW h, Run(h, op, base, s, n), NEW g, Run(g, op, base, t, m),
         \A i \in 1..m : s[i] = t[i]
  PROVE  h[m] = g[m]
<1> DEFINE T == {i \in Nat : i <= m => h[i] = g[i]}
<1>1. 0 \in T
  BY DEF Run
<1>2. ASSUME NEW i \in Nat, i \in T
      PROVE  i + 1 \in T
  <2>1. ASSUME i + 1 <= m
        PROVE  h[i + 1] = g[i + 1]
    <3>1. i + 1 \in 1..m /\ i + 1 \in 1..n /\ (i + 1) - 1 = i /\ h[i] = g[i]
      BY <1>2, <2>1
    <3>2. h[i + 1] = Op(op, h[i], s[i + 1]) /\ g[i + 1] = Op(op, g[i], t[i + 1])
      BY <3>1 DEF Run
    <3>3. s[i + 1] = t[i + 1]
      BY <3>1
    <3>4. QED
      BY <3>1, <3>2, <3>3
  <2>2. QED
    BY <2>1
<1> HIDE DEF T
<1>3. Nat \subseteq T
  BY <1>1, <1>2, Induction
<1>4. QED
  BY <1>3 DEF T

LEMMA ValueOfNone ==
  ASSUME NEW R
  PROVE  Value(<<>>, R) = 0
<1>1. DOMAIN <<>> = 1..0
  OBVIOUS
<1>2. PICK h : Run(h, <<"value", R>>, 0, <<>>, 0) /\ Value(<<>>, R) = h[0]
  BY <1>1, ValueRuns
<1>3. QED
  BY <1>2 DEF Run

LEMMA ValueNext ==
  ASSUME NEW R, NEW S, NEW s \in Seq(S), NEW c \in S
  PROVE  Value(Append(s, c), R) = R * Value(s, R) + Digit(c)
<1>1. PICK n \in Nat : n = Len(s) /\ DOMAIN s = 1..n
  BY LenProperties
<1>a. /\ Append(s, c) \in Seq(S) /\ Len(Append(s, c)) = Len(s) + 1
      /\ \A k \in 1.. Len(s) : Append(s, c)[k] = s[k]
      /\ Append(s, c)[Len(s)+1] = c
  BY AppendProperties
<1>2. PICK t \in Seq(S) : /\ t = Append(s, c) /\ Len(t) = n + 1 /\ t[n + 1] = c
                          /\ \A k \in 1..n : t[k] = s[k]
  BY <1>1, <1>a
<1>3. DOMAIN t = 1..n+1 /\ n + 1 \in Nat
  BY <1>2, LenProperties
<1>4. PICK h : Run(h, <<"value", R>>, 0, t, n + 1) /\ Value(t, R) = h[n + 1]
  BY <1>3, ValueRuns
<1>5. PICK g : Run(g, <<"value", R>>, 0, s, n) /\ Value(s, R) = g[n]
  BY <1>1, ValueRuns
<1>6. h[n] = g[n]
  <2>1. n <= n + 1 /\ n + 1 \in Nat
    OBVIOUS
  <2>2. PICK op : op = <<"value", R>>
    OBVIOUS
  <2>3. Run(h, op, 0, t, n + 1) /\ Run(g, op, 0, s, n)
    BY <1>4, <1>5, <2>2
  <2>4. \A k \in 1..n : t[k] = s[k]
    BY <1>2
  <2>5. QED
    BY <2>1, <2>3, <2>4, RunsMeet
<1>7. h[n + 1] = Op(<<"value", R>>, h[n], t[n + 1])
  <2>1. n + 1 \in 1..n+1 /\ (n + 1) - 1 = n
    OBVIOUS
  <2>2. QED
    BY <1>4, <2>1 DEF Run
<1>8. Op(<<"value", R>>, h[n], c) = R * h[n] + Digit(c)
  BY DEF Op
<1>9. QED
  BY <1>2, <1>4, <1>5, <1>6, <1>7, <1>8

(* Zeros in front do not count.                                             *)
LEMMA ValuePadded ==
  ASSUME NEW R \in Radixes, NEW s, NEW n \in Nat, DOMAIN s = 1..n,
         NEW t, NEW j \in Nat, DOMAIN t = 1..j+n,
         \A i \in 1..j : t[i] = "0", \A i \in 1..n : t[j + i] = s[i]
  PROVE  Value(t, R) = Value(s, R)
<1>1. j + n \in Nat
  OBVIOUS
<1>2. PICK h : Run(h, <<"value", R>>, 0, t, j + n) /\ Value(t, R) = h[j + n]
  BY <1>1, ValueRuns
<1>3. PICK g : Run(g, <<"value", R>>, 0, s, n) /\ Value(s, R) = g[n]
  BY ValueRuns
<1>4. \A y, x : Op(<<"value", R>>, y, x) = R * y + Digit(x)
  BY DEF Op
<1> DEFINE T == {i \in Nat : i <= j => h[i] = 0}
           U == {i \in Nat : i <= n => h[j + i] = g[i]}
<1>5. 0 \in T
  BY <1>2 DEF Run
<1>6. Digit("0") = 0
  <2>1. Lookup[1] = "0" /\ 1 \in 1..16
    BY DEF Lookup
  <2>2. QED
    BY <2>1, LookupIs
<1>7. ASSUME NEW i \in Nat, i \in T
      PROVE  i + 1 \in T
  <2>1. ASSUME i + 1 <= j
        PROVE  h[i + 1] = 0
    <3>1. i + 1 \in 1..j /\ i + 1 \in 1..j+n /\ (i + 1) - 1 = i /\ h[i] = 0
      BY <1>7, <2>1
    <3>a. h[i + 1] = Op(<<"value", R>>, h[i], t[i + 1])
      BY <3>1, <1>2 DEF Run
    <3>2. h[i + 1] = R * h[i] + Digit(t[i + 1])
      BY <3>a, <1>4
    <3>3. t[i + 1] = "0"
      BY <3>1
    <3>4. R * 0 = 0
      BY DEF Radixes
    <3>5. QED
      BY <3>1, <3>2, <3>3, <3>4, <1>6
  <2>2. QED
    BY <2>1
<1> HIDE DEF T
<1>8. Nat \subseteq T
  BY <1>5, <1>7, Induction
<1>9. h[j] = 0
  BY <1>8 DEF T
<1>10. 0 \in U
  BY <1>3, <1>9 DEF Run
<1>11. ASSUME NEW i \in Nat, i \in U
       PROVE  i + 1 \in U
  <2>1. ASSUME i + 1 <= n
        PROVE  h[j + (i + 1)] = g[i + 1]
    <3>1. /\ i + 1 \in 1..n /\ j + (i + 1) \in 1..j+n /\ (i + 1) - 1 = i
          /\ (j + (i + 1)) - 1 = j + i /\ h[j + i] = g[i]
      BY <1>11, <2>1
    <3>2. h[j + (i + 1)] = Op(<<"value", R>>, h[j + i], t[j + (i + 1)])
      BY <3>1, <1>2 DEF Run
    <3>3. g[i + 1] = Op(<<"value", R>>, g[i], s[i + 1])
      BY <3>1, <1>3 DEF Run
    <3>4. t[j + (i + 1)] = s[i + 1]
      BY <3>1
    <3>5. QED
      BY <3>1, <3>2, <3>3, <3>4
  <2>2. QED
    BY <2>1
<1> HIDE DEF U
<1>12. Nat \subseteq U
  BY <1>10, <1>11, Induction
<1>13. h[j + n] = g[n]
  BY <1>12 DEF U
<1>14. QED
  BY <1>2, <1>3, <1>13

(* A sequence of digits that reads as v, without a zero in front.           *)
Reads(w, v, R) == /\ w \in Seq(Digits) /\ Value(w, R) = v
                  /\ IF v = 0 THEN w = <<>> ELSE Len(w) > 0 /\ w[1] # "0"

LEMMA ReadsOn ==
  ASSUME NEW R \in Radixes, NEW v \in Nat \ {0}, NEW w, Reads(w, Over(v, R), R)
  PROVE  Reads(Append(w, Lookup[(v % R) + 1]), v, R)
<1>1. PICK i \in 1..16 : i = (v % R) + 1
  BY Smaller
<1>2. PICK c \in Digits : c = Lookup[(v % R) + 1] /\ Digit(c) = v % R /\ (c = "0" => v % R = 0)
  <2>1. Lookup[i] \in Digits /\ Digit(Lookup[i]) = i - 1 /\ (Lookup[i] = "0" => i = 1)
    BY LookupIs
  <2>2. i - 1 = v % R
    BY <1>1, Smaller
  <2>3. QED
    BY <1>1, <2>1, <2>2
<1>3. PICK u \in Nat : u = Over(v, R) /\ v = R * u + (v % R)
  BY Smaller
<1>4. PICK z \in Seq(Digits) : z = w /\ Value(z, R) = u
  BY <1>3 DEF Reads
<1>5. Value(Append(z, c), R) = v
  BY <1>2, <1>3, <1>4, ValueNext
<1>6. PICK n \in Nat : n = Len(z)
  BY LenProperties
<1>a. /\ Append(z, c) \in Seq(Digits) /\ Len(Append(z, c)) = Len(z) + 1
      /\ \A k \in 1.. Len(z) : Append(z, c)[k] = z[k]
      /\ Append(z, c)[Len(z)+1] = c
  BY AppendProperties
<1>7. Append(z, c)[1] # "0"
  <2>1. CASE u = 0
    <3>1. z = <<>> /\ Len(z) = 0
      BY <1>3, <1>4, <2>1 DEF Reads
    <3>2. v % R # 0
      BY <1>3, <2>1 DEF Radixes
    <3>3. QED
      BY <1>2, <1>a, <3>1, <3>2
  <2>2. CASE u # 0
    <3>1. n > 0 /\ z[1] # "0" /\ 1 \in 1..n
      BY <1>3, <1>4, <1>6, <2>2 DEF Reads
    <3>2. QED
      BY <1>6, <1>a, <3>1
  <2>3. QED
    BY <2>1, <2>2
<1>8. Len(Append(z, c)) > 0
  BY <1>6, <1>a
<1>9. QED
  BY <1>2, <1>4, <1>5, <1>7, <1>8, <1>a DEF Reads

LEMMA LowestReads ==
  ASSUME NEW R \in Radixes, NEW m \in Nat, NEW f, Lowest(f, m, R)
  PROVE  \A v \in 0..m : f[v] \in Seq(Digits) /\ Reads(Strrev(f[v]), v, R)
<1> DEFINE Good(v) == f[v] \in Seq(Digits) /\ Reads(Strrev(f[v]), v, R)
           T == {i \in Nat : \A v \in 0..i : v <= m => Good(v)}
<1>1. \A v \in 0..m : f[v] = IF v = 0 THEN <<>> ELSE DigitIs(v, R) \o f[Over(v, R)]
  BY DEF Lowest
<1>2. Good(0)
  <2>1. f[0] = <<>>
    BY <1>1
  <2>a. <<>> \in Seq(Digits) /\ Len(<<>>) = 0
    OBVIOUS
  <2>2. PICK e \in Seq(Digits) : e = <<>> /\ Len(e) = 0
    BY <2>a
  <2>3. Strrev(e) \in Seq(Digits) /\ Len(Strrev(e)) = 0
    BY <2>2, StrrevIs DEF Back
  <2>4. Strrev(e) = <<>>
    BY <2>3, EmptySeq
  <2>5. Value(<<>>, R) = 0
    BY ValueOfNone
  <2>6. Reads(Strrev(e), 0, R)
    BY <2>3, <2>4, <2>5 DEF Reads
  <2>7. QED
    BY <2>1, <2>2, <2>6
<1>3. ASSUME NEW v \in 1..m, Good(Over(v, R))
      PROVE  Good(v)
  <2>1. v \in Nat \ {0} /\ v \in 0..m
    OBVIOUS
  <2>2. PICK i \in 1..16 : i = (v % R) + 1
    BY <2>1, Smaller
  <2>3. PICK c \in Digits : c = Lookup[(v % R) + 1]
    BY <2>2, LookupIs
  <2>4. PICK t \in Seq(Digits) : t = f[Over(v, R)] /\ Reads(Strrev(t), Over(v, R), R)
    BY <1>3
  <2>5. f[v] = <<c>> \o t
    BY <1>1, <2>1, <2>3, <2>4 DEF DigitIs
  <2>6. Strrev(f[v]) = Append(Strrev(t), c)
    BY <2>5, StrrevGrows
  <2>7. Reads(Append(Strrev(t), c), v, R)
    BY <2>1, <2>3, <2>4, ReadsOn
  <2>a. <<c>> \in Seq(Digits)
    OBVIOUS
  <2>8. <<c>> \o t \in Seq(Digits)
    BY <2>a, ConcatProperties
  <2>9. QED
    BY <2>5, <2>6, <2>7, <2>8
<1> HIDE DEF Good
<1>4. 0 \in T
  <2>1. \A v \in 0..0 : v = 0
    OBVIOUS
  <2>2. QED
    BY <1>2, <2>1
<1>5. ASSUME NEW i \in Nat, i \in T
      PROVE  i + 1 \in T
  <2>1. ASSUME i + 1 <= m
        PROVE  Good(i + 1)
    <3>1. i + 1 \in 1..m /\ i + 1 \in Nat /\ i + 1 > 0
      BY <2>1
    <3>2. Over(i + 1, R) \in 0..i /\ Over(i + 1, R) <= m
      BY <2>1, <3>1, Smaller
    <3>3. Good(Over(i + 1, R))
      BY <1>5, <3>2
    <3>4. QED
      BY <1>3, <3>1, <3>3
  <2>2. \A v \in 0..i+1 : v \in 0..i \/ v = i + 1
    OBVIOUS
  <2>3. QED
    BY <1>5, <2>1, <2>2
<1> HIDE DEF T
<1>6. Nat \subseteq T
  BY <1>4, <1>5, Induction
<1>7. m \in T
  BY <1>6
<1>8. \A v \in 0..m : Good(v)
  BY <1>7 DEF T
<1>9. QED
  BY <1>8 DEF Good

(* A number below 16^k has at most k digits.                                *)
LEMMA LowestFits ==
  ASSUME NEW m \in Nat, NEW f, Lowest(f, m, 16), NEW k \in Nat, m < Pow2(4 * k)
  PROVE  Len(f[m]) <= k
<1> DEFINE T == {j \in Nat : \A v \in 0..m : v < Pow2(4 * j) => Len(f[v]) <= j}
<1>0. 16 \in Radixes
  BY DEF Radixes
<1>1. \A v \in 0..m : f[v] = IF v = 0 THEN <<>> ELSE DigitIs(v, 16) \o f[Over(v, 16)]
  BY DEF Lowest
<1>2. 0 \in T
  <2>1. Pow2(4 * 0) = 1
    BY PowNext
  <2>2. ASSUME NEW v \in 0..m, v < 1
        PROVE  Len(f[v]) <= 0
    <3>1. f[v] = <<>>
      BY <1>1, <2>2
    <3>2. Len(<<>>) = 0
      OBVIOUS
    <3>3. QED
      BY <3>1, <3>2
  <2>3. QED
    BY <2>1, <2>2
<1>3. ASSUME NEW j \in Nat, j \in T
      PROVE  j + 1 \in T
  <2>1. PICK p \in Nat : p = Pow2(4 * j) /\ Pow2(4 * (j + 1)) = 16 * p
    <3>1. 4 * j \in Nat /\ 4 * (j + 1) = 4 * j + 4
      OBVIOUS
    <3>2. QED
      BY <3>1, PowIsNumber
  <2>2. ASSUME NEW v \in 0..m, v < 16 * p
        PROVE  Len(f[v]) <= j + 1
    <3>1. CASE v = 0
      <4>1. f[v] = <<>> /\ Len(<<>>) = 0
        BY <1>1, <3>1
      <4>2. QED
        BY <4>1
    <3>2. CASE v # 0
      <4>1. PICK u \in 0..m : u = Over(v, 16) /\ u < p
        <5>1. /\ Over(v, 16) \in Nat /\ Over(v, 16) <= v
              /\ v = 16 * Over(v, 16) + (v % 16) /\ v % 16 \in 0..15
          <6>1. v \in Nat
            OBVIOUS
          <6>2. QED
            BY <1>0, <6>1, Smaller
        <5>2. QED
          BY <2>2, <5>1
      <4>2. Len(f[u]) <= j /\ f[u] \in Seq(Digits)
        BY <1>0, <1>3, <2>1, <4>1, LowestReads
      <4>3. PICK t \in Seq(Digits) : t = f[u] /\ Len(t) <= j
        BY <4>2
      <4>4. PICK i \in 1..16 : i = (v % 16) + 1
        BY <1>0, Smaller
      <4>5. PICK c \in Digits : c = Lookup[(v % 16) + 1]
        BY <4>4, LookupIs
      <4>6. f[v] = <<c>> \o t
        BY <1>1, <3>2, <4>1, <4>3, <4>5 DEF DigitIs
      <4>7. <<c>> \in Seq(Digits) /\ Len(<<c>>) = 1
        OBVIOUS
      <4>8. Len(<<c>> \o t) = 1 + Len(t) /\ Len(t) \in Nat
        BY <4>7, ConcatProperties, LenProperties
      <4>9. QED
        BY <4>3, <4>6, <4>8
    <3>3. QED
      BY <3>1, <3>2
  <2>3. QED
    BY <2>1, <2>2
<1> HIDE DEF T
<1>4. Nat \subseteq T
  BY <1>2, <1>3, Induction
<1>5. k \in T /\ m \in 0..m
  BY <1>4
<1>6. QED
  BY <1>5 DEF T

LEMMA ItoaIs ==
  ASSUME NEW R \in Radixes, NEW v \in Nat
  PROVE  /\ Itoa(v, R) \in Seq(Digits) /\ Len(Itoa(v, R)) > 0
         /\ Plain(Itoa(v, R)) /\ Value(Itoa(v, R), R) = v
         /\ \A k \in Nat \ {0} : R = 16 /\ v < Pow2(4 * k) => Len(Itoa(v, R)) <= k
<1> DEFINE P(f) == f = [w \in 0..v |-> IF w = 0 THEN <<>> ELSE <<Lookup[(w % R) + 1]>> \o f[w \div R]]
           lowest == CHOOSE f : P(f)
<1>1. \E f : P(f)
  <2>1. PICK f : Lowest(f, v, R)
    BY LowestExists
  <2>2. P(f)
    BY <2>1 DEF Lowest, DigitIs, Over
  <2>3. QED
    BY <2>2
<1>2. P(lowest)
  BY <1>1
<1>3. Itoa(v, R) = IF v = 0 THEN <<"0">> ELSE Strrev(lowest[v])
  BY DEF Itoa
<1> HIDE DEF lowest
<1>4. Lowest(lowest, v, R)
  BY <1>2 DEF Lowest, DigitIs, Over
<1>5. lowest[v] \in Seq(Digits) /\ Reads(Strrev(lowest[v]), v, R)
  <2>1. v \in 0..v
    OBVIOUS
  <2>2. QED
    BY <1>4, <2>1, LowestReads
<1>6. CASE v = 0
  <2>1. PICK c \in Digits : c = "0" /\ Digit(c) = 0
    <3>1. Lookup[1] = "0" /\ 1 \in 1..16
      BY DEF Lookup
    <3>2. QED
      BY <3>1, LookupIs
  <2>a. <<>> \in Seq(Digits) /\ Value(<<>>, R) = 0
    BY ValueOfNone
  <2>2. PICK e \in Seq(Digits) : e = <<>> /\ Value(e, R) = 0
    BY <2>a
  <2>3. Append(e, c) = <<c>> /\ <<c>> \in Seq(Digits) /\ Len(<<c>>) = 1
    BY <2>2
  <2>4. Value(<<c>>, R) = R * 0 + 0
    BY <2>1, <2>2, <2>3, ValueNext
  <2>5. R * 0 + 0 = 0
    BY DEF Radixes
  <2>6. PICK w \in Seq(Digits) : w = Itoa(v, R) /\ Len(w) = 1 /\ Value(w, R) = 0
    BY <1>3, <1>6, <2>1, <2>3, <2>4, <2>5
  <2>7. Plain(w) /\ Len(w) > 0
    BY <2>6 DEF Plain
  <2>8. \A k \in Nat \ {0} : Len(w) <= k
    BY <2>6
  <2>9. QED
    BY <1>6, <2>6, <2>7, <2>8
<1>7. CASE v # 0
  <2>1. PICK w \in Seq(Digits) : /\ w = Strrev(lowest[v]) /\ Value(w, R) = v
                                 /\ Len(w) > 0 /\ w[1] # "0"
    BY <1>5, <1>7 DEF Reads
  <2>2. Itoa(v, R) = w
    BY <1>3, <1>7, <2>1
  <2>3. Len(w) = Len(lowest[v])
    BY <1>5, <2>1, StrrevIs DEF Back
  <2>4. ASSUME NEW k \in Nat \ {0}, R = 16, v < Pow2(4 * k)
        PROVE  Len(w) <= k
    BY <1>4, <2>3, <2>4, LowestFits
  <2>5. QED
    BY <2>1, <2>2, <2>4 DEF Plain
<1>8. QED
  BY <1>6, <1>7

LEMMA PaddedIs ==
  ASSUME NEW a \in Words
  PROVE  LET p == PrintedPadded(a) IN Len(p) = WordBits \div 4 /\ Value(p, 16) = a
<1>1. PICK q \in Nat \ {0} : q = WordBits \div 4 /\ WordBits = 4 * q
  BY LibAssumption
<1>2. 16 \in Radixes /\ WordBits \in Nat
  BY LibAssumption DEF Radixes
<1>3. a \in Nat /\ a < Pow2(4 * q)
  BY <1>1, <1>2, PowIsNumber DEF Words
<1>4. PICK s \in Seq(Digits) : s = Itoa(a, 16) /\ Len(s) <= q /\ Value(s, 16) = a
  BY <1>1, <1>2, <1>3, ItoaIs
<1>5. PICK n \in Nat : n = Len(s) /\ DOMAIN s = 1..n
  BY LenProperties
<1>6. PICK j \in Nat : j = q - n
  BY <1>4, <1>5
<1>7. "0" \in Digits
  <2>1. Lookup[1] = "0" /\ 1 \in 1..16
    BY DEF Lookup
  <2>2. QED
    BY <2>1, LookupIs
<1>8. PICK z : z = [i \in 1..j |-> "0"]
  OBVIOUS
<1>a. z \in [1..j -> Digits] /\ \A i \in 1..j : z[i] = "0"
  BY <1>7, <1>8
<1>b. z \in Seq(Digits) /\ Len(z) = j
  BY <1>a
<1>9. /\ z \o s \in Seq(Digits) /\ Len(z \o s) = Len(z) + Len(s)
      /\ \A k \in 1..Len(z)+Len(s) : (z \o s)[k] = IF k <= Len(z) THEN z[k] ELSE s[k - Len(z)]
  BY <1>b, ConcatProperties
<1>10. PICK p \in Seq(Digits) : /\ p = z \o s /\ Len(p) = q
                                /\ \A k \in 1..q : p[k] = IF k <= j THEN z[k] ELSE s[k - j]
  <2>1. Len(z) + Len(s) = q
    BY <1>b, <1>5, <1>6
  <2>2. QED
    BY <1>9, <1>b, <2>1
<1>11. DOMAIN p = 1..j+n
  <2>1. j + n = q
    BY <1>6
  <2>2. QED
    BY <1>10, <2>1, LenProperties
<1>12. \A i \in 1..j : p[i] = "0"
  <2>1. \A i \in 1..j : i \in 1..q /\ i <= j
    BY <1>6
  <2>2. QED
    BY <1>10, <1>a, <2>1
<1>13. \A i \in 1..n : p[j + i] = s[i]
  <2>1. \A i \in 1..n : j + i \in 1..q /\ ~ (j + i <= j) /\ (j + i) - j = i
    BY <1>6
  <2>2. QED
    BY <1>10, <2>1
<1>14. Value(p, 16) = Value(s, 16)
  BY <1>2, <1>5, <1>11, <1>12, <1>13, ValuePadded
<1>15. PrintedPadded(a) = p
  BY <1>1, <1>4, <1>5, <1>6, <1>8, <1>10 DEF PrintedPadded
<1>16. QED
  BY <1>1, <1>4, <1>10, <1>14, <1>15

LEMMA SignedIs ==
  ASSUME NEW s \in Seq(Digits)
  PROVE  (<<"-">> \o s)[1] = "-" /\ Tail(<<"-">> \o s) = s
<1>1. PICK S : S = Digits \cup {"-"}
  OBVIOUS
<1>2. PICK m \in Seq(S) : m = <<"-">> /\ Len(m) = 1 /\ m[1] = "-"
  <2>1. "-" \in S
    BY <1>1
  <2>2. <<"-">> \in Seq(S) /\ Len(<<"-">>) = 1 /\ <<"-">>[1] = "-"
    BY <2>1
  <2>3. QED
    BY <2>2
<1>3. PICK n \in Nat : n = Len(s)
  BY LenProperties
<1>4. s \in Seq(S)
  BY <1>1
<1>5. /\ m \o s \in Seq(S) /\ Len(m \o s) = Len(m) + Len(s)
      /\ \A k \in 1..Len(m)+Len(s) : (m \o s)[k] = IF k <= Len(m) THEN m[k] ELSE s[k - Len(m)]
  BY <1>4, ConcatProperties
<1>6. PICK d \in Seq(S) : d = m \o s /\ Len(d) = n + 1
                          /\ \A k \in 1..n+1 : d[k] = IF k <= 1 THEN m[k] ELSE s[k - 1]
  <2>1. Len(m) + Len(s) = n + 1
    BY <1>2, <1>3
  <2>2. QED
    BY <1>5, <1>2, <2>1
<1>7. d[1] = "-"
  <2>1. 1 \in 1..n+1 /\ 1 <= 1
    OBVIOUS
  <2>2. QED
    BY <1>2, <1>6, <2>1
<1>8. d # <<>>
  BY <1>6, EmptySeq
<1>9. /\ Tail(d) \in Seq(S) /\ Len(Tail(d)) = Len(d) - 1
      /\ \A i \in 1..Len(Tail(d)) : Tail(d)[i] = d[i + 1]
  BY <1>8, HeadTailProperties
<1>10. PICK t \in Seq(S) : t = Tail(d) /\ Len(t) = n /\ \A i \in 1..n : t[i] = d[i + 1]
  <2>1. Len(d) - 1 = n /\ Len(Tail(d)) = n
    BY <1>6, <1>9
  <2>2. QED
    BY <1>9, <2>1
<1>11. ASSUME NEW i \in 1..n
       PROVE  t[i] = s[i]
  <2>1. i + 1 \in 1..n+1 /\ ~ (i + 1 <= 1) /\ (i + 1) - 1 = i
    OBVIOUS
  <2>2. QED
    BY <1>6, <1>10, <2>1
<1>12. t = s
  BY <1>3, <1>4, <1>10, <1>11, SeqEqual
<1>13. QED
  BY <1>2, <1>6, <1>7, <1>10, <1>12

(* printf prints every word as its number, in each of its conversions.      *)
LEMMA NumbersAreRead == NumbersReadBack
<1> SUFFICES ASSUME NEW a \in Words
             PROVE  /\ LET u == Printed("u", a) IN Plain(u) /\ Value(u, 10) = a
                    /\ LET x == Printed("x", a) IN Plain(x) /\ Value(x, 16) = a
                    /\ LET p == Printed("#x", a) IN Len(p) = WordBits \div 4 /\ Value(p, 16) = a
                    /\ LET d == Printed("d", a)
                       IN  IF a < Pow2(WordBits - 1) THEN Plain(d) /\ Value(d, 10) = a
                           ELSE /\ d[1] = "-" /\ Plain(Tail(d))
                                /\ Value(Tail(d), 10) = Pow2(WordBits) - a
  BY DEF NumbersReadBack
<1>1. 10 \in Radixes /\ 16 \in Radixes
  BY DEF Radixes
<1>2. /\ WordBits \in Nat /\ Pow2(WordBits) \in Nat
      /\ a \in Nat /\ Pow2(WordBits) - a \in Nat
  BY LibAssumption, PowIsNumber DEF Words
<1>3. /\ Printed("u", a) = Itoa(a, 10) /\ Printed("x", a) = Itoa(a, 16)
      /\ Printed("#x", a) = PrintedPadded(a) /\ Printed("d", a) = PrintedSigned(a)
  BY DEF Printed
<1>4. Plain(Itoa(a, 10)) /\ Value(Itoa(a, 10), 10) = a
  BY <1>1, <1>2, ItoaIs
<1>5. Plain(Itoa(a, 16)) /\ Value(Itoa(a, 16), 16) = a
  BY <1>1, <1>2, ItoaIs
<1>6. Len(PrintedPadded(a)) = WordBits \div 4 /\ Value(PrintedPadded(a), 16) = a
  BY PaddedIs
<1>7. CASE a < Pow2(WordBits - 1)
  BY <1>3, <1>4, <1>5, <1>6, <1>7 DEF PrintedSigned
<1>8. CASE ~ (a < Pow2(WordBits - 1))
  <2>1. PICK s \in Seq(Digits) : /\ s = Itoa(Pow2(WordBits) - a, 10) /\ Plain(s)
                                 /\ Value(s, 10) = Pow2(WordBits) - a
    BY <1>1, <1>2, ItoaIs
  <2>2. PICK d : d = <<"-">> \o s /\ d[1] = "-" /\ Tail(d) = s
    BY SignedIs
  <2>3. PrintedSigned(a) = d
    BY <1>8, <2>1, <2>2 DEF PrintedSigned
  <2>4. QED
    BY <1>3, <1>4, <1>5, <1>6, <1>8, <2>1, <2>2, <2>3
<1>9. QED
  BY <1>7, <1>8

-----------------------------------------------------------------------------
(* Bytes in memory: n of them from src on go to dest.                       *)
Copied(m, dest, src, n) ==
  [a \in Address |-> IF a - dest \in 0..n-1 THEN m[a - dest + src] ELSE m[a]]

LEMMA MinIs ==
  ASSUME NEW S, NEW m \in S, m \in Int, \A y \in S : y \in Int /\ m <= y
  PROVE  Min(S) = m
<1>1. \A x \in S : (\A y \in S : x <= y) => x = m
  OBVIOUS
<1>2. \E x \in S : \A y \in S : x <= y
  OBVIOUS
<1>3. QED
  BY <1>1, <1>2 DEF Min

LEMMA MinOfTwo ==
  ASSUME NEW b \in Nat, NEW c \in Nat
  PROVE  Min({b, c}) = IF b <= c THEN b ELSE c
<1>1. CASE b <= c
  <2>1. b \in {b, c} /\ \A y \in {b, c} : y \in Int /\ b <= y
    BY <1>1
  <2>2. QED
    BY <1>1, <2>1, MinIs
<1>2. CASE ~ (b <= c)
  <2>1. c \in {b, c} /\ c \in Int /\ \A y \in {b, c} : y \in Int /\ c <= y
    BY <1>2
  <2>2. Min({b, c}) = c
    BY <2>1, MinIs
  <2>3. QED
    BY <1>2, <2>2
<1>3. QED
  BY <1>1, <1>2

LEMMA MovedRuns ==
  ASSUME NEW m, NEW dest, NEW src, NEW moves, NEW n \in Nat, DOMAIN moves = 1..n
  PROVE  \E h : Run(h, <<"move", dest, src>>, m, moves, n) /\ Moved(m, dest, src, moves) = h[n]
<1> DEFINE P(f) == f = [S \in SUBSET (1..n) |->
                          IF S = {} THEN m ELSE Move(f[S \ {Max(S)}], dest, src, moves[Max(S)])]
           it == CHOOSE f : P(f)
<1>1. \E f : P(f)
  <2>1. PICK g : Folded(g, <<"move", dest, src>>, m, moves, n)
    BY FoldExists
  <2>2. P(g)
    BY <2>1 DEF Folded, Op
  <2>3. QED
    BY <2>2
<1>2. P(it)
  BY <1>1
<1>3. Moved(m, dest, src, moves) = it[1..n]
  BY DEF Moved, FoldLeft, MapThenFoldSet, Move
<1> HIDE DEF it
<1>4. Folded(it, <<"move", dest, src>>, m, moves, n)
  BY <1>2 DEF Folded, Op
<1>5. QED
  BY <1>3, <1>4, FoldRuns

LEMMA MemsetRuns ==
  ASSUME NEW m, NEW s, NEW c, NEW len, NEW n \in Nat, DOMAIN Chunks(s, len) = 1..n
  PROVE  \E h : Run(h, <<"fill", s, c>>, m, Chunks(s, len), n) /\ Memset(m, s, c, len) = h[n]
<1> DEFINE moves == Chunks(s, len)
           P(f) == f = [S \in SUBSET (1..n) |->
                          IF S = {} THEN m ELSE Fill(f[S \ {Max(S)}], s, c, moves[Max(S)])]
           it == CHOOSE f : P(f)
<1>1. \E f : P(f)
  <2>1. PICK g : Folded(g, <<"fill", s, c>>, m, moves, n)
    BY FoldExists
  <2>2. P(g)
    BY <2>1 DEF Folded, Op
  <2>3. QED
    BY <2>2
<1>2. P(it)
  BY <1>1
<1>3. Memset(m, s, c, len) = it[1..n]
  BY DEF Memset, FoldLeft, MapThenFoldSet, Fill
<1> HIDE DEF it
<1>4. Folded(it, <<"fill", s, c>>, m, moves, n)
  BY <1>2 DEF Folded, Op
<1>5. QED
  BY <1>3, <1>4, FoldRuns

(* Moves that go upward: after j of them all below p[j] is done.            *)
Upward(moves, k, p, n) ==
  /\ p \in [0..k -> 0..n] /\ p[0] = 0 /\ p[k] = n /\ DOMAIN moves = 1..k
  /\ \A i \in 1..k : p[i-1] <= p[i] /\ moves[i] = <<p[i-1], p[i] - p[i-1]>>

LEMMA MoveOn ==
  ASSUME NEW m, NEW dest \in Nat, NEW src \in Nat, NEW n \in Nat,
         src + n <= Memory,
         \A i \in 0..n-1, e \in 0..n-1 : e < i => src + i # dest + e,
         NEW p \in 0..n, NEW q \in 0..n, p <= q
  PROVE  Move(Copied(m, dest, src, p), dest, src, <<p, q - p>>) = Copied(m, dest, src, q)
<1>0. Memory \in Nat
  BY LibAssumption
<1>1. PICK k : k = Copied(m, dest, src, p)
  OBVIOUS
<1>2. /\ DOMAIN k = Address
      /\ \A a \in Address : k[a] = IF a - dest \in 0..p-1 THEN m[a - dest + src] ELSE m[a]
  BY <1>1 DEF Copied
<1>3. p + (q - p) - 1 = q - 1
  OBVIOUS
<1>4. Move(k, dest, src, <<p, q - p>>)
        = [a \in Address |-> IF a - dest \in p..q-1 THEN k[a - dest + src] ELSE k[a]]
  BY <1>2, <1>3 DEF Move
<1>5. ASSUME NEW a \in Address
      PROVE  (IF a - dest \in p..q-1 THEN k[a - dest + src] ELSE k[a])
               = IF a - dest \in 0..q-1 THEN m[a - dest + src] ELSE m[a]
  <2>0. a \in Nat
    BY <1>0 DEF Address
  <2>1. CASE a - dest \in p..q-1
    <3>1. PICK b \in Address : b = a - dest + src
      BY <1>0, <2>0, <2>1 DEF Address
    <3>2. ~ (b - dest \in 0..p-1)
      <4>1. ASSUME b - dest \in 0..p-1
            PROVE  FALSE
        <5>1. PICK i \in 0..n-1, e \in 0..n-1 : i = a - dest /\ e = b - dest /\ e < i
          BY <2>0, <2>1, <3>1, <4>1
        <5>2. src + i = dest + e
          BY <2>0, <3>1, <5>1
        <5>3. QED
          BY <5>1, <5>2
      <4>2. QED
        BY <4>1
    <3>3. k[b] = m[b]
      BY <1>2, <3>2
    <3>4. a - dest \in 0..q-1
      BY <2>1
    <3>5. QED
      BY <2>1, <3>1, <3>3, <3>4
  <2>2. CASE ~ (a - dest \in p..q-1)
    <3>1. a - dest \in 0..q-1 <=> a - dest \in 0..p-1
      BY <2>0, <2>2
    <3>2. QED
      BY <1>2, <2>2, <3>1
  <2>3. QED
    BY <2>1, <2>2
<1>6. QED
  BY <1>1, <1>4, <1>5 DEF Copied

LEMMA NothingCopied ==
  ASSUME NEW m, m = [a \in Address |-> m[a]], NEW dest, NEW src
  PROVE  Copied(m, dest, src, 0) = m
<1>1. \A d : d \notin 0..(0-1)
  OBVIOUS
<1>2. QED
  BY <1>1 DEF Copied

LEMMA MovedUp ==
  ASSUME NEW m, m = [a \in Address |-> m[a]], NEW dest \in Nat, NEW src \in Nat, NEW n \in Nat,
         src + n <= Memory,
         \A i \in 0..n-1, e \in 0..n-1 : e < i => src + i # dest + e,
         NEW moves, NEW k \in Nat, NEW p, Upward(moves, k, p, n)
  PROVE  Moved(m, dest, src, moves) = Copied(m, dest, src, n)
<1>1. PICK op : op = <<"move", dest, src>>
  OBVIOUS
<1>a. DOMAIN moves = 1..k
  BY DEF Upward
<1>b. PICK h : Run(h, <<"move", dest, src>>, m, moves, k) /\ Moved(m, dest, src, moves) = h[k]
  BY <1>a, MovedRuns
<1>2. Run(h, op, m, moves, k) /\ Moved(m, dest, src, moves) = h[k]
  BY <1>1, <1>b
<1>3. \A y, x : Op(op, y, x) = Move(y, dest, src, x)
  BY <1>1 DEF Op
<1> DEFINE T == {i \in Nat : i <= k => h[i] = Copied(m, dest, src, p[i])}
<1>4. 0 \in T
  <2>1. h[0] = m /\ p[0] = 0
    BY <1>2 DEF Run, Upward
  <2>2. QED
    BY <2>1, NothingCopied
<1>5. ASSUME NEW i \in Nat, i \in T
      PROVE  i + 1 \in T
  <2>1. ASSUME i + 1 <= k
        PROVE  h[i + 1] = Copied(m, dest, src, p[i + 1])
    <3>1. i + 1 \in 1..k /\ (i + 1) - 1 = i /\ i \in 0..k /\ i + 1 \in 0..k
      BY <2>1
    <3>2. h[i] = Copied(m, dest, src, p[i])
      BY <1>5, <3>1
    <3>3. h[i + 1] = Op(op, h[i], moves[i + 1])
      BY <1>2, <3>1 DEF Run
    <3>4. PICK u \in 0..n, v \in 0..n : /\ u = p[i] /\ v = p[i + 1] /\ u <= v
                                         /\ moves[i + 1] = <<u, v - u>>
      BY <3>1 DEF Upward
    <3>5. Move(Copied(m, dest, src, u), dest, src, <<u, v - u>>) = Copied(m, dest, src, v)
      BY <3>4, MoveOn
    <3>6. QED
      BY <1>3, <3>2, <3>3, <3>4, <3>5
  <2>2. QED
    BY <2>1
<1> HIDE DEF T
<1>6. Nat \subseteq T
  BY <1>4, <1>5, Induction
<1>7. h[k] = Copied(m, dest, src, p[k])
  BY <1>6 DEF T
<1>8. QED
  BY <1>2, <1>7 DEF Upward

(* Bytes one by one go upward.                                              *)
LEMMA ByBytes ==
  ASSUME NEW n \in Nat
  PROVE  \E p : Upward([i \in 1..n |-> <<i - 1, 1>>], n, p, n)
<1>1. PICK p : p = [i \in 0..n |-> i]
  OBVIOUS
<1>2. \A i \in 1..n : p[i-1] = i - 1 /\ p[i] = i /\ i - (i - 1) = 1 /\ i - 1 <= i
  BY <1>1
<1>3. p \in [0..n -> 0..n] /\ p[0] = 0 /\ p[n] = n
  BY <1>1
<1>4. PICK moves : moves = [i \in 1..n |-> <<i - 1, 1>>]
  OBVIOUS
<1>5. DOMAIN moves = 1..n /\ \A i \in 1..n : moves[i] = <<i - 1, 1>>
  BY <1>4
<1>6. Upward(moves, n, p, n)
  BY <1>2, <1>3, <1>5 DEF Upward
<1>7. QED
  BY <1>4, <1>6

(* and so do the bytes and words of memset and memcpy.                      *)
LEMMA ByChunks ==
  ASSUME NEW at \in Nat, NEW n \in Nat
  PROVE  \E k, p : k \in Nat /\ Upward(Chunks(at, n), k, p, n)
<1>1. PICK head \in Nat : /\ head = IF at % 4 = 0 THEN 0 ELSE Min({n, 4 - (at % 4)})
                          /\ head <= n
  <2>1. CASE at % 4 = 0
    BY <2>1
  <2>2. CASE at % 4 # 0
    <3>1. PICK r \in Nat : r = 4 - (at % 4)
      BY <2>2
    <3>2. QED
      BY <2>2, <3>1, MinOfTwo
  <2>3. QED
    BY <2>1, <2>2
<1>2. PICK words \in Nat, rest \in Nat : /\ words = (n - head) \div 4 /\ rest = (n - head) % 4
                                          /\ n = head + 4 * words + rest
  BY <1>1
<1>3. PICK k \in Nat : k = head + words + rest
  OBVIOUS
<1>4. PICK moves : /\ moves = Chunks(at, n)
                   /\ moves = [i \in 1..k |->
                                 IF i <= head THEN <<i - 1, 1>>
                                 ELSE IF i <= head + words THEN <<head + (4 * (i - head - 1)), 4>>
                                 ELSE <<head + (4 * words) + (i - head - words - 1), 1>>]
  BY <1>1, <1>2, <1>3 DEF Chunks
<1>5. PICK p : p = [i \in 0..k |-> IF i <= head THEN i
                                   ELSE IF i <= head + words THEN head + 4 * (i - head)
                                   ELSE head + 4 * words + (i - head - words)]
  OBVIOUS
<1>6. p \in [0..k -> 0..n]
  <2>1. ASSUME NEW i \in 0..k
        PROVE  p[i] \in 0..n
    BY <1>2, <1>3, <1>5
  <2>2. QED
    BY <1>5, <2>1
<1>7. p[0] = 0 /\ p[k] = n
  BY <1>2, <1>3, <1>5
<1>8. ASSUME NEW i \in 1..k
      PROVE  p[i-1] <= p[i] /\ moves[i] = <<p[i-1], p[i] - p[i-1]>>
  <2>1. CASE i <= head
    <3>1. p[i-1] = i - 1 /\ p[i] = i /\ moves[i] = <<i - 1, 1>>
      BY <1>3, <1>4, <1>5, <2>1
    <3>2. i - (i - 1) = 1 /\ i - 1 <= i
      OBVIOUS
    <3>3. QED
      BY <3>1, <3>2
  <2>2. CASE i > head /\ i <= head + words
    <3>1. p[i] = head + 4 * (i - head)
      BY <1>5, <2>2
    <3>2. p[i-1] = head + 4 * (i - head - 1)
      BY <1>5, <2>2
    <3>3. moves[i] = <<head + (4 * (i - head - 1)), 4>>
      BY <1>4, <2>2
    <3>4. /\ (head + 4 * (i - head)) - (head + 4 * (i - head - 1)) = 4
          /\ head + 4 * (i - head - 1) <= head + 4 * (i - head)
      OBVIOUS
    <3>5. QED
      BY <3>1, <3>2, <3>3, <3>4
  <2>3. CASE i > head + words
    <3>1. p[i] = head + 4 * words + (i - head - words)
      BY <1>5, <2>3
    <3>2. p[i-1] = head + 4 * words + (i - head - words - 1)
      BY <1>5, <2>3
    <3>3. moves[i] = <<head + (4 * words) + (i - head - words - 1), 1>>
      BY <1>4, <2>3
    <3>4. /\ (head + 4 * words + (i - head - words))
               - (head + 4 * words + (i - head - words - 1)) = 1
          /\ head + 4 * words + (i - head - words - 1) <= head + 4 * words + (i - head - words)
      OBVIOUS
    <3>5. QED
      BY <3>1, <3>2, <3>3, <3>4
  <2>4. QED
    BY <2>1, <2>2, <2>3
<1>9. DOMAIN moves = 1..k
  BY <1>4
<1>10. Upward(moves, k, p, n)
  BY <1>6, <1>7, <1>8, <1>9 DEF Upward
<1>11. QED
  BY <1>4, <1>10

(* memset.                                                                  *)
AllSet(m, s, c, n) == [a \in Address |-> IF a - s \in 0..n-1 THEN c ELSE m[a]]

LEMMA MemsetIs ==
  ASSUME NEW m, m = [a \in Address |-> m[a]], NEW s \in Nat, NEW c, NEW n \in Nat
  PROVE  Memset(m, s, c, n) = AllSet(m, s, c, n)
<1>0. Address \subseteq Int
  BY LibAssumption DEF Address
<1>1. PICK k, p : k \in Nat /\ Upward(Chunks(s, n), k, p, n)
  BY ByChunks
<1>2. PICK moves : moves = Chunks(s, n)
  OBVIOUS
<1>3. PICK op : op = <<"fill", s, c>>
  OBVIOUS
<1>a. DOMAIN Chunks(s, n) = 1..k
  BY <1>1 DEF Upward
<1>b. PICK h : Run(h, <<"fill", s, c>>, m, Chunks(s, n), k) /\ Memset(m, s, c, n) = h[k]
  BY <1>1, <1>a, MemsetRuns
<1>4. Run(h, op, m, moves, k) /\ Memset(m, s, c, n) = h[k]
  BY <1>2, <1>3, <1>b
<1>5. \A y, x : Op(op, y, x) = Fill(y, s, c, x)
  BY <1>3 DEF Op
<1> DEFINE T == {i \in Nat : i <= k => h[i] = AllSet(m, s, c, p[i])}
<1>6. 0 \in T
  <2>1. h[0] = m /\ p[0] = 0
    BY <1>1, <1>4 DEF Run, Upward
  <2>2. \A d : d \notin 0..(0-1)
    OBVIOUS
  <2>3. AllSet(m, s, c, 0) = m
    BY <2>2 DEF AllSet
  <2>4. QED
    BY <2>1, <2>3
<1>7. ASSUME NEW i \in Nat, i \in T
      PROVE  i + 1 \in T
  <2>1. ASSUME i + 1 <= k
        PROVE  h[i + 1] = AllSet(m, s, c, p[i + 1])
    <3>1. i + 1 \in 1..k /\ (i + 1) - 1 = i /\ i \in 0..k /\ i + 1 \in 0..k
      BY <1>1, <2>1
    <3>2. h[i] = AllSet(m, s, c, p[i])
      BY <1>7, <3>1
    <3>3. h[i + 1] = Op(op, h[i], moves[i + 1])
      BY <1>4, <3>1 DEF Run
    <3>4. PICK u \in 0..n, v \in 0..n : /\ u = p[i] /\ v = p[i + 1] /\ u <= v
                                         /\ moves[i + 1] = <<u, v - u>>
      BY <1>1, <1>2, <3>1 DEF Upward
    <3>5. Fill(AllSet(m, s, c, u), s, c, <<u, v - u>>) = AllSet(m, s, c, v)
      <4>1. PICK f : f = AllSet(m, s, c, u)
        OBVIOUS
      <4>2. /\ DOMAIN f = Address
            /\ \A a \in Address : f[a] = IF a - s \in 0..u-1 THEN c ELSE m[a]
        BY <4>1 DEF AllSet
      <4>3. u + (v - u) - 1 = v - 1
        OBVIOUS
      <4>4. Fill(f, s, c, <<u, v - u>>) = [a \in Address |-> IF a - s \in u..v-1 THEN c ELSE f[a]]
        BY <4>2, <4>3 DEF Fill
      <4>5. ASSUME NEW a \in Address
            PROVE  (IF a - s \in u..v-1 THEN c ELSE f[a]) = IF a - s \in 0..v-1 THEN c ELSE m[a]
        <5>1. a - s \in 0..v-1 <=> a - s \in u..v-1 \/ a - s \in 0..u-1
          BY <1>0, <3>4
        <5>2. QED
          BY <4>2, <5>1
      <4>6. QED
        BY <4>1, <4>4, <4>5 DEF AllSet
    <3>6. QED
      BY <1>5, <3>2, <3>3, <3>4, <3>5
  <2>2. QED
    BY <2>1
<1> HIDE DEF T
<1>8. Nat \subseteq T
  BY <1>6, <1>7, Induction
<1>9. h[k] = AllSet(m, s, c, p[k])
  BY <1>1, <1>8 DEF T
<1>10. QED
  BY <1>1, <1>4, <1>9 DEF Upward

(* Two ranges that do not meet, and bytes that come from above or below:    *)
(* nothing is overwritten before it is read.                                *)
Apart(dest, src, n) == Span(src, n) \cap Span(dest, n) = {}

LEMMA ReadsFirst ==
  ASSUME NEW dest \in Nat, NEW src \in Nat, NEW n \in Nat
  PROVE  /\ Apart(dest, src, n) => \A i \in 0..n-1, e \in 0..n-1 : src + i # dest + e
         /\ dest <= src => \A i \in 0..n-1, e \in 0..n-1 : e < i => src + i # dest + e
<1>1. ASSUME Apart(dest, src, n), NEW i \in 0..n-1, NEW e \in 0..n-1, src + i = dest + e
      PROVE  FALSE
  <2>1. src + i \in Span(src, n) /\ dest + e \in Span(dest, n)
    BY DEF Span
  <2>2. QED
    BY <1>1, <2>1 DEF Apart
<1>2. QED
  BY <1>1

LEMMA MemcpyIs ==
  ASSUME NEW m, m = [a \in Address |-> m[a]], NEW dest \in Nat, NEW src \in Nat, NEW n \in Nat,
         src + n <= Memory, Apart(dest, src, n) \/ dest <= src
  PROVE  Memcpy(m, dest, src, n) = Copied(m, dest, src, n)
<1>1. PICK k, p : k \in Nat /\ Upward(Chunks(dest, n), k, p, n)
  BY ByChunks
<1>2. \A i \in 0..n-1, e \in 0..n-1 : e < i => src + i # dest + e
  BY ReadsFirst
<1>3. Moved(m, dest, src, Chunks(dest, n)) = Copied(m, dest, src, n)
  BY <1>1, <1>2, MovedUp
<1>4. QED
  BY <1>3 DEF Memcpy

(* memmove, when it goes down from the end.                                 *)
CopiedEnd(m, dest, src, j, n) ==
  [a \in Address |-> IF a - dest \in j..n-1 THEN m[a - dest + src] ELSE m[a]]

LEMMA MoveBack ==
  ASSUME NEW m, NEW dest \in Nat, NEW src \in Nat, NEW n \in Nat,
         src + n <= Memory, src < dest, NEW j \in 0..n-1
  PROVE  Move(CopiedEnd(m, dest, src, j + 1, n), dest, src, <<j, 1>>) = CopiedEnd(m, dest, src, j, n)
<1>0. Memory \in Nat
  BY LibAssumption
<1>1. PICK k : k = CopiedEnd(m, dest, src, j + 1, n)
  OBVIOUS
<1>2. /\ DOMAIN k = Address
      /\ \A a \in Address : k[a] = IF a - dest \in j+1..n-1 THEN m[a - dest + src] ELSE m[a]
  BY <1>1 DEF CopiedEnd
<1>3. j + 1 - 1 = j
  OBVIOUS
<1>4. Move(k, dest, src, <<j, 1>>)
        = [a \in Address |-> IF a - dest \in j..j THEN k[a - dest + src] ELSE k[a]]
  BY <1>2, <1>3 DEF Move
<1>5. ASSUME NEW a \in Address
      PROVE  (IF a - dest \in j..j THEN k[a - dest + src] ELSE k[a])
               = IF a - dest \in j..n-1 THEN m[a - dest + src] ELSE m[a]
  <2>0. a \in Nat
    BY <1>0 DEF Address
  <2>1. CASE a - dest = j
    <3>1. PICK b \in Address : b = a - dest + src
      BY <1>0, <2>0, <2>1 DEF Address
    <3>2. ~ (b - dest \in j+1..n-1)
      BY <2>0, <2>1, <3>1
    <3>3. k[b] = m[b]
      BY <1>2, <3>2
    <3>4. a - dest \in j..n-1 /\ a - dest \in j..j
      BY <2>1
    <3>5. QED
      BY <3>1, <3>3, <3>4
  <2>2. CASE a - dest # j
    <3>1. (a - dest \in j..n-1 <=> a - dest \in j+1..n-1) /\ a - dest \notin j..j
      BY <2>0, <2>2
    <3>2. QED
      BY <1>2, <3>1
  <2>3. QED
    BY <2>1, <2>2
<1>6. QED
  BY <1>1, <1>4, <1>5 DEF CopiedEnd

LEMMA MovedDown ==
  ASSUME NEW m, m = [a \in Address |-> m[a]], NEW dest \in Nat, NEW src \in Nat, NEW n \in Nat,
         src + n <= Memory, src < dest,
         NEW moves, DOMAIN moves = 1..n, \A i \in 1..n : moves[i] = <<n - i, 1>>
  PROVE  Moved(m, dest, src, moves) = Copied(m, dest, src, n)
<1>1. PICK op : op = <<"move", dest, src>>
  OBVIOUS
<1>b. PICK h : Run(h, <<"move", dest, src>>, m, moves, n) /\ Moved(m, dest, src, moves) = h[n]
  BY MovedRuns
<1>2. Run(h, op, m, moves, n) /\ Moved(m, dest, src, moves) = h[n]
  BY <1>1, <1>b
<1>3. \A y, x : Op(op, y, x) = Move(y, dest, src, x)
  BY <1>1 DEF Op
<1> DEFINE T == {i \in Nat : i <= n => h[i] = CopiedEnd(m, dest, src, n - i, n)}
<1>4. 0 \in T
  <2>1. h[0] = m /\ n - 0 = n
    BY <1>2 DEF Run
  <2>2. \A d : d \notin n..n-1
    OBVIOUS
  <2>3. CopiedEnd(m, dest, src, n, n) = m
    BY <2>2 DEF CopiedEnd
  <2>4. QED
    BY <2>1, <2>3
<1>5. ASSUME NEW i \in Nat, i \in T
      PROVE  i + 1 \in T
  <2>1. ASSUME i + 1 <= n
        PROVE  h[i + 1] = CopiedEnd(m, dest, src, n - (i + 1), n)
    <3>1. PICK j \in 0..n-1 : j = n - (i + 1) /\ n - i = j + 1
      BY <2>1
    <3>2. i + 1 \in 1..n /\ (i + 1) - 1 = i /\ h[i] = CopiedEnd(m, dest, src, j + 1, n)
      BY <1>5, <2>1, <3>1
    <3>3. h[i + 1] = Op(op, h[i], moves[i + 1])
      BY <1>2, <3>2 DEF Run
    <3>4. moves[i + 1] = <<j, 1>>
      BY <3>1, <3>2
    <3>5. Move(CopiedEnd(m, dest, src, j + 1, n), dest, src, <<j, 1>>) = CopiedEnd(m, dest, src, j, n)
      BY MoveBack
    <3>6. QED
      BY <1>3, <3>1, <3>2, <3>3, <3>4, <3>5
  <2>2. QED
    BY <2>1
<1> HIDE DEF T
<1>6. Nat \subseteq T
  BY <1>4, <1>5, Induction
<1>7. PICK z : z = n - n /\ z = 0
  OBVIOUS
<1>8. h[n] = CopiedEnd(m, dest, src, z, n)
  <2>1. \A i \in Nat : i <= n => h[i] = CopiedEnd(m, dest, src, n - i, n)
    BY <1>6 DEF T
  <2>2. n <= n
    OBVIOUS
  <2>3. h[n] = CopiedEnd(m, dest, src, n - n, n)
    BY <2>1, <2>2, Zenon
  <2>4. QED
    BY <1>7, <2>3, Zenon
<1>9. CopiedEnd(m, dest, src, 0, n) = Copied(m, dest, src, n)
  BY DEF CopiedEnd, Copied
<1>10. QED
  BY <1>2, <1>7, <1>8, <1>9

LEMMA MemmoveIs ==
  ASSUME NEW m, m = [a \in Address |-> m[a]], NEW dest \in Nat, NEW src \in Nat, NEW n \in Nat,
         src + n <= Memory
  PROVE  Memmove(m, dest, src, n) = Copied(m, dest, src, n)
<1>1. CASE src >= dest
  <2>1. PICK p : Upward([i \in 1..n |-> <<i - 1, 1>>], n, p, n)
    BY ByBytes
  <2>2. \A i \in 0..n-1, e \in 0..n-1 : e < i => src + i # dest + e
    BY <1>1, ReadsFirst
  <2>3. Moved(m, dest, src, [i \in 1..n |-> <<i - 1, 1>>]) = Copied(m, dest, src, n)
    BY <2>1, <2>2, MovedUp
  <2>4. [i \in 1..n |-> IF src >= dest THEN <<i - 1, 1>> ELSE <<n - i, 1>>]
          = [i \in 1..n |-> <<i - 1, 1>>]
    BY <1>1
  <2>5. QED
    BY <2>3, <2>4 DEF Memmove
<1>2. CASE ~ (src >= dest)
  <2>1. PICK moves : moves = [i \in 1..n |-> IF src >= dest THEN <<i - 1, 1>> ELSE <<n - i, 1>>]
    OBVIOUS
  <2>2. DOMAIN moves = 1..n /\ \A i \in 1..n : moves[i] = <<n - i, 1>>
    BY <1>2, <2>1
  <2>3. src < dest
    BY <1>2
  <2>4. Moved(m, dest, src, moves) = Copied(m, dest, src, n)
    BY <2>2, <2>3, MovedDown
  <2>5. QED
    BY <2>1, <2>4 DEF Memmove
<1>3. QED
  BY <1>1, <1>2

(* Strings: strncpy stops behind a NUL, and strncmp finds the same.         *)
StringCopied(m, dest, src, n, h) ==
  [a \in Address |-> IF a - dest \in h..n-1 THEN 0
                     ELSE IF a - dest \in 0..h-1 THEN m[a - dest + src] ELSE m[a]]

LEMMA StrncpyIs ==
  ASSUME NEW m, m = [a \in Address |-> m[a]], NEW dest \in Nat, NEW src \in Nat, NEW n \in Nat,
         src + n <= Memory, Apart(dest, src, n),
         NEW h \in 0..n-1, m[src + h] = 0, \A i \in 0..h-1 : m[src + i] # 0
  PROVE  Strncpy(m, dest, src, n) = StringCopied(m, dest, src, n, h)
<1>0. Memory \in Nat /\ DOMAIN m = Address /\ h \in Nat
  BY LibAssumption
<1>1. Strlen(m, src) = h
  <2>1. PICK S : S = {a \in src..Memory : a = Memory \/ m[a] = 0}
    OBVIOUS
  <2>2. PICK z \in S : z = src + h
    BY <1>0, <2>1
  <2>3. ASSUME NEW y \in S
        PROVE  y \in Int /\ z <= y
    <3>1. y \in Int /\ y >= src /\ (y = Memory \/ m[y] = 0)
      BY <1>0, <2>1
    <3>2. ASSUME y < z
          PROVE  FALSE
      <4>a. y \in Int /\ y >= src /\ y < src + h
        BY <2>2, <3>1, <3>2
      <4>b. y - src \in 0..h-1 /\ y = src + (y - src)
        BY <1>0, <4>a
      <4>1. PICK i \in 0..h-1 : y = src + i
        BY <4>b
      <4>2. y # Memory
        BY <1>0, <4>1
      <4>3. QED
        BY <3>1, <4>1, <4>2
    <3>3. QED
      BY <2>2, <3>1, <3>2
  <2>4. Min(S) = z
    BY <2>2, <2>3, MinIs
  <2>5. Strlen(m, src) = Min(S) - src
    BY <2>1 DEF Strlen
  <2>6. QED
    BY <1>0, <2>2, <2>4, <2>5
<1>2. Min({n, Strlen(m, src)}) = h
  BY <1>0, <1>1, MinOfTwo
<1>3. PICK c : c = Moved(m, dest, src, [i \in 1..h |-> <<i - 1, 1>>])
  OBVIOUS
<1>4. c = Copied(m, dest, src, h)
  <2>a. PICK moves : moves = [i \in 1..h |-> <<i - 1, 1>>]
    OBVIOUS
  <2>1. PICK p : Upward(moves, h, p, h)
    BY <1>0, <2>a, ByBytes
  <2>2. \A i \in 0..n-1, e \in 0..n-1 : src + i # dest + e
    BY ReadsFirst
  <2>3. \A i \in 0..h-1, e \in 0..h-1 : e < i => src + i # dest + e
    BY <1>0, <2>2
  <2>4. src + h <= Memory
    BY <1>0
  <2>5. Moved(m, dest, src, moves) = Copied(m, dest, src, h)
    BY <1>0, <2>1, <2>3, <2>4, MovedUp
  <2>6. QED
    BY <1>3, <2>a, <2>5
<1>5. Strncpy(m, dest, src, n) = [a \in DOMAIN m |-> IF a - dest \in h..n-1 THEN 0 ELSE c[a]]
  BY <1>2, <1>3 DEF Strncpy
<1>6. \A a \in Address : c[a] = IF a - dest \in 0..h-1 THEN m[a - dest + src] ELSE m[a]
  BY <1>4 DEF Copied
<1>7. \A a \in Address :
        (IF a - dest \in h..n-1 THEN 0 ELSE c[a])
          = IF a - dest \in h..n-1 THEN 0
            ELSE IF a - dest \in 0..h-1 THEN m[a - dest + src] ELSE m[a]
  BY <1>6, Zenon
<1>8. Strncpy(m, dest, src, n) = [a \in Address |-> IF a - dest \in h..n-1 THEN 0 ELSE c[a]]
  BY <1>0, <1>5
<1>9. QED
  BY <1>7, <1>8, Zenon DEF StringCopied

LEMMA CopySame ==
  ASSUME NEW m, m = [a \in Address |-> m[a]], NEW dest \in Nat, NEW src \in Nat, NEW n \in Nat,
         dest + n <= Memory, src + n <= Memory, Apart(dest, src, n),
         NEW h \in 0..n-1, m[src + h] = 0, \A i \in 0..h-1 : m[src + i] # 0
  PROVE  StrncmpSame(Strncpy(m, dest, src, n), dest, src, n)
<1>0. Memory \in Nat /\ h \in Nat
  BY LibAssumption
<1>a. PICK r : r = Strncpy(m, dest, src, n)
  OBVIOUS
<1>b. r = StringCopied(m, dest, src, n, h)
  BY <1>a, StrncpyIs
<1>1. \A a \in Address : r[a] = IF a - dest \in h..n-1 THEN 0
                                ELSE IF a - dest \in 0..h-1 THEN m[a - dest + src] ELSE m[a]
  BY <1>b DEF StringCopied
<1>2. ASSUME NEW i \in 0..n-1
      PROVE  /\ r[dest + i] = IF i < h THEN m[src + i] ELSE 0
             /\ r[src + i] = m[src + i]
  <2>1. dest + i \in Address /\ src + i \in Address
    BY <1>0 DEF Address
  <2>2. (dest + i) - dest = i /\ (dest + i) - dest + src = src + i
    OBVIOUS
  <2>3. (src + i) - dest \notin 0..n-1
    <3>1. \A e \in 0..n-1 : src + i # dest + e
      BY ReadsFirst
    <3>2. QED
      BY <3>1
  <2>4. (src + i) - dest \notin h..n-1 /\ (src + i) - dest \notin 0..h-1
    BY <1>0, <2>3
  <2>5. r[src + i] = m[src + i]
    BY <1>1, <2>1, <2>4
  <2>6. i \in h..n-1 <=> ~ (i < h)
    BY <1>0
  <2>7. i \in 0..h-1 <=> i < h
    BY <1>0
  <2>8. r[dest + i] = IF i < h THEN m[src + i] ELSE 0
    BY <1>1, <2>1, <2>2, <2>6, <2>7
  <2>9. QED
    BY <2>5, <2>8
<1>3. PICK stop : stop = {i \in 0..n-1 : r[dest + i] # r[src + i] \/ r[dest + i] = 0}
  OBVIOUS
<1>4. h \in stop /\ r[dest + h] = 0 /\ r[src + h] = 0
  BY <1>0, <1>2, <1>3
<1>5. ASSUME NEW i \in stop
      PROVE  i \in Int /\ h <= i
  <2>1. i \in 0..n-1
    BY <1>3
  <2>2. ASSUME i < h
        PROVE  FALSE
    <3>a. i \in 0..h-1
      BY <1>0, <2>1, <2>2
    <3>1. r[dest + i] = m[src + i] /\ r[src + i] = m[src + i] /\ m[src + i] # 0
      BY <1>2, <2>1, <2>2, <3>a
    <3>2. QED
      BY <1>3, <3>1
  <2>3. QED
    BY <1>0, <2>1, <2>2
<1>6. Min(stop) = h
  BY <1>0, <1>4, <1>5, MinIs
<1>7. StrncmpSame(r, dest, src, n)
  BY <1>3, <1>4, <1>6 DEF StrncmpSame
<1>8. QED
  BY <1>a, <1>7

(* Bytes end up where they should, for every alignment and length.          *)
LEMMA BytesAreInPlace == BytesInPlace
<1>0. Memory \in Nat
  BY LibAssumption
<1>1. /\ Numbered = [a \in Address |-> Numbered[a]]
      /\ \A a \in Address : Numbered[a] = a + 1
  BY DEF Numbered
<1>2. ASSUME NEW dest \in Address, NEW n \in 0..Memory, dest + n <= Memory
      PROVE  Memset(Numbered, dest, 0, n) = [a \in Address |-> IF a \in Span(dest, n) THEN 0 ELSE a + 1]
  <2>1. dest \in Nat /\ n \in Nat
    BY <1>0 DEF Address
  <2>2. Memset(Numbered, dest, 0, n) = AllSet(Numbered, dest, 0, n)
    BY <1>1, <2>1, MemsetIs
  <2>3. \A a \in Address : a \in Span(dest, n) <=> a - dest \in 0..n-1
    BY <1>0, <2>1 DEF Span, Address
  <2>4. QED
    BY <1>1, <2>2, <2>3 DEF AllSet
<1>3. ASSUME NEW dest \in Address, NEW n \in 0..Memory, dest + n <= Memory, NEW src \in 0..Memory-n
      PROVE  LET copy  == [a \in Address |-> IF a \in Span(dest, n) THEN a - dest + src + 1
                                                                   ELSE a + 1]
                 apart == Span(src, n) \cap Span(dest, n) = {}
                 named == [Numbered EXCEPT ![src + (n \div 2)] = 0]
             IN  /\ Memmove(Numbered, dest, src, n) = copy
                 /\ apart \/ dest <= src => Memcpy(Numbered, dest, src, n) = copy
                 /\ n > 0 /\ apart =>
                      /\ StrncmpSame(Strncpy(named, dest, src, n), dest, src, n)
                      /\ ~StrncmpSame(Numbered, dest, src, n)
  <2>1. dest \in Nat /\ n \in Nat /\ src \in Nat /\ src + n <= Memory
    BY <1>0, <1>3 DEF Address
  <2>2. PICK copy : copy = [a \in Address |-> IF a \in Span(dest, n) THEN a - dest + src + 1
                                                                    ELSE a + 1]
    OBVIOUS
  <2>3. Copied(Numbered, dest, src, n) = copy
    <3>1. ASSUME NEW a \in Address
          PROVE  (IF a - dest \in 0..n-1 THEN Numbered[a - dest + src] ELSE Numbered[a])
                   = IF a \in Span(dest, n) THEN a - dest + src + 1 ELSE a + 1
      <4>1. a \in Nat /\ (a \in Span(dest, n) <=> a - dest \in 0..n-1)
        BY <1>0, <2>1 DEF Span, Address
      <4>2. a - dest \in 0..n-1 => a - dest + src \in Address
        BY <1>0, <2>1, <4>1 DEF Address
      <4>3. QED
        BY <1>1, <4>1, <4>2
    <3>2. QED
      BY <2>2, <3>1 DEF Copied
  <2>4. Memmove(Numbered, dest, src, n) = copy
    BY <1>1, <2>1, <2>3, MemmoveIs
  <2>5. Apart(dest, src, n) \/ dest <= src => Memcpy(Numbered, dest, src, n) = copy
    BY <1>1, <2>1, <2>3, MemcpyIs
  <2>6. PICK named : named = [Numbered EXCEPT ![src + (n \div 2)] = 0]
    OBVIOUS
  <2>7. ASSUME n > 0, Apart(dest, src, n)
        PROVE  StrncmpSame(Strncpy(named, dest, src, n), dest, src, n)
    <3>1. PICK h \in 0..n-1 : h = n \div 2 /\ src + h \in Address
      BY <1>0, <2>1, <2>7 DEF Address
    <3>2. /\ named = [a \in Address |-> named[a]] /\ named[src + h] = 0
          /\ \A a \in Address : a # src + h => named[a] = a + 1
      BY <1>1, <2>6, <3>1
    <3>3. ASSUME NEW i \in 0..h-1
          PROVE  named[src + i] # 0
      <4>1. src + i \in Address /\ src + i # src + h /\ src + i + 1 # 0
        BY <1>0, <2>1, <3>1 DEF Address
      <4>2. QED
        BY <3>2, <4>1
    <3>4. QED
      BY <1>3, <2>1, <2>7, <3>2, <3>3, CopySame
  <2>8. ASSUME n > 0, Apart(dest, src, n)
        PROVE  ~ StrncmpSame(Numbered, dest, src, n)
    <3>1. src # dest
      <4>1. 0 \in 0..n-1
        BY <2>1, <2>8
      <4>2. src + 0 # dest + 0
        BY <2>1, <2>8, <4>1, ReadsFirst
      <4>3. QED
        BY <4>2
    <3>2. dest + 0 \in Address /\ src + 0 \in Address
      BY <1>0, <2>1, <2>8 DEF Address
    <3>3. Numbered[dest + 0] # Numbered[src + 0]
      BY <1>1, <2>1, <3>1, <3>2
    <3>4. PICK stop : stop = {i \in 0..n-1 : Numbered[dest + i] # Numbered[src + i] \/ Numbered[dest + i] = 0}
      OBVIOUS
    <3>5. 0 \in stop /\ \A i \in stop : i \in Int /\ 0 <= i
      BY <2>1, <2>8, <3>3, <3>4
    <3>6. Min(stop) = 0
      BY <3>5, MinIs
    <3>7. stop # {}
      BY <3>5
    <3>8. QED
      BY <3>3, <3>4, <3>6, <3>7 DEF StrncmpSame
  <2>9. QED
    BY <2>2, <2>4, <2>5, <2>6, <2>7, <2>8 DEF Apart
<1>4. QED
  BY <1>2, <1>3 DEF BytesInPlace

-----------------------------------------------------------------------------
(* What the kernel says of a terminal.                                     *)
LEMMA DigitLetters == Digits \subseteq Letter
<1>1. DOMAIN Lookup = 1..16
  BY DEF Lookup
<1>2. ASSUME NEW i \in 1..16
      PROVE  Lookup[i] \in Letter
  <2>1. Lookup[i] # NUL /\ Lookup[i] # LF
    BY DEF Lookup, NUL, LF
  <2>2. Lookup[i] \in Range(Lookup)
    BY <1>1 DEF Range
  <2>3. QED
    BY <2>1, <2>2 DEF Letter, Char
<1>3. QED
  BY <1>1, <1>2 DEF Digits, Range

BannerIs(s, n) == n \in Nat \ {0} /\ DOMAIN s = 1..n /\ \A i \in 1..n : s[i] \in Letter \cup {LF}

LEMMA BannerLetters ==
  ASSUME Enough, NEW t \in Term
  PROVE  \E n : BannerIs(Banner(t), n)
<1>1. t \in Nat /\ t < Pow2(WordBits - 1)
  <2>1. PICK p \in Nat : p = Pow2(WordBits - 1)
    <3>1. WordBits - 1 \in Nat
      BY LibAssumption
    <3>2. QED
      BY <3>1, PowIsNumber
  <2>2. QED
    BY <2>1, Screen DEF Enough, Term
<1>2. Printed("d", t) = Itoa(t, 10)
  BY <1>1 DEF Printed, PrintedSigned
<1>3. PICK S : S = Letter \cup {LF}
  OBVIOUS
<1>4. Printed("d", t) \in Seq(Letter)
  <2>1. 10 \in Radixes
    BY DEF Radixes
  <2>2. Itoa(t, 10) \in Seq(Digits)
    BY <1>1, <2>1, ItoaIs
  <2>3. QED
    BY <1>2, <2>2, DigitLetters
<1>5. PICK d \in Seq(S) : d = Printed("d", t)
  BY <1>3, <1>4
<1>6. <<"t">> \in Seq(S) /\ <<LF>> \in Seq(S) /\ Len(<<"t">>) = 1
  BY <1>3, Characters
<1>7. <<"t">> \o d \in Seq(S) /\ Len(<<"t">> \o d) = 1 + Len(d)
  BY <1>6, ConcatProperties
<1>8. PICK w \in Seq(S) : w = <<"t">> \o d /\ Len(w) = 1 + Len(d)
  BY <1>7
<1>9. PICK b \in Seq(S) : b = w \o <<LF>> /\ Len(b) = Len(w) + 1
  <2>1. Len(<<LF>>) = 1
    OBVIOUS
  <2>2. w \o <<LF>> \in Seq(S) /\ Len(w \o <<LF>>) = Len(w) + 1
    BY <1>6, <2>1, ConcatProperties
  <2>3. QED
    BY <2>2
<1>10. b = Banner(t)
  BY <1>5, <1>8, <1>9 DEF Banner
<1>11. Len(d) \in Nat
  BY LenProperties
<1>12. DOMAIN b = 1..Len(b) /\ \A i \in 1..Len(b) : b[i] \in S
  BY LenProperties
<1>13. Len(b) \in Nat \ {0}
  BY <1>8, <1>9, <1>11
<1>14. BannerIs(b, Len(b))
  BY <1>3, <1>12, <1>13 DEF BannerIs
<1>15. QED
  BY <1>10, <1>14

-----------------------------------------------------------------------------
(* The invariant.  Terminals that are not on the screen are kept in their   *)
(* pages, and the line that is typed lies in front of the cursor.          *)
Texts == {rows \in Seq(Seq(Letter)) : Text(rows)}

ConsoleType ==
  /\ con \in Consoles /\ curr_term_ID \in Term /\ cursor \in [Term -> Cells]
  /\ schedule_term_ID \in 0..Terms /\ booted \in BOOLEAN
  /\ writing \in [s : Term, rest : Seq(Char)] /\ keyb \in Seq(Keys)
  /\ told \in [Term -> Texts]

InTurn ==
  /\ booted => schedule_term_ID = Terms
  /\ IF schedule_term_ID = 0 THEN curr_term_ID = 0 ELSE curr_term_ID \in Started
  /\ writing # Idle => keyb = <<>> /\ writing.s = curr_term_ID /\ schedule_term_ID > 0
  /\ keyb # <<>> => booted

Shelved(t) == ShowsRows(con.pages[t + 1], told[t]) /\ cursor[t] = End(told[t])
InFront(t) == /\ OnScreen(con, told[t])
              /\ con.pos = Place(con) \/ (booted /\ told[t] = NoText)

Screens == \A t \in Started : IF t = curr_term_ID THEN InFront(t) ELSE Shelved(t)

Width(c) == Len(Echo(c))

(* How many cells the first i characters of a line take at most.           *)
Most(i) == IF i <= KeybMax THEN i * TabWidth ELSE KeybMax * TabWidth + (i - KeybMax)

Typed(rows, keys, tr, st) ==
  /\ st[0] = 0 /\ Trail(rows, tr, st[Len(keys)])
  /\ \A i \in 0..Len(keys) : st[i] \in Nat /\ st[i] <= Most(i)
  /\ \A i \in 0..Len(keys), j \in 0..Len(keys) : i <= j => st[i] <= st[j]
  /\ \A i \in 1..Len(keys) :
       /\ st[i] = st[i-1] + Width(keys[i])
       /\ \A e \in 1..Width(keys[i]) : tr[st[i-1] + e] = Echo(keys[i])[e]

TypedIn(rows, keys) == \E tr, st : Typed(rows, keys, tr, st)

ConsoleInv == ConsoleType /\ InTurn /\ Screens /\ TypedIn(told[curr_term_ID], keyb)

-----------------------------------------------------------------------------
LEMMA EchoIs ==
  ASSUME NEW c \in Keys
  PROVE  /\ Width(c) \in Nat \ {0} /\ Width(c) <= TabWidth /\ DOMAIN Echo(c) = 1..Width(c)
         /\ \A e \in 1..Width(c) : Echo(c)[e] \in Letter /\ Echo(c)[e] = IF c = TAB THEN Blank ELSE c
         /\ c # TAB => Width(c) = 1
<1>1. c \in Letter /\ Blank \in Letter
  BY Screen, Characters DEF Letter, Char
<1>2. CASE c = TAB
  <2>1. PICK s : s = Echo(c) /\ s = [i \in 1..TabWidth |-> Blank]
    BY <1>2 DEF Echo
  <2>2. DOMAIN s = 1..TabWidth /\ \A e \in 1..TabWidth : s[e] = Blank
    BY <2>1
  <2>3. Len(s) = TabWidth
    BY <2>1, Screen
  <2>4. QED
    BY <1>1, <1>2, <2>1, <2>2, <2>3, Screen DEF Width
<1>3. CASE c # TAB
  <2>1. Echo(c) = <<c>>
    BY <1>3 DEF Echo
  <2>2. Width(c) = 1 /\ DOMAIN Echo(c) = 1..1 /\ Echo(c)[1] = c
    BY <2>1 DEF Width
  <2>3. QED
    BY <1>1, <1>3, <2>2, Screen
<1>4. QED
  BY <1>2, <1>3

LEMMA NothingTyped ==
  ASSUME NEW rows, Text(rows)
  PROVE  TypedIn(rows, <<>>)
<1>1. 0 <= End(rows)
  <2>1. PICK n \in Nat : n = Len(rows) - 1
    BY TextIs
  <2>2. Row(n) \in Nat /\ Last1(rows) \in Nat
    BY <2>1, TextIs, RowNext DEF Cols
  <2>3. End(rows) = Row(n) + Last1(rows)
    BY <2>1, TextIs
  <2>4. QED
    BY <2>2, <2>3
<1>2. PICK st : st = [i \in 0..0 |-> 0]
  OBVIOUS
<1>3. st[0] = 0 /\ Len(<<>>) = 0 /\ Most(0) = 0
  BY <1>2, Screen DEF Most
<1>4. Trail(rows, st, 0)
  BY <1>1 DEF Trail
<1>5. Typed(rows, <<>>, st, st)
  BY <1>3, <1>4 DEF Typed
<1>6. QED
  BY <1>5 DEF TypedIn

LEMMA NoTextIs ==
  /\ Text(NoText) /\ NoText \in Texts /\ Len(NoText) = 1 /\ Last1(NoText) = 0
  /\ \A a \in Rows, j \in Cols : TextAt(NoText, a, j) = Blank
<1>1. Len(NoText) = 1 /\ NoText[1] = <<>> /\ Len(<<>>) = 0
  BY DEF NoText
<1>2. <<>> \in Seq(Letter)
  OBVIOUS
<1>3. PICK Str : Str = Seq(Letter)
  OBVIOUS
<1>4. NoText \in Seq(Str)
  BY <1>2, <1>3 DEF NoText
<1>5. Text(NoText)
  BY <1>1, <1>3, <1>4, Screen DEF Text, TextOver
<1>6. Last1(NoText) = 0
  BY <1>1 DEF Last1
<1>7. ASSUME NEW a \in Rows, NEW j \in Cols
      PROVE  TextAt(NoText, a, j) = Blank
  <2>1. ~ Filled(NoText, a, j)
    <3>1. a \in Nat /\ j \in Nat
      BY Screen DEF Rows, Cols
    <3>2. a < 1 => a + 1 = 1
      BY <3>1
    <3>3. QED
      BY <1>1, <3>1, <3>2 DEF Filled
  <2>2. QED
    BY <2>1 DEF TextAt
<1>8. NoText \in Texts
  BY <1>3, <1>4, <1>5 DEF Texts
<1>9. QED
  BY <1>1, <1>5, <1>6, <1>7, <1>8

Cleared(u, k) == OnScreen(u, NoText) /\ \A v \in 1..Terms : u.pages[v] = k.pages[v]

LEMMA Clears ==
  ASSUME NEW k \in Consoles
  PROVE  Cleared(Clear(k), k)
<1>1. PICK mem \in Memories : mem = [p \in Cells |-> Blank]
  BY DEF Memories, Glyph
<1>2. k.pages \in Pages /\ k.pos \in Cells
  BY DEF Consoles
<1>3. PICK pg : pg = [k.pages EXCEPT ![0] = mem]
  OBVIOUS
<1>4. pg \in Pages /\ pg[0] = mem /\ \A v \in 1..Terms : pg[v] = k.pages[v]
  BY <1>2, <1>3, PageWritten
<1>5. PICK u : u = [pages |-> pg, x |-> 0, y |-> 0, pos |-> k.pos]
  OBVIOUS
<1>6. Clear(k) = u
  <2>1. Clear(k) = [k EXCEPT !.pages[0] = mem, !.x = 0, !.y = 0]
    BY <1>1 DEF Clear
  <2>2. QED
    BY <1>3, <1>5, <2>1 DEF Consoles
<1>7. 0 \in Cols /\ 0 \in Rows
  BY Screen DEF Rows, Cols
<1>8. u \in Consoles /\ u.pages = pg /\ u.x = 0 /\ u.y = 0
  BY <1>2, <1>4, <1>5, <1>7 DEF Consoles
<1>9. ShowsRows(mem, NoText)
  <2>1. ASSUME NEW a \in Rows, NEW j \in Cols
        PROVE  Seen(mem[Row(a) + j]) = TextAt(NoText, a, j)
    <3>1. mem[Row(a) + j] = Blank
      BY <1>1, CellOf
    <3>2. Seen(Blank) = Blank
      BY DEF Seen, Blank, NUL
    <3>3. QED
      BY <3>1, <3>2, NoTextIs
  <2>2. QED
    BY <2>1 DEF ShowsRows
<1>10. QED
  BY <1>4, <1>6, <1>8, <1>9, NoTextIs DEF Cleared, OnScreen

LEMMA MeantIs ==
  ASSUME NEW rows, Text(rows), NEW a \in Rows, NEW j \in Cols
  PROVE  Meant(rows, Row(a) + j) = TextAt(rows, a, j)
<1>1. (Row(a) + j) \div NUM_COLS = a /\ (Row(a) + j) % NUM_COLS = j
  BY CellOf
<1>2. a \in Nat /\ j \in Nat
  BY Screen DEF Rows, Cols
<1>3. PICK n \in Nat : n = Len(rows)
  BY TextIs
<1>4. a + 1 <= n <=> a < n
  BY <1>2
<1>5. a < n => (j + 1 <= Len(rows[a+1]) <=> j < Len(rows[a+1]))
  <2>1. CASE a < n
    <3>1. a + 1 \in 1..n
      BY <1>2, <2>1
    <3>2. Len(rows[a+1]) \in 0..NUM_COLS
      BY <1>3, <3>1, TextIs
    <3>3. QED
      BY <1>2, <3>2, Screen
  <2>2. QED
    BY <2>1
<1>6. QED
  BY <1>1, <1>3, <1>4, <1>5 DEF Meant, TextAt, Filled

LEMMA InvGives ==
  ASSUME ConsoleInv
  PROVE  ShowsItsText /\ CursorAtEnd /\ NeverBeforeScreen
<1>1. ConsoleType /\ InTurn /\ Screens /\ TypedIn(told[curr_term_ID], keyb)
  BY DEF ConsoleInv
<1>2. Started \subseteq Term
  BY <1>1, Screen DEF ConsoleType, Started, Term
<1>3. \A t \in Started : told[t] \in Texts
  BY <1>1, <1>2 DEF ConsoleType
<1>4. \A t \in Started : Text(told[t])
  BY <1>3 DEF Texts
<1>5. ASSUME NEW t \in Started
      PROVE  ShowsRows(Page(t), told[t]) /\ CursorOf(t) = End(told[t])
  <2>1. CASE t = curr_term_ID
    <3>1. OnScreen(con, told[t])
      BY <1>1, <2>1 DEF Screens, InFront
    <3>2. QED
      BY <2>1, <3>1, EndPlace DEF OnScreen, Page, CursorOf
  <2>2. CASE t # curr_term_ID
    <3>1. Shelved(t)
      BY <1>1, <2>2 DEF Screens
    <3>2. QED
      BY <2>2, <3>1 DEF Shelved, Page, CursorOf
  <2>3. QED
    BY <2>1, <2>2
<1>6. ShowsItsText
  <2>1. ASSUME NEW t \in Started, NEW p \in Cells
        PROVE  Seen(Page(t)[p]) = Meant(told[t], p)
    <3>1. PICK a \in Rows, j \in Cols : p = Row(a) + j
      BY CellIn DEF Rows, Cols
    <3>2. Seen(Page(t)[p]) = TextAt(told[t], a, j)
      BY <1>5, <3>1 DEF ShowsRows
    <3>3. Meant(told[t], p) = TextAt(told[t], a, j)
      BY <1>4, <3>1, MeantIs
    <3>4. QED
      BY <3>2, <3>3
  <2>2. QED
    BY <2>1 DEF ShowsItsText
<1>7. CursorAtEnd
  BY <1>5 DEF CursorAtEnd
<1>8. ASSUME keyb # <<>>
      PROVE  Place(con) >= Len(Echo(Last(keyb)))
  <2>1. curr_term_ID \in Started
    BY <1>1, <1>8, Screen DEF InTurn
  <2>2. Place(con) = End(told[curr_term_ID]) /\ Place(con) \in Cells
    BY <1>1, <2>1, EndPlace DEF Screens, InFront
  <2>3. PICK tr, st : Typed(told[curr_term_ID], keyb, tr, st)
    BY <1>1 DEF TypedIn
  <2>4. keyb \in Seq(Keys)
    BY <1>1 DEF ConsoleType
  <2>5. PICK n \in Nat \ {0} : n = Len(keyb) /\ Last(keyb) = keyb[n] /\ keyb[n] \in Keys
    BY <1>8, <2>4 DEF Last
  <2>6. n \in 1..n /\ n - 1 \in 0..n /\ n \in 0..n
    BY <2>5
  <2>7. st[n] = st[n-1] + Width(keyb[n]) /\ st[n-1] \in Nat /\ st[n] \in Nat
    BY <2>3, <2>5, <2>6 DEF Typed
  <2>8. st[n] <= End(told[curr_term_ID])
    BY <2>3, <2>5 DEF Typed, Trail
  <2>9. Width(keyb[n]) \in Nat /\ Len(Echo(Last(keyb))) = Width(keyb[n])
    BY <2>5, EchoIs DEF Width
  <2>10. Place(con) \in Int
    BY <2>2 DEF Cells
  <2>11. QED
    BY <2>2, <2>7, <2>8, <2>9, <2>10
<1>9. QED
  BY <1>6, <1>7, <1>8 DEF NeverBeforeScreen

LEMMA InitInv ==
  ASSUME Init
  PROVE  ConsoleInv
<1>1. 0 \in Cols /\ 0 \in Rows /\ 0 \in Cells /\ 0 \in Term /\ 0 \in 0..Terms
  <2>1. Row(0) + 0 \in Cells
    BY CellOf, Screen DEF Rows, Cols
  <2>2. QED
    BY <2>1, RowNext, Screen DEF Rows, Cols, Term
<1>2. Unknown \in Memories
  BY DEF Unknown, Memories, Glyph
<1>3. [v \in 0..Terms |-> Unknown] \in Pages
  BY <1>2 DEF Pages
<1>4. con \in Consoles
  BY <1>1, <1>3 DEF Init, Consoles
<1>5. writing \in [s : Term, rest : Seq(Char)] /\ writing = Idle
  BY <1>1 DEF Init, Idle
<1>6. told \in [Term -> Texts] /\ told[curr_term_ID] = NoText
  BY <1>1, NoTextIs DEF Init
<1>7. ConsoleType
  <2>1. cursor \in [Term -> Cells] /\ keyb \in Seq(Keys)
    BY <1>1 DEF Init
  <2>2. curr_term_ID \in Term /\ schedule_term_ID \in 0..Terms /\ booted \in BOOLEAN
    BY <1>1 DEF Init
  <2>3. QED
    BY <1>4, <1>5, <1>6, <2>1, <2>2 DEF ConsoleType
<1>8. InTurn
  BY <1>5 DEF Init, InTurn
<1>9. Screens
  BY DEF Init, Screens, Started
<1>10. TypedIn(told[curr_term_ID], keyb)
  BY <1>6, NoTextIs, NothingTyped DEF Init
<1>11. QED
  BY <1>7, <1>8, <1>9, <1>10 DEF ConsoleInv

-----------------------------------------------------------------------------
(* The terminal on the screen is written to, and no other.                 *)
LEMMA TextTyped ==
  ASSUME NEW rows, Text(rows)
  PROVE  rows \in Texts
<1>1. PICK Str : Str = Seq(Letter)
  OBVIOUS
<1>2. rows \in Seq(Str)
  BY <1>1 DEF Text, TextOver
<1>3. QED
  BY <1>1, <1>2 DEF Texts

Rest == /\ con \in Consoles /\ told \in [Term -> Texts] /\ Screens
        /\ curr_term_ID \in Term /\ cursor \in [Term -> Cells]
        /\ schedule_term_ID \in 0..Terms /\ booted \in BOOLEAN
        /\ booted => schedule_term_ID = Terms
        /\ curr_term_ID \in Started /\ schedule_term_ID # 0

LEMMA Rewritten ==
  ASSUME ConsoleInv, curr_term_ID \in Started, NEW rows, OnScreen(con', rows),
         con'.pos = Place(con') \/ (booted /\ rows = NoText),
         \A v \in 1..Terms : con'.pages[v] = con.pages[v],
         told' = [told EXCEPT ![curr_term_ID] = rows], UNCHANGED <<terms, boot>>
  PROVE  Rest' /\ told'[curr_term_ID'] = rows /\ Text(rows)
<1>1. ConsoleType /\ InTurn /\ Screens
  BY DEF ConsoleInv
<1>2. /\ curr_term_ID' = curr_term_ID /\ cursor' = cursor
      /\ schedule_term_ID' = schedule_term_ID /\ booted' = booted
  BY DEF terms, boot
<1>3. Text(rows) /\ rows \in Texts
  BY TextTyped DEF OnScreen
<1>4. curr_term_ID \in Term /\ told \in [Term -> Texts] /\ schedule_term_ID \in 0..Terms
  BY <1>1 DEF ConsoleType
<1>5. told' \in [Term -> Texts] /\ told'[curr_term_ID] = rows
  BY <1>3, <1>4
<1>6. Started' = Started /\ \A t \in Started : t \in Term /\ t + 1 \in 1..Terms
  BY <1>2, <1>4, Screen DEF Started, Term
<1>7. ASSUME NEW t \in Started
      PROVE  (IF t = curr_term_ID THEN InFront(t) ELSE Shelved(t))'
  <2>1. CASE t = curr_term_ID
    <3>1. told'[t] = rows
      BY <1>5, <2>1
    <3>2. InFront(t)'
      BY <1>2, <3>1 DEF InFront, Place
    <3>3. QED
      BY <1>2, <2>1, <3>2
  <2>2. CASE t # curr_term_ID
    <3>1. Shelved(t)
      BY <1>1, <2>2 DEF Screens
    <3>2. con'.pages[t+1] = con.pages[t+1] /\ told'[t] = told[t] /\ cursor'[t] = cursor[t]
      BY <1>2, <1>4, <1>6, <2>2
    <3>3. Shelved(t)'
      BY <3>1, <3>2 DEF Shelved
    <3>4. QED
      BY <1>2, <2>2, <3>3
  <2>3. QED
    BY <2>1, <2>2
<1>8. Screens'
  BY <1>6, <1>7 DEF Screens
<1>9. con' \in Consoles
  BY DEF OnScreen
<1>10. curr_term_ID' \in Started' /\ schedule_term_ID' # 0
  BY <1>2, <1>6, <1>4 DEF Started
<1>11. (booted => schedule_term_ID = Terms)'
  BY <1>1, <1>2 DEF InTurn
<1>12. QED
  BY <1>1, <1>2, <1>3, <1>5, <1>8, <1>9, <1>10, <1>11 DEF Rest, ConsoleType

LEMMA Together ==
  ASSUME Rest', (writing \in [s : Term, rest : Seq(Char)])', (keyb \in Seq(Keys))',
         (writing # Idle => keyb = <<>> /\ writing.s = curr_term_ID)', (keyb # <<>> => booted)',
         TypedIn(told'[curr_term_ID'], keyb')
  PROVE  ConsoleInv'
<1>1. ConsoleType'
  BY DEF Rest, ConsoleType
<1>2. (schedule_term_ID > 0)'
  BY Screen DEF Rest
<1>3. InTurn'
  BY <1>2 DEF Rest, InTurn
<1>4. QED
  BY <1>1, <1>3 DEF Rest, ConsoleInv

LEMMA EnterInv ==
  ASSUME ConsoleInv, Enough, KeyEnter
  PROVE  ConsoleInv'
<1>1. ConsoleType /\ InTurn /\ Screens
  BY DEF ConsoleInv
<1>2. booted /\ writing = Idle
  BY DEF KeyEnter, MayType, Enough
<1>3. curr_term_ID \in Started
  BY <1>1, <1>2, Screen DEF InTurn
<1>4. PICK rows : rows = told[curr_term_ID] /\ OnScreen(con, rows)
  BY <1>1, <1>3 DEF Screens, InFront
<1>5. con' = Putc(con, LF) /\ told' = [told EXCEPT ![curr_term_ID] = Say(rows, LF)]
  BY <1>4 DEF KeyEnter
<1>6. Wrote(con', con, Say(rows, LF))
  BY <1>4, <1>5, PutcSays
<1>7. UNCHANGED <<terms, boot>> /\ writing' = writing /\ keyb' = <<>>
  BY DEF KeyEnter
<1>8. PICK t : t = Say(rows, LF)
  OBVIOUS
<1>9. OnScreen(con', t) /\ con'.pos = Place(con') /\ \A v \in 1..Terms : con'.pages[v] = con.pages[v]
  BY <1>6, <1>8 DEF Wrote
<1>10. told' = [told EXCEPT ![curr_term_ID] = t]
  BY <1>5, <1>8
<1>11. Rest' /\ told'[curr_term_ID'] = t /\ Text(t)
  BY <1>3, <1>7, <1>9, <1>10, Rewritten
<1>12. TypedIn(told'[curr_term_ID'], keyb')
  BY <1>7, <1>11, NothingTyped
<1>13. keyb' \in Seq(Keys)
  BY <1>7
<1>14. QED
  BY <1>1, <1>2, <1>7, <1>11, <1>12, <1>13, Together DEF ConsoleType

LEMMA ClearInv ==
  ASSUME ConsoleInv, Enough, KeyClear
  PROVE  ConsoleInv'
<1>1. ConsoleType /\ InTurn /\ Screens
  BY DEF ConsoleInv
<1>2. booted /\ writing = Idle /\ keyb = <<>>
  BY DEF KeyClear, MayType, Enough
<1>3. curr_term_ID \in Started
  BY <1>1, <1>2, Screen DEF InTurn
<1>4. con' = Clear(con) /\ told' = [told EXCEPT ![curr_term_ID] = NoText]
  BY DEF KeyClear
<1>5. Cleared(con', con)
  BY <1>1, <1>4, Clears DEF ConsoleType
<1>6. UNCHANGED <<terms, boot>> /\ writing' = writing /\ keyb' = keyb
  BY DEF KeyClear
<1>7. OnScreen(con', NoText) /\ \A v \in 1..Terms : con'.pages[v] = con.pages[v]
  BY <1>5 DEF Cleared
<1>8. Rest' /\ told'[curr_term_ID'] = NoText /\ Text(NoText)
  BY <1>2, <1>3, <1>4, <1>6, <1>7, Rewritten
<1>9. TypedIn(told'[curr_term_ID'], keyb')
  BY <1>2, <1>6, <1>8, NothingTyped
<1>10. QED
  BY <1>1, <1>2, <1>6, <1>8, <1>9, Together DEF ConsoleType

LEMMA WriteInv ==
  ASSUME ConsoleInv, Enough, NEW buf \in Messages, TerminalWrite(buf)
  PROVE  ConsoleInv'
<1>1. ConsoleType /\ InTurn /\ Screens /\ TypedIn(told[curr_term_ID], keyb)
  BY DEF ConsoleInv
<1>2. Range(buf) \subseteq Char /\ buf \in Seq(Range(buf))
  BY DEF Char, Enough
<1>3. buf \in Seq(Char)
  BY <1>2
<1>4. /\ schedule_term_ID > 0 /\ keyb = <<>> /\ writing' = [s |-> curr_term_ID, rest |-> buf]
      /\ UNCHANGED <<con, terms, boot, keyb, told>>
  BY DEF Enough, TerminalWrite
<1>5. /\ curr_term_ID' = curr_term_ID /\ cursor' = cursor /\ con' = con /\ told' = told /\ keyb' = keyb
      /\ schedule_term_ID' = schedule_term_ID /\ booted' = booted
  BY <1>4 DEF terms, boot
<1>6. ConsoleType'
  BY <1>1, <1>3, <1>4, <1>5 DEF ConsoleType
<1>7. writing'.s = curr_term_ID
  BY <1>4
<1>8. Started' = Started
  BY <1>5 DEF Started
<1>9. InTurn'
  BY <1>1, <1>4, <1>5, <1>7, <1>8 DEF InTurn
<1>10. Screens'
  BY <1>1, <1>5, <1>8 DEF Screens, InFront, Shelved
<1>11. QED
  BY <1>1, <1>5, <1>6, <1>9, <1>10 DEF ConsoleInv

LEMMA CharInv ==
  ASSUME ConsoleInv, WriteChar
  PROVE  ConsoleInv'
<1>1. ConsoleType /\ InTurn /\ Screens
  BY DEF ConsoleInv
<1>2. writing \in [s : Term, rest : Seq(Char)] /\ writing.rest # <<>>
  BY <1>1 DEF WriteChar, ConsoleType
<1>3. writing # Idle
  BY <1>2 DEF Idle
<1>4. keyb = <<>> /\ writing.s = curr_term_ID /\ schedule_term_ID > 0
  BY <1>1, <1>3 DEF InTurn
<1>5. curr_term_ID \in Started
  BY <1>1, <1>4 DEF InTurn, ConsoleType
<1>6. PICK c \in Char : c = Head(writing.rest)
  BY <1>2
<1>7. /\ con' = IF c # NUL THEN Putc(con, c) ELSE con
      /\ told' = [told EXCEPT ![curr_term_ID] = IF c = NUL THEN @ ELSE Say(@, c)]
      /\ writing' = IF Len(writing.rest) = 1 THEN Idle ELSE [writing EXCEPT !.rest = Tail(@)]
      /\ UNCHANGED <<terms, boot, keyb>>
  BY <1>4, <1>6 DEF WriteChar
<1>8. PICK rows : rows = told[curr_term_ID] /\ OnScreen(con, rows)
                  /\ (con.pos = Place(con) \/ (booted /\ rows = NoText))
  BY <1>1, <1>5 DEF Screens, InFront
<1>9. curr_term_ID \in Term /\ told \in [Term -> Texts]
  BY <1>1 DEF ConsoleType
<1>10. PICK t : /\ OnScreen(con', t) /\ (con'.pos = Place(con') \/ (booted /\ t = NoText))
                /\ \A v \in 1..Terms : con'.pages[v] = con.pages[v]
                /\ told' = [told EXCEPT ![curr_term_ID] = t]
  <2>1. CASE c = NUL
    <3>1. con' = con
      BY <1>7, <2>1
    <3>2. told' = [told EXCEPT ![curr_term_ID] = rows]
      BY <1>7, <1>8, <2>1
    <3>3. QED
      BY <1>8, <3>1, <3>2
  <2>2. CASE c # NUL
    <3>1. c \in Letter \cup {LF}
      BY <2>2 DEF Letter
    <3>2. PICK t : t = Say(rows, c) /\ Wrote(con', con, t)
      BY <1>7, <1>8, <2>2, <3>1, PutcSays
    <3>3. told' = [told EXCEPT ![curr_term_ID] = t]
      BY <1>7, <1>8, <2>2, <3>2
    <3>4. QED
      BY <3>2, <3>3 DEF Wrote
  <2>3. QED
    BY <2>1, <2>2
<1>11. Rest' /\ told'[curr_term_ID'] = t /\ Text(t)
  BY <1>5, <1>7, <1>10, Rewritten
<1>12. TypedIn(told'[curr_term_ID'], keyb')
  BY <1>4, <1>7, <1>11, NothingTyped
<1>13. writing' \in [s : Term, rest : Seq(Char)] /\ (writing' # Idle => writing'.s = curr_term_ID)
  <2>1. CASE Len(writing.rest) = 1
    <3>1. writing' = Idle /\ 0 \in Term
      BY <1>7, <2>1, Screen DEF Term
    <3>2. QED
      BY <3>1 DEF Idle
  <2>2. CASE Len(writing.rest) # 1
    <3>1. Tail(writing.rest) \in Seq(Char)
      BY <1>2
    <3>2. writing' = [writing EXCEPT !.rest = Tail(writing.rest)]
      BY <1>7, <2>2
    <3>3. QED
      BY <1>2, <1>4, <3>1, <3>2
  <2>3. QED
    BY <2>1, <2>2
<1>14. keyb' = <<>> /\ keyb' \in Seq(Keys) /\ curr_term_ID' = curr_term_ID
  BY <1>4, <1>7 DEF terms
<1>15. QED
  BY <1>11, <1>12, <1>13, <1>14, Together

LEMMA Trailing ==
  ASSUME NEW rows, NEW tr, NEW E \in Nat, Trail(rows, tr, E), NEW ts,
         \A k \in 1..E : ts[k] = tr[k]
  PROVE  Trail(rows, ts, E)
BY DEF Trail

(* Behind the first KeybMax characters of a line only single ones follow,  *)
(* and all of them fit above the last row.                                 *)
LEMMA MostGrows ==
  ASSUME Enough, NEW c \in Keys, NEW L \in Nat, NEW E \in Nat, NEW w \in Nat,
         L < KeybMax \/ (c \in Unbounded /\ L < LineMax),
         E <= Most(L), w <= TabWidth, c # TAB => w = 1
  PROVE  E + w <= Most(L + 1) /\ E + w <= (NUM_ROWS - 1) * NUM_COLS
<1>1. PICK W \in Nat, K \in Nat, M \in Nat, R \in Int :
        W = TabWidth /\ K = KeybMax /\ M = LineMax /\ R = (NUM_ROWS - 1) * NUM_COLS
  <2>1. (NUM_ROWS - 1) * NUM_COLS \in Int
    BY Screen
  <2>2. QED
    BY <2>1, Screen
<1>2. PICK x \in Int, y \in Int, z \in Int : x = L * W /\ y = (L + 1) * W /\ z = K * W
  OBVIOUS
<1>3. y = x + W /\ z <= R /\ z + (M - K) <= R
  <2>1. (L + 1) * W = L * W + W
    BY Product
  <2>2. QED
    BY <1>1, <1>2, <2>1 DEF Enough
<1>4. CASE L < K
  <2>1. L + 1 <= K /\ L + 1 \in Int
    BY <1>4
  <2>2. y <= z
    BY <1>2, <2>1, Product
  <2>3. Most(L) = x /\ Most(L + 1) = y
    BY <1>1, <1>2, <1>4, <2>1 DEF Most
  <2>4. QED
    BY <1>1, <1>3, <2>2, <2>3
<1>5. CASE ~ (L < K)
  <2>1. w = 1 /\ L < M
    BY <1>1, <1>5, Screen
  <2>2. Most(L) = z + (L - K)
    <3>1. L = K => x = z
      BY <1>2
    <3>2. QED
      BY <1>1, <1>2, <1>5, <3>1 DEF Most
  <2>3. Most(L + 1) = z + (L + 1 - K)
    BY <1>1, <1>2, <1>5 DEF Most
  <2>4. QED
    BY <1>1, <1>3, <1>5, <2>1, <2>2, <2>3
<1>6. QED
  BY <1>4, <1>5

(* One more key: what it echoes lies behind what was typed before.         *)
LEMMA TypedMore ==
  ASSUME Enough, NEW rows, Text(rows), NEW c \in Keys, NEW keys \in Seq(Keys),
         Len(keys) < KeybMax \/ (c \in Unbounded /\ Len(keys) < LineMax), TypedIn(rows, keys)
  PROVE  TypedIn(SayAll(rows, Echo(c)), Append(keys, c))
<1>1. PICK tr, st : Typed(rows, keys, tr, st)
  BY DEF TypedIn
<1>2. PICK L \in Nat : L = Len(keys)
  BY LenProperties
<1>3. PICK E \in Nat : E = st[L] /\ E <= Most(L) /\ Trail(rows, tr, E)
  BY <1>1, <1>2 DEF Typed
<1>4. PICK w \in Nat \ {0} : w = Width(c) /\ w <= TabWidth /\ DOMAIN Echo(c) = 1..w
                             /\ (c # TAB => w = 1) /\ \A e \in 1..w : Echo(c)[e] \in Letter
  BY EchoIs
<1>5. PICK more : more = Append(keys, c) /\ OneMore(more, keys, c)
  BY AppendIs
<1>6. Len(more) = L + 1 /\ more[L+1] = c /\ \A i \in 1..L : more[i] = keys[i]
  BY <1>2, <1>5 DEF OneMore
<1>7. PICK ts : ts = [x \in Nat |-> IF x <= E THEN tr[x] ELSE Echo(c)[x - E]]
  OBVIOUS
<1>8. PICK su : su = [i \in 0..L+1 |-> IF i <= L THEN st[i] ELSE E + w]
  OBVIOUS
<1>9. /\ \A x \in 1..E : ts[x] = tr[x]
      /\ \A e \in 1..w : ts[E + e] = Echo(c)[e]
  <2>1. ASSUME NEW e \in 1..w
        PROVE  ts[E + e] = Echo(c)[e]
    <3>1. E + e \in Nat /\ ~ (E + e <= E) /\ (E + e) - E = e
      OBVIOUS
    <3>2. QED
      BY <1>7, <3>1
  <2>2. QED
    BY <1>7, <2>1
<1>10. (\A i \in 0..L : su[i] = st[i]) /\ su[L+1] = E + w
  <2>1. \A i \in 0..L : i \in 0..L+1 /\ i <= L
    OBVIOUS
  <2>2. L + 1 \in 0..L+1 /\ ~ (L + 1 <= L)
    OBVIOUS
  <2>3. QED
    BY <1>8, <2>1, <2>2
<1>11. E + w <= Most(L + 1) /\ E + w <= Row(NUM_ROWS - 1)
  BY <1>2, <1>3, <1>4, MostGrows DEF Row
<1>12. Trail(SayAll(rows, Echo(c)), ts, E + w)
  <2>1. Trail(rows, ts, E)
    BY <1>3, <1>9, Trailing
  <2>2. E + w <= Row(NUM_ROWS - 1)
    BY <1>11
  <2>3. \A i \in 1..w : Echo(c)[i] \in Letter /\ ts[E + i] = Echo(c)[i]
    BY <1>4, <1>9
  <2>4. QED
    BY <1>4, <2>1, <2>2, <2>3, SayAllTrails
<1>13. ASSUME NEW i \in 0..L+1
       PROVE  su[i] \in Nat /\ su[i] <= Most(i)
  <2>1. CASE i = L + 1
    BY <1>10, <1>11, <2>1
  <2>2. CASE i # L + 1
    <3>1. i \in 0..L
      BY <2>2
    <3>2. QED
      BY <1>1, <1>2, <1>10, <3>1 DEF Typed
  <2>3. QED
    BY <2>1, <2>2
<1>14. ASSUME NEW i \in 1..L+1
       PROVE  /\ su[i] = su[i-1] + Width(more[i])
              /\ \A e \in 1..Width(more[i]) : ts[su[i-1] + e] = Echo(more[i])[e]
  <2>1. CASE i = L + 1
    <3>1. i - 1 = L /\ L \in 0..L /\ more[i] = c
      BY <1>6, <2>1
    <3>2. su[i] = E + w /\ su[i-1] = E
      BY <1>3, <1>10, <2>1, <3>1
    <3>3. QED
      BY <1>4, <1>9, <3>1, <3>2
  <2>2. CASE i # L + 1
    <3>1. i \in 1..L /\ i - 1 \in 0..L /\ i \in 0..L
      BY <2>2
    <3>2. /\ su[i] = st[i] /\ su[i-1] = st[i-1] /\ more[i] = keys[i]
      BY <1>6, <1>10, <3>1
    <3>3. /\ st[i] = st[i-1] + Width(keys[i])
          /\ \A e \in 1..Width(keys[i]) : tr[st[i-1] + e] = Echo(keys[i])[e]
      BY <1>1, <1>2, <3>1 DEF Typed
    <3>4. st[i] <= E
      <4>1. i \in 0..L /\ L \in 0..L /\ i <= L
        BY <3>1
      <4>2. QED
        BY <1>1, <1>2, <1>3, <4>1 DEF Typed
    <3>5. st[i-1] \in Nat /\ Width(keys[i]) \in Nat
      BY <1>1, <1>2, <3>1, EchoIs DEF Typed
    <3>6. ASSUME NEW e \in 1..Width(keys[i])
          PROVE  ts[st[i-1] + e] = Echo(keys[i])[e]
      <4>1. st[i-1] + e \in 1..E
        BY <1>3, <3>3, <3>4, <3>5
      <4>2. QED
        BY <1>9, <3>3, <4>1
    <3>7. QED
      BY <3>2, <3>3, <3>6
  <2>3. QED
    BY <2>1, <2>2
<1>15. ASSUME NEW i \in 0..L+1, NEW j \in 0..L+1, i <= j
       PROVE  su[i] <= su[j]
  <2>1. CASE j = L + 1
    <3>1. CASE i = L + 1
      BY <1>13, <2>1, <3>1
    <3>2. CASE i # L + 1
      <4>1. i \in 0..L /\ L \in 0..L /\ i <= L
        BY <3>2
      <4>2. su[i] = st[i] /\ st[i] <= E /\ st[i] \in Nat
        BY <1>1, <1>2, <1>3, <1>10, <4>1 DEF Typed
      <4>3. QED
        BY <1>10, <2>1, <4>2
    <3>3. QED
      BY <3>1, <3>2
  <2>2. CASE j # L + 1
    <3>1. i \in 0..L /\ j \in 0..L
      BY <1>15, <2>2
    <3>2. su[i] = st[i] /\ su[j] = st[j]
      BY <1>10, <3>1
    <3>3. QED
      BY <1>1, <1>2, <1>15, <3>1, <3>2 DEF Typed
  <2>3. QED
    BY <2>1, <2>2
<1>16. su[0] = 0 /\ su[Len(more)] = E + w
  BY <1>1, <1>6, <1>10 DEF Typed
<1>17. PICK texts : texts = SayAll(rows, Echo(c))
  OBVIOUS
<1>18. Typed(texts, more, ts, su)
  BY <1>6, <1>12, <1>13, <1>14, <1>15, <1>16, <1>17 DEF Typed
<1>19. QED
  BY <1>5, <1>17, <1>18 DEF TypedIn

LEMMA KeyCharInv ==
  ASSUME ConsoleInv, Enough, NEW c \in Keys, KeyChar(c)
  PROVE  ConsoleInv'
<1>1. ConsoleType /\ InTurn /\ Screens /\ TypedIn(told[curr_term_ID], keyb)
  BY DEF ConsoleInv
<1>2. booted /\ writing = Idle /\ (Len(keyb) < KeybMax \/ (c \in Unbounded /\ Len(keyb) < LineMax))
  BY DEF KeyChar, Room, MayType, Enough
<1>3. curr_term_ID \in Started
  BY <1>1, <1>2, Screen DEF InTurn
<1>4. PICK rows : rows = told[curr_term_ID] /\ OnScreen(con, rows)
  BY <1>1, <1>3 DEF Screens, InFront
<1>5. PICK t : t = SayAll(rows, Echo(c))
  OBVIOUS
<1>6. /\ con' = Puts(con, Echo(c)) /\ told' = [told EXCEPT ![curr_term_ID] = t]
      /\ UNCHANGED <<terms, boot>> /\ writing' = writing /\ keyb' = Append(keyb, c)
  BY <1>4, <1>5 DEF KeyChar
<1>7. Wrote(con', con, t)
  <2>1. PICK w \in Nat \ {0} : DOMAIN Echo(c) = 1..w /\ \A i \in 1..w : Echo(c)[i] \in Letter \cup {LF}
    BY EchoIs
  <2>2. QED
    BY <1>4, <1>5, <1>6, <2>1, PutsSays
<1>8. OnScreen(con', t) /\ con'.pos = Place(con') /\ \A v \in 1..Terms : con'.pages[v] = con.pages[v]
  BY <1>7 DEF Wrote
<1>9. Rest' /\ told'[curr_term_ID'] = t /\ Text(t)
  BY <1>3, <1>6, <1>8, Rewritten
<1>10. keyb \in Seq(Keys) /\ keyb' \in Seq(Keys)
  BY <1>1, <1>6 DEF ConsoleType
<1>11. TypedIn(t, Append(keyb, c))
  <2>1. TypedIn(rows, keyb) /\ Text(rows)
    BY <1>1, <1>4 DEF OnScreen
  <2>2. QED
    BY <1>2, <1>5, <1>10, <2>1, TypedMore
<1>12. booted' = booted
  BY <1>6 DEF boot
<1>13. TypedIn(told'[curr_term_ID'], keyb')
  BY <1>6, <1>9, <1>11
<1>14. QED
  BY <1>1, <1>2, <1>6, <1>9, <1>10, <1>12, <1>13, Together DEF ConsoleType

(* One key less.                                                           *)
LessTyped(keys, less, c, L) ==
  /\ L \in Nat /\ Len(less) = L /\ Len(keys) = L + 1 /\ keys[L+1] = c
  /\ \A i \in 1..L : less[i] = keys[i]

LEMMA TypedLess ==
  ASSUME NEW rows, NEW keys, NEW less, NEW c, NEW L, LessTyped(keys, less, c, L),
         NEW tr, NEW st, Typed(rows, keys, tr, st), NEW more, Trail(more, tr, st[L])
  PROVE  TypedIn(more, less)
<1>1. Len(less) = L /\ Len(keys) = L + 1 /\ L \in Nat
  BY DEF LessTyped
<1>2. \A i \in 0..L : i \in 0..L+1
  BY <1>1
<1>3. /\ \A i \in 0..L : st[i] \in Nat /\ st[i] <= Most(i)
      /\ \A i \in 0..L, j \in 0..L : i <= j => st[i] <= st[j]
      /\ st[0] = 0
  BY <1>1, <1>2 DEF Typed
<1>4. ASSUME NEW i \in 1..L
      PROVE  /\ st[i] = st[i-1] + Width(less[i])
             /\ \A e \in 1..Width(less[i]) : tr[st[i-1] + e] = Echo(less[i])[e]
  <2>1. i \in 1..L+1 /\ less[i] = keys[i]
    BY <1>1 DEF LessTyped
  <2>2. QED
    BY <1>1, <2>1 DEF Typed
<1>5. Typed(more, less, tr, st)
  BY <1>1, <1>3, <1>4 DEF Typed
<1>6. QED
  BY <1>5 DEF TypedIn

LEMMA BackspaceInv ==
  ASSUME ConsoleInv, Enough, KeyBackspace
  PROVE  ConsoleInv'
<1>1. ConsoleType /\ InTurn /\ Screens /\ TypedIn(told[curr_term_ID], keyb)
  BY DEF ConsoleInv
<1>2. booted /\ writing = Idle /\ keyb # <<>> /\ PlainlyTaken(Last(keyb))
  BY DEF KeyBackspace, MayType, Enough
<1>3. curr_term_ID \in Started
  BY <1>1, <1>2, Screen DEF InTurn
<1>4. PICK rows : rows = told[curr_term_ID] /\ OnScreen(con, rows)
  BY <1>1, <1>3 DEF Screens, InFront
<1>5. keyb \in Seq(Keys)
  BY <1>1 DEF ConsoleType
<1>6. PICK less \in Seq(Keys), c \in Keys : Ends(keyb, less, c)
  BY <1>2, <1>5, FrontLast
<1>7. PICK L \in Nat : L = Len(less) /\ LessTyped(keyb, less, c, L)
  <2>1. OneMore(keyb, less, c)
    BY <1>6 DEF Ends
  <2>2. PICK L : L = Len(less)
    OBVIOUS
  <2>3. L \in Nat /\ Len(keyb) = L + 1 /\ keyb[L+1] = c /\ \A i \in 1..L : keyb[i] = less[i]
    BY <2>1, <2>2 DEF OneMore
  <2>4. QED
    BY <2>2, <2>3 DEF LessTyped
<1>8. Last(keyb) = c /\ Front(keyb) = less
  BY <1>6 DEF Ends
<1>9. PICK w \in Nat \ {0} :
         /\ w = Width(c) /\ w = Len(Echo(c)) /\ (c # TAB => w = 1)
         /\ \A e \in 1..w : Echo(c)[e] = IF c = TAB THEN Blank ELSE c
  BY EchoIs DEF Width
<1>10. PICK tr, st : Typed(rows, keyb, tr, st)
  BY <1>1, <1>4 DEF TypedIn
<1>11. PICK E \in Nat, D \in Nat :
         /\ E = st[L+1] /\ D = st[L] /\ E = D + w /\ Trail(rows, tr, E)
         /\ \A e \in 1..w : tr[D + e] = Echo(c)[e]
  <2>1. Len(keyb) = L + 1 /\ keyb[L+1] = c
    BY <1>7 DEF LessTyped
  <2>2. L \in 0..L+1 /\ L + 1 \in 0..L+1 /\ L + 1 \in 1..L+1 /\ (L + 1) - 1 = L
    OBVIOUS
  <2>3. st[L] \in Nat /\ st[L+1] \in Nat /\ Trail(rows, tr, st[L+1])
    BY <1>10, <2>1, <2>2 DEF Typed
  <2>4. st[L+1] = st[L] + w /\ \A e \in 1..w : tr[st[L] + e] = Echo(c)[e]
    <3>1. /\ st[L+1] = st[(L+1)-1] + Width(keyb[L+1])
          /\ \A e \in 1..Width(keyb[L+1]) : tr[st[(L+1)-1] + e] = Echo(keyb[L+1])[e]
      BY <1>10, <2>1, <2>2 DEF Typed
    <3>2. QED
      BY <1>9, <2>1, <2>2, <3>1
  <2>5. QED
    BY <2>3, <2>4
<1>12. c # ">" /\ (c \in {Blank, TAB} => con.x >= w)
  BY <1>2, <1>8, <1>9 DEF PlainlyTaken
<1>13. Takeable(con, tr, E, w)
  <2>1. ASSUME NEW i \in 1..w
        PROVE  tr[E - w + i] # ">" /\ (tr[E - w + i] # Blank \/ con.x >= w)
    <3>1. E - w + i = D + i
      BY <1>11
    <3>2. tr[E - w + i] = IF c = TAB THEN Blank ELSE c
      BY <1>9, <1>11, <3>1
    <3>3. Blank # ">"
      BY DEF Blank
    <3>4. QED
      BY <1>12, <3>2, <3>3
  <2>2. QED
    BY <2>1 DEF Takeable
<1>14. PICK t : t = UnsayAll(rows, w)
  OBVIOUS
<1>15. /\ con' = Puts(con, [i \in 1..w |-> NUL]) /\ told' = [told EXCEPT ![curr_term_ID] = t]
       /\ UNCHANGED <<terms, boot>> /\ writing' = writing /\ keyb' = less
  <2>1. con' = Erased(con, c) /\ keyb' = less
    BY <1>8 DEF KeyBackspace
  <2>2. Erased(con, c) = Puts(con, [i \in 1..w |-> NUL])
    BY <1>9 DEF Erased
  <2>3. told' = [told EXCEPT ![curr_term_ID] = UnsayAll(@, w)]
    BY <1>8, <1>9 DEF KeyBackspace
  <2>4. QED
    BY <1>4, <1>14, <2>1, <2>2, <2>3 DEF KeyBackspace
<1>16. Unwrote(con', con, t, tr, E, w)
  <2>1. w <= E
    BY <1>11
  <2>2. QED
    BY <1>4, <1>11, <1>13, <1>14, <1>15, <2>1, PutsUnsays
<1>17. Wrote(con', con, t) /\ Trail(t, tr, E - w) /\ E - w = st[L]
  BY <1>11, <1>16 DEF Unwrote
<1>18. OnScreen(con', t) /\ con'.pos = Place(con') /\ \A v \in 1..Terms : con'.pages[v] = con.pages[v]
  BY <1>17 DEF Wrote
<1>19. Rest' /\ told'[curr_term_ID'] = t /\ Text(t)
  BY <1>3, <1>15, <1>18, Rewritten
<1>20. TypedIn(t, less)
  BY <1>7, <1>10, <1>17, TypedLess
<1>21. booted' = booted
  BY <1>15 DEF boot
<1>22. keyb' \in Seq(Keys) /\ TypedIn(told'[curr_term_ID'], keyb')
  BY <1>15, <1>19, <1>20
<1>23. QED
  BY <1>1, <1>2, <1>15, <1>19, <1>21, <1>22, Together DEF ConsoleType

-----------------------------------------------------------------------------
(* Another terminal comes to the screen.                                   *)
ExchangedIs(u, new) ==
  /\ u \in Consoles /\ u.pages[0] = con.pages[new + 1] /\ u.pages[curr_term_ID + 1] = con.pages[0]
  /\ \A t \in Term \ {curr_term_ID, new} : u.pages[t + 1] = con.pages[t + 1]
  /\ u.x = cursor[new] % NUM_COLS /\ u.y = cursor[new] \div NUM_COLS /\ u.pos = cursor[new]

LEMMA Exchanges ==
  ASSUME ConsoleType, NEW new \in Term, new # curr_term_ID
  PROVE  ExchangedIs(Exchanged(con, new), new)
<1>1. con \in Consoles /\ curr_term_ID \in Term /\ cursor[new] \in Cells
  BY DEF ConsoleType
<1>2. PICK c \in 0..Terms, n \in 0..Terms :
        c = curr_term_ID + 1 /\ n = new + 1 /\ c # 0 /\ n # 0 /\ c # n
  BY <1>1, Screen DEF Term
<1>3. PICK old \in Pages : old = con.pages
  BY <1>1 DEF Consoles
<1>4. Unknown \in Memories /\ 0 \in 0..Terms
  BY Screen DEF Unknown, Memories, Glyph
<1>5. PICK pg : pg = [old EXCEPT ![c] = old[0], ![0] = old[n], ![n] = Unknown]
  OBVIOUS
<1>6. pg \in Pages /\ pg[c] = old[0] /\ pg[0] = old[n]
      /\ \A v \in 0..Terms : v \notin {c, 0, n} => pg[v] = old[v]
  BY <1>2, <1>4, <1>5 DEF Pages
<1>7. PICK a \in Rows, j \in Cols : cursor[new] = Row(a) + j
  BY <1>1, CellIn DEF Rows, Cols
<1>8. cursor[new] \div NUM_COLS \in Rows /\ cursor[new] % NUM_COLS \in Cols
  BY <1>7, CellOf
<1>9. PICK u : u = [pages |-> pg, x |-> cursor[new] % NUM_COLS, y |-> cursor[new] \div NUM_COLS,
                    pos |-> cursor[new]]
  OBVIOUS
<1>10. Exchanged(con, new) = u
  BY <1>2, <1>3, <1>5, <1>9 DEF Exchanged
<1>11. /\ u \in Consoles /\ u.pages = pg /\ u.pos = cursor[new]
       /\ u.x = cursor[new] % NUM_COLS /\ u.y = cursor[new] \div NUM_COLS
  BY <1>1, <1>6, <1>8, <1>9 DEF Consoles
<1>12. ASSUME NEW t \in Term \ {curr_term_ID, new}
       PROVE  pg[t + 1] = old[t + 1]
  <2>1. t + 1 \in 0..Terms /\ t + 1 \notin {c, 0, n}
    BY <1>1, <1>2, Screen DEF Term
  <2>2. QED
    BY <1>6, <2>1
<1>13. QED
  BY <1>2, <1>3, <1>6, <1>10, <1>11, <1>12 DEF ExchangedIs

(* The terminals that are not on the screen keep their text, the one that  *)
(* leaves it too.                                                          *)
LEMMA LeftAsIs ==
  ASSUME ConsoleType, Screens, NEW new \in Term, new # curr_term_ID,
         curr_term_ID \in Started, con.pos = Place(con), Leave(new),
         NEW u, ExchangedIs(u, new), NEW t \in Started, t # new
  PROVE  ShowsRows(u.pages[t + 1], told[t]) /\ cursor'[t] = End(told[t])
<1>1. Started \subseteq Term
  BY Screen DEF ConsoleType, Started, Term
<1>2. cursor \in [Term -> Cells] /\ cursor' = [cursor EXCEPT ![curr_term_ID] = con.pos]
      /\ curr_term_ID \in Term
  BY DEF ConsoleType, Leave
<1>3. CASE t = curr_term_ID
  <2>1. OnScreen(con, told[t])
    BY <1>3 DEF Screens, InFront
  <2>2. u.pages[t + 1] = con.pages[0]
    BY <1>3 DEF ExchangedIs
  <2>3. cursor'[t] = Place(con)
    BY <1>2, <1>3
  <2>4. Place(con) = End(told[t])
    BY <2>1, EndPlace
  <2>5. QED
    BY <2>1, <2>2, <2>3, <2>4 DEF OnScreen
<1>4. CASE t # curr_term_ID
  <2>1. Shelved(t)
    BY <1>4 DEF Screens
  <2>2. t \in Term \ {curr_term_ID, new}
    BY <1>1, <1>4
  <2>3. u.pages[t + 1] = con.pages[t + 1]
    BY <2>2 DEF ExchangedIs
  <2>4. cursor'[t] = cursor[t]
    BY <1>2, <2>2
  <2>5. QED
    BY <2>1, <2>3, <2>4 DEF Shelved
<1>5. QED
  BY <1>3, <1>4

LEMMA SwitchInv ==
  ASSUME ConsoleInv, Enough, NEW new \in Term, Switch(new), schedule_term_ID = Terms,
         booted' \in BOOLEAN
  PROVE  ConsoleInv'
<1>1. ConsoleType /\ InTurn /\ Screens
  BY DEF ConsoleInv
<1>2. /\ new # curr_term_ID /\ writing = Idle /\ told[curr_term_ID] # NoText /\ keyb = <<>>
      /\ Leave(new) /\ con' = Exchanged(con, new)
      /\ schedule_term_ID' = schedule_term_ID /\ writing' = writing /\ keyb' = keyb /\ told' = told
  BY DEF Switch, Enough
<1>3. curr_term_ID \in Term /\ told \in [Term -> Texts] /\ cursor \in [Term -> Cells]
      /\ con \in Consoles
  BY <1>1 DEF ConsoleType
<1>4. Started = Term /\ Started' = Term
  BY <1>2 DEF Started, Term
<1>5. con.pos = Place(con)
  BY <1>1, <1>2, <1>3, <1>4 DEF Screens, InFront
<1>6. ExchangedIs(con', new)
  BY <1>1, <1>2, Exchanges
<1>7. curr_term_ID' = new /\ cursor' = [cursor EXCEPT ![curr_term_ID] = con.pos]
  BY <1>2 DEF Leave
<1>8. cursor' \in [Term -> Cells] /\ con' \in Consoles
  BY <1>3, <1>6, <1>7 DEF Consoles, ExchangedIs
<1>9. Text(told[new]) /\ Shelved(new)
  <2>1. told[new] \in Texts
    BY <1>3
  <2>2. QED
    BY <1>1, <1>2, <1>4, <2>1 DEF Screens, Texts
<1>10. OnScreen(con', told[new]) /\ con'.pos = Place(con')
  <2>1. PICK a \in Rows, j \in Cols : a = Len(told[new]) - 1 /\ j = Last1(told[new])
    <3>1. Len(told[new]) - 1 \in Rows
      BY <1>9, TextIs, Screen DEF Rows
    <3>2. QED
      BY <1>9, <3>1, TextIs
  <2>2. cursor[new] = Row(a) + j
    BY <1>9, <2>1, TextIs DEF Shelved
  <2>3. con'.x = j /\ con'.y = a /\ con'.pos = Row(a) + j
    BY <1>6, <2>2, CellOf DEF ExchangedIs
  <2>4. Place(con') = Row(a) + j
    BY <1>8, <2>3, Placed
  <2>5. ShowsRows(con'.pages[0], told[new])
    BY <1>6, <1>9 DEF Shelved, ExchangedIs
  <2>6. QED
    BY <1>8, <1>9, <2>1, <2>3, <2>4, <2>5 DEF OnScreen
<1>11. ASSUME NEW t \in Started
       PROVE  (IF t = curr_term_ID THEN InFront(t) ELSE Shelved(t))'
  <2>1. CASE t = new
    <3>1. InFront(t)'
      BY <1>2, <1>10, <2>1 DEF InFront
    <3>2. QED
      BY <1>7, <2>1, <3>1
  <2>2. CASE t # new
    <3>1. ShowsRows(con'.pages[t + 1], told[t]) /\ cursor'[t] = End(told[t])
      BY <1>1, <1>2, <1>3, <1>4, <1>5, <1>6, <2>2, LeftAsIs
    <3>2. Shelved(t)'
      BY <1>2, <3>1 DEF Shelved
    <3>3. QED
      BY <1>7, <2>2, <3>2
  <2>3. QED
    BY <2>1, <2>2
<1>12. Screens'
  BY <1>4, <1>11 DEF Screens
<1>13. Rest'
  <2>1. schedule_term_ID' = Terms /\ Terms \in 0..Terms /\ Terms # 0
    BY <1>2, Screen
  <2>2. QED
    BY <1>2, <1>3, <1>4, <1>7, <1>8, <1>12, <2>1 DEF Rest
<1>14. TypedIn(told'[curr_term_ID'], keyb')
  BY <1>2, <1>7, <1>9, NothingTyped
<1>15. QED
  BY <1>1, <1>2, <1>13, <1>14, Together DEF ConsoleType

(* A shell is started on a screen that is cleared for it.                  *)
LEMMA StartInv ==
  ASSUME ConsoleInv, Enough, PitStart
  PROVE  ConsoleInv'
<1>1. ConsoleType /\ InTurn /\ Screens
  BY DEF ConsoleInv
<1>2. PICK t \in Term : t = schedule_term_ID
  BY DEF PitStart
<1>3. /\ ~ booted /\ writing = Idle
      /\ IF t = curr_term_ID THEN UNCHANGED terms ELSE Leave(t)
      /\ con' = Puts(Clear(IF t = curr_term_ID THEN con ELSE Exchanged(con, t)), Banner(t))
      /\ schedule_term_ID' = t + 1 /\ writing' = Idle /\ keyb' = <<>>
      /\ told' = [told EXCEPT ![t] = SayAll(NoText, Banner(t))]
      /\ booted' = booted
  BY <1>2, Zenon DEF PitStart, Enough
<1>4. /\ con \in Consoles /\ curr_term_ID \in Term /\ cursor \in [Term -> Cells]
      /\ told \in [Term -> Texts] /\ schedule_term_ID \in 0..Terms
  BY <1>1 DEF ConsoleType
<1>5. Started = 0..t-1 /\ Started' = 0..t /\ t \in Nat /\ Started \subseteq Term
  BY <1>2, <1>3, Screen DEF Started, Term
<1>6. PICK k : k = IF t = curr_term_ID THEN con ELSE Exchanged(con, t)
  OBVIOUS
<1>7. t # curr_term_ID => ExchangedIs(k, t)
  BY <1>1, <1>6, Exchanges
<1>8. k \in Consoles
  BY <1>4, <1>6, <1>7 DEF ExchangedIs
<1>9. PICK z : z = Clear(k) /\ OnScreen(z, NoText) /\ \A v \in 1..Terms : z.pages[v] = k.pages[v]
  BY <1>8, Clears DEF Cleared
<1>10. PICK rows : rows = SayAll(NoText, Banner(t)) /\ Wrote(con', z, rows)
  <2>1. PICK n : BannerIs(Banner(t), n)
    BY BannerLetters
  <2>2. con' = Puts(z, Banner(t))
    BY <1>3, <1>6, <1>9
  <2>3. QED
    BY <1>9, <2>1, <2>2, PutsSays DEF BannerIs
<1>11. /\ OnScreen(con', rows) /\ con'.pos = Place(con') /\ Text(rows) /\ rows \in Texts
       /\ \A v \in 1..Terms : con'.pages[v] = k.pages[v]
  BY <1>9, <1>10, TextTyped DEF Wrote, OnScreen
<1>12. told' \in [Term -> Texts] /\ told'[t] = rows /\ \A s \in Term : s # t => told'[s] = told[s]
  BY <1>3, <1>4, <1>10, <1>11
<1>13. curr_term_ID' = t /\ cursor' \in [Term -> Cells]
  <2>1. CASE t = curr_term_ID
    BY <1>3, <1>4, <2>1 DEF terms
  <2>2. CASE t # curr_term_ID
    <3>1. con.pos \in Cells
      BY <1>4 DEF Consoles
    <3>2. curr_term_ID' = t /\ cursor' = [cursor EXCEPT ![curr_term_ID] = con.pos]
      BY <1>3, <2>2 DEF Leave
    <3>3. QED
      BY <1>4, <3>1, <3>2
  <2>3. QED
    BY <2>1, <2>2
<1>14. ASSUME NEW s \in Started
       PROVE  Shelved(s)'
  <2>1. s # t /\ s \in Term /\ t # 0 /\ s + 1 \in 1..Terms
    BY <1>5, Screen DEF Term
  <2>2. curr_term_ID \in Started /\ curr_term_ID # t
    BY <1>1, <1>2, <1>5, <2>1 DEF InTurn
  <2>3. con.pos = Place(con)
    BY <1>1, <1>3, <2>2 DEF Screens, InFront
  <2>4. Leave(t) /\ ExchangedIs(k, t)
    BY <1>3, <1>7, <2>2
  <2>5. ShowsRows(k.pages[s + 1], told[s]) /\ cursor'[s] = End(told[s])
    BY <1>1, <2>1, <2>2, <2>3, <2>4, LeftAsIs
  <2>6. con'.pages[s + 1] = k.pages[s + 1] /\ told'[s] = told[s]
    BY <1>11, <1>12, <2>1
  <2>7. QED
    BY <2>5, <2>6 DEF Shelved
<1>15. InFront(t)'
  BY <1>11, <1>12 DEF InFront
<1>16. Screens'
  <2>1. \A s \in 0..t : s \in Started \/ s = t
    BY <1>5
  <2>2. \A s \in Started : s # t
    BY <1>5
  <2>3. QED
    BY <1>5, <1>13, <1>14, <1>15, <2>1, <2>2 DEF Screens
<1>17. Rest'
  <2>1. t + 1 \in 0..Terms /\ t + 1 # 0 /\ t \in 0..t
    BY <1>5, Screen DEF Term
  <2>2. con' \in Consoles
    BY <1>11 DEF OnScreen
  <2>3. booted' \in BOOLEAN /\ ~ booted'
    BY <1>1, <1>3 DEF ConsoleType
  <2>4. QED
    BY <1>3, <1>5, <1>12, <1>13, <1>16, <2>1, <2>2, <2>3 DEF Rest
<1>18. TypedIn(told'[curr_term_ID'], keyb')
  BY <1>3, <1>11, <1>12, <1>13, NothingTyped
<1>19. writing' \in [s : Term, rest : Seq(Char)] /\ keyb' \in Seq(Keys)
  BY <1>1, <1>3 DEF ConsoleType
<1>20. QED
  BY <1>3, <1>17, <1>18, <1>19, Together

LEMMA NextInv ==
  ASSUME ConsoleInv, Enough, [Next]_vars
  PROVE  ConsoleInv'
<1>1. ConsoleType /\ InTurn
  BY DEF ConsoleInv
<1>2. CASE PitStart
  BY <1>2, StartInv
<1>3. CASE PitLast
  <2>1. ~ booted /\ schedule_term_ID = Terms /\ booted' = TRUE
    BY <1>3 DEF PitLast
  <2>2. CASE Switch(0)
    <3>1. 0 \in Term
      BY Screen DEF Term
    <3>2. QED
      BY <2>1, <2>2, <3>1, SwitchInv
  <2>3. CASE curr_term_ID = 0 /\ UNCHANGED <<con, terms, schedule_term_ID, writing, keyb, told>>
    <3>1. /\ con' = con /\ curr_term_ID' = curr_term_ID /\ cursor' = cursor
          /\ schedule_term_ID' = schedule_term_ID /\ writing' = writing /\ keyb' = keyb /\ told' = told
      BY <2>3 DEF terms
    <3>2. ConsoleType'
      BY <1>1, <2>1, <3>1 DEF ConsoleType
    <3>3. Started' = Started
      BY <3>1 DEF Started
    <3>4. InTurn'
      BY <1>1, <2>1, <3>1, <3>3 DEF InTurn
    <3>5. Screens'
      BY <2>1, <3>1, <3>3 DEF ConsoleInv, Screens, InFront, Shelved
    <3>6. QED
      BY <3>1, <3>2, <3>4, <3>5 DEF ConsoleInv
  <2>4. QED
    BY <1>3, <2>2, <2>3 DEF PitLast
<1>4. CASE KeySwitch
  <2>1. PICK new \in Term : booted /\ Switch(new) /\ booted' = booted
    BY <1>4 DEF KeySwitch
  <2>2. schedule_term_ID = Terms /\ booted' \in BOOLEAN
    BY <1>1, <2>1 DEF InTurn, ConsoleType
  <2>3. QED
    BY <2>1, <2>2, SwitchInv
<1>5. CASE \E buf \in Messages : TerminalWrite(buf)
  BY <1>5, WriteInv
<1>6. CASE WriteChar
  BY <1>6, CharInv
<1>7. CASE \E c \in Keys : KeyChar(c)
  BY <1>7, KeyCharInv
<1>8. CASE KeyEnter
  BY <1>8, EnterInv
<1>9. CASE KeyBackspace
  BY <1>9, BackspaceInv
<1>10. CASE KeyClear
  BY <1>10, ClearInv
<1>11. CASE UNCHANGED vars
  <2>1. /\ con' = con /\ curr_term_ID' = curr_term_ID /\ cursor' = cursor /\ booted' = booted
        /\ schedule_term_ID' = schedule_term_ID /\ writing' = writing /\ keyb' = keyb /\ told' = told
    BY <1>11 DEF vars, terms, boot
  <2>2. Started' = Started
    BY <2>1 DEF Started
  <2>3. ConsoleType'
    BY <1>1, <2>1 DEF ConsoleType
  <2>4. InTurn'
    BY <1>1, <2>1, <2>2 DEF InTurn
  <2>5. Screens'
    BY <2>1, <2>2 DEF ConsoleInv, Screens, InFront, Shelved
  <2>6. QED
    BY <2>1, <2>3, <2>4, <2>5 DEF ConsoleInv
<1>12. QED
  BY <1>2, <1>3, <1>4, <1>5, <1>6, <1>7, <1>8, <1>9, <1>10, <1>11 DEF Next

LEMMA InvStays ==
  ASSUME Enough
  PROVE  Spec => []ConsoleInv
<1>1. Init => ConsoleInv
  BY InitInv
<1>2. ConsoleInv /\ [Next]_vars => ConsoleInv'
  BY NextInv
<1>3. QED
  BY <1>1, <1>2, PTL DEF Spec

(* Every terminal shows the last rows of what it has been given and nothing *)
(* else, on the screen or in its page: however rows are broken, scrolled,   *)
(* typed, taken back, cleared and exchanged (putc, scroll_down, clear,      *)
(* terminal_write, switch_terminal), and whatever the others are given.     *)
THEOREM TextStays ==
  ASSUME Enough
  PROVE  Spec => []ShowsItsText
<1>1. ConsoleInv => ShowsItsText
  BY InvGives
<1>2. QED
  BY <1>1, InvStays, PTL

(* What comes next in a terminal comes right behind its text, also after it *)
(* has been away from the screen: screen_x and screen_y, and the cursors    *)
(* kept for the others, stay in step with what is shown (update_cursor,     *)
(* switch_terminal, write_switch).                                          *)
THEOREM CursorStays ==
  ASSUME Enough
  PROVE  Spec => []CursorAtEnd
<1>1. ConsoleInv => CursorAtEnd
  BY InvGives
<1>2. QED
  BY <1>1, InvStays, PTL

(* A backspace never reaches in front of video memory in a line of at most   *)
(* LineMax characters (Enough), also one the handler goes on taking behind  *)
(* KeybMax: what has been typed into it is still on the screen, for every   *)
(* tab among it and wherever the rows were broken and scrolled in between    *)
(* (putc, keyboard_handler).                                                *)
THEOREM BackspaceInScreen ==
  ASSUME Enough
  PROVE  Spec => []NeverBeforeScreen
<1>1. ConsoleInv => NeverBeforeScreen
  BY InvGives
<1>2. QED
  BY <1>1, InvStays, PTL

(* lib.c: printf prints every word as its number in each conversion, memset, *)
(* memcpy and memmove put bytes where they should and nowhere else, and     *)
(* strncpy makes a copy that strncmp finds the same; for every number of    *)
(* bits that 4 divides, every size of memory, alignment, length and overlap. *)
THEOREM LibraryAlwaysRight == Spec => []LibraryRight
<1>1. LibraryRight
  BY NumbersAreRead, BytesAreInPlace DEF LibraryRight
<1>2. QED
  BY <1>1, PTL
=============================================================================
