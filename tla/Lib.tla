-------------------------------- MODULE Lib ---------------------------------
(***************************************************************************)
(* The library of the kernel (lib.c) as operators: numbers in printf, bytes   *)
(* in memory, strings.                                                       *)
(***************************************************************************)
EXTENDS Integers, Sequences, SequencesExt

CONSTANTS
  WordBits,   (* the bits of an int: 32                                       *)
  Memory      (* a bound: the bytes of memory                                 *)

NUL == "NUL"

ASSUME LibAssumption == /\ WordBits \in Nat /\ WordBits % 4 = 0 /\ WordBits > 0
                        /\ Memory \in Nat

-----------------------------------------------------------------------------

Lookup == <<"0", "1", "2", "3", "4", "5", "6", "7", "8", "9", "A", "B", "C", "D", "E", "F">>

(* The loop of strrev exchanges the ends up to the middle. *)
StrrevShort(s) ==                     \* mutant: the two in the middle stay
  LET half == (Len(s) - 1) \div 2
  IN  [i \in 1..Len(s) |-> IF i <= half \/ i > Len(s) - half THEN s[Len(s) + 1 - i] ELSE s[i]]
Strrev(s) ==
  LET half == Len(s) \div 2
  IN  [i \in 1..Len(s) |-> IF i <= half \/ i > Len(s) - half THEN s[Len(s) + 1 - i] ELSE s[i]]

(* itoa adds the digits from the lowest on. *)
Itoa(value, radix) ==
  LET lowest[v \in 0..value] ==
        IF v = 0 THEN <<>> ELSE <<Lookup[(v % radix) + 1]>> \o lowest[v \div radix]
  IN  IF value = 0 THEN <<"0">> ELSE Strrev(lowest[value])

(* The conversions of printf, on a word of WordBits bits.  %#x puts the digits
   behind a buffer of WordBits / 4 and fills it up from their number on.     *)
Pow2(n) == LET pow[k \in 0..n] == IF k = 0 THEN 1 ELSE 2 * pow[k-1]
           IN  pow[n]

Words == 0..Pow2(WordBits)-1

PrintedSigned(a) == IF a < Pow2(WordBits - 1) THEN Itoa(a, 10)
                    ELSE <<"-">> \o Itoa(Pow2(WordBits) - a, 10)

PrintedPadded(a) == LET digits == Itoa(a, 16)
                    IN  [i \in 1..(WordBits \div 4) - Len(digits) |-> "0"] \o digits

Printed(conversion, a) == CASE conversion = "x"  -> Itoa(a, 16)
                            [] conversion = "#x" -> PrintedPadded(a)
                            [] conversion = "u"  -> Itoa(a, 10)
                            [] conversion = "d"  -> PrintedSigned(a)

-----------------------------------------------------------------------------
(* memset and memcpy go byte by byte to the next address that 4 divides, then
   in words, then byte by byte.  A move is an offset and a number of bytes.  *)
Address == 0..Memory-1

ChunksUnaligned(at, n) ==             \* mutant: the rest is counted before the words
  LET head  == IF at % 4 = 0 THEN 0 ELSE Min({n, 4 - (at % 4)})
      words == (n - head) \div 4
      rest  == n % 4
  IN  [i \in 1..head + words + rest |->
         IF i <= head THEN <<i - 1, 1>>
         ELSE IF i <= head + words THEN <<head + (4 * (i - head - 1)), 4>>
         ELSE <<head + (4 * words) + (i - head - words - 1), 1>>]
Chunks(at, n) ==
  LET head  == IF at % 4 = 0 THEN 0 ELSE Min({n, 4 - (at % 4)})
      words == (n - head) \div 4
      rest  == (n - head) % 4
  IN  [i \in 1..head + words + rest |->
         IF i <= head THEN <<i - 1, 1>>
         ELSE IF i <= head + words THEN <<head + (4 * (i - head - 1)), 4>>
         ELSE <<head + (4 * words) + (i - head - words - 1), 1>>]

Moved(m, dest, src, moves) ==
  FoldLeft(LAMBDA k, mv : [a \in DOMAIN k |-> IF a - dest \in mv[1]..mv[1] + mv[2] - 1
                                                THEN k[a - dest + src] ELSE k[a]],
           m, moves)

Memset(m, s, c, n) ==
  FoldLeft(LAMBDA k, mv : [a \in DOMAIN k |-> IF a - s \in mv[1]..mv[1] + mv[2] - 1
                                                THEN c ELSE k[a]],
           m, Chunks(s, n))

Memcpy(m, dest, src, n) == Moved(m, dest, src, Chunks(dest, n))

(* memmove goes by bytes, from the end when the source lies in front. *)
Memmove(m, dest, src, n) ==
  Moved(m, dest, src, [i \in 1..n |-> IF src >= dest THEN <<i - 1, 1>> ELSE <<n - i, 1>>])

(* A string in memory, where NUL is 0, ends before its first NUL. *)
Strlen(m, s) == Min({a \in s..Memory : a = Memory \/ m[a] = 0}) - s

(* strncpy copies n bytes at most, and fills up with NUL. *)
Strncpy(m, dest, src, n) ==
  LET len == Min({n, Strlen(m, src)})
      copied == Moved(m, dest, src, [i \in 1..len |-> <<i - 1, 1>>])
  IN  [a \in DOMAIN m |-> IF a - dest \in len..n-1 THEN 0 ELSE copied[a]]

(* strncmp finds two strings the same. *)
StrncmpSame(m, s1, s2, n) ==
  LET stop == {i \in 0..n-1 : m[s1 + i] # m[s2 + i] \/ m[s1 + i] = 0}
  IN  stop = {} \/ LET i == Min(stop) IN m[s1 + i] = m[s2 + i]

-----------------------------------------------------------------------------
(* The number that a reader takes digits for. *)
Digit(c)          == (CHOOSE i \in DOMAIN Lookup : Lookup[i] = c) - 1
Value(s, radix)   == FoldLeft(LAMBDA v, c : radix * v + Digit(c), 0, s)
Plain(s)          == Len(s) = 1 \/ s[1] # "0"

(* Every word is printed as its number in each conversion: no digit is lost or
   out of order, no zero in front but for %#x, which always has its full width,
   and the smallest signed number, whose negation overflows, is right as well. *)
NumbersReadBack ==
  \A a \in Words :
    /\ LET u == Printed("u", a) IN Plain(u) /\ Value(u, 10) = a
    /\ LET x == Printed("x", a) IN Plain(x) /\ Value(x, 16) = a
    /\ LET p == Printed("#x", a) IN Len(p) = WordBits \div 4 /\ Value(p, 16) = a
    /\ LET d == Printed("d", a)
       IN  IF a < Pow2(WordBits - 1) THEN Plain(d) /\ Value(d, 10) = a
           ELSE d[1] = "-" /\ Plain(Tail(d)) /\ Value(Tail(d), 10) = Pow2(WordBits) - a

(* Bytes end up where they should and nowhere else, for every alignment and
   length: memset in its range, memcpy of ranges that do not meet or are moved
   down, memmove of any; and strncpy leaves a copy that strncmp finds the same. *)
Numbered   == [a \in Address |-> a + 1]
Span(s, n) == s..s+n-1

BytesInPlace ==
  \A dest \in Address, n \in 0..Memory :
    dest + n <= Memory =>
      /\ Memset(Numbered, dest, 0, n) =
           [a \in Address |-> IF a \in Span(dest, n) THEN 0 ELSE a + 1]
      /\ \A src \in 0..Memory-n :
           LET copy  == [a \in Address |-> IF a \in Span(dest, n) THEN a - dest + src + 1
                                                                  ELSE a + 1]
               apart == Span(src, n) \cap Span(dest, n) = {}
               named == [Numbered EXCEPT ![src + (n \div 2)] = 0]
           IN  /\ Memmove(Numbered, dest, src, n) = copy
               /\ apart \/ dest <= src => Memcpy(Numbered, dest, src, n) = copy
               /\ n > 0 /\ apart =>
                    /\ StrncmpSame(Strncpy(named, dest, src, n), dest, src, n)
                    /\ ~StrncmpSame(Numbered, dest, src, n)
=============================================================================
