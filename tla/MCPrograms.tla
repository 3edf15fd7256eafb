----------------------------- MODULE MCPrograms -----------------------------
(* Programs with a file of a block and two characters and one shorter than a  *)
(* block that begins alike, over LF and one letter; two places are fixed.     *)
EXTENDS Programs

MCLength   == [f \in {"long", "short"} |-> IF f = "long" THEN 8 ELSE 5]
MCNames    == <<"dir", "long", "rtc", "short">>
MCTexts    == {[f \in DOMAIN MCLength |-> SubSeq(t, 1, MCLength[f])] :
                 t \in {u \in [1..8 -> {LF, "a"}] : u[1] = "a" /\ u[7] = "a"}}
MCSpelling == [w \in {"aa", "long", "rtc"} |-> IF w = "aa" THEN <<"a", "a">> ELSE <<w>>]
=============================================================================
