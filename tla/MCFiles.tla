------------------------------ MODULE MCFiles -------------------------------
(* Files with a small image: a file of two blocks and a part, one of half a block. *)
EXTENDS Files

MCLength == [f \in {"long", "short"} |-> IF f = "long" THEN 5 ELSE 1]
MCNames  == <<"dir", "long", "rtc", "short">>
=============================================================================
