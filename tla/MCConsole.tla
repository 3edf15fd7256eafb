----------------------------- MODULE MCConsole ------------------------------
(* Console with a few texts: a prompt, a row and its end, a padded name. *)
EXTENDS Console

MCKeys     == {"1", TAB}
MCDigits   == {"1"}
MCMessages == {<<">">>, <<NUL, "a", LF>>}
=============================================================================
