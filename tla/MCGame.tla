------------------------------- MODULE MCGame -------------------------------
(* Game in a maze with a corridor around a corner. *)
EXTENDS Game

MCMazes == {[open |-> {<<1, 1>>, <<2, 1>>, <<3, 1>>, <<1, 2>>, <<1, 3>>},
             fruit |-> <<3, 1>>, exit |-> <<1, 3>>]}
=============================================================================
