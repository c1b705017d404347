----------------------------- MODULE MCGameCard -----------------------------
(* Two cards, of which one has a partition the other has not. *)
EXTENDS GameCard, TLC
MCOrder == <<"secure", "normal">>
MCHas   == ("A" :> {"secure", "normal"}) @@ ("B" :> {"secure"})
=============================================================================
