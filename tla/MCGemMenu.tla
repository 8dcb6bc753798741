------------------------------ MODULE MCGemMenu ------------------------------
(* Two clients, two titles, one accessory row; the screen is not followed any
   further once effects were refused. *)
EXTENDS GemMenu, TLC
CONSTANTS a1, a2
MCRows == <<2, 1>>
MCTitleLetter == <<"D", "F">>
MCRowLetter == <<<<"i", "-">>, <<"o">>>>
MCAccLetter == [a \in {a1, a2} |-> "o"]
MCMarked == {<<2, 1>>}
MCFollowed == ~screen.refused
=============================================================================
