--------------------------- MODULE MCDextService ---------------------------
EXTENDS DextService

(* A few; that it holds for every operand is proved.                 *)
MCAsked == {Lines(BoardHandle), Poke(4095, 255), Recover}
=============================================================================
