----------------------------- MODULE MCGameScreen -----------------------------
(* Windows at, one pixel before and one after the limits of the overlay's  *)
(* tests, windows that leave the screen, and pixels in and around them.    *)
EXTENDS GameScreen

MCLefts == {0, 1476, 1477}
MCTops  == {-8, 31, 32, 1090}
=============================================================================
