------------------------------ MODULE GameScreen ------------------------------
(***************************************************************************)
(* The two uses that alien_wagon_move.ahk makes of the window's rectangle, *)
(* beside each other: it searches the window and it puts its overlay next  *)
(* to it, each with a rectangle of its own moment.                         *)
(***************************************************************************)
EXTENDS OverlayPlacement, ColourSearch

vars == <<window, overlay, memory>>

Init == WindowInit /\ OverlayInit /\ SearchInit

Next ==
  \/ PositionStatusOverlay /\ UNCHANGED memory
  \/ (FindNear \/ FindAnywhere \/ Outdated) /\ UNCHANGED overlay
  \/ WindowChanges /\ Unnoticed /\ UNCHANGED overlay

Spec == Init /\ [][Next]_vars
=============================================================================
