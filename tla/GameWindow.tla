------------------------------ MODULE GameWindow ------------------------------
(***************************************************************************)
(* The game's window as GetRobloxClientRect of the movement scripts sees   *)
(* it, in pixels: the user opens, closes, moves and resizes it between any *)
(* two steps of a script.                                                  *)
(***************************************************************************)
EXTENDS Integers

CONSTANTS
  ScreenWidth, ScreenHeight,     \* A_ScreenWidth, A_ScreenHeight
  Lefts, Tops, Widths, Heights   \* places and sizes that the window can have

ASSUME WindowAssumption ==
  /\ ScreenWidth \in Nat \ {0} /\ ScreenHeight \in Nat \ {0}
  /\ Lefts \subseteq Int /\ Tops \subseteq Int
  /\ Widths \subseteq Nat \ {0} /\ Heights \subseteq Nat \ {0}

VARIABLES
  found,          \* GetRobloxClientRect succeeds
  rx, ry, rw, rh  \* and returns this rectangle

window == <<found, rx, ry, rw, rh>>

WindowInit ==
  /\ found = FALSE
  /\ rx \in Lefts /\ ry \in Tops /\ rw \in Widths /\ rh \in Heights

WindowMoves ==
  /\ rx' \in Lefts /\ ry' \in Tops
  /\ UNCHANGED <<found, rw, rh>>

WindowResizes ==
  /\ rw' \in Widths /\ rh' \in Heights
  /\ UNCHANGED <<found, rx, ry>>

WindowOpensOrCloses ==
  /\ found' = ~found
  /\ UNCHANGED <<rx, ry, rw, rh>>

WindowChanges == WindowMoves \/ WindowResizes \/ WindowOpensOrCloses

Larger(a, b)  == IF a > b THEN a ELSE b
Smaller(a, b) == IF a < b THEN a ELSE b
=============================================================================
