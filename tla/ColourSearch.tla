----------------------------- MODULE ColourSearch -----------------------------
(***************************************************************************)
(* SpecialFindTargetColor of alien_wagon_move.ahk: it looks for the colour *)
(* near the place where it was found a moment ago, and then in the whole   *)
(* window.  The window is measured in each call; the place is remembered   *)
(* from an earlier one.                                                    *)
(*                                                                         *)
(* Line numbers in the comments are those of alien_wagon_move.ahk.         *)
(***************************************************************************)
EXTENDS GameWindow

CONSTANTS
  Margin,  \* roiMargin, 60
  Xs, Ys   \* columns and rows of the screen where the colour can be

ASSUME SearchAssumption ==
  /\ Margin \in Nat
  /\ Xs \subseteq 0..(ScreenWidth - 1) /\ Ys \subseteq 0..(ScreenHeight - 1)

VARIABLES
  lastX, lastY,  \* _lastColorX, _lastColorY
  recent,        \* _lastColorTick is at most 600 ms ago
  settled        \* observer: the window has not changed since the colour was last
                 \* found in the whole of it

memory     == <<lastX, lastY, recent, settled>>
searchVars == <<window, memory>>

SearchInit ==
  /\ lastX = 0 /\ lastY = 0
  /\ recent = FALSE /\ settled = FALSE

\* x1, y1, x2 and y2: the window, or the screen when there is none.
x1 == IF found THEN rx ELSE 0
y1 == IF found THEN ry ELSE 0
x2 == IF found THEN rx + rw - 1 ELSE ScreenWidth - 1
y2 == IF found THEN ry + rh - 1 ELSE ScreenHeight - 1

\* mutants: Max and Min are swapped; the region is not clipped to the window
SwappedMax(low, last) == Smaller(low, last - Margin)
From(low, last) == Larger(low, last - Margin)
Unclipped(high, last) == last + Margin
To(high, last)  == Smaller(high, last + Margin)

\* PixelSearch begins at one corner and ends at the other, whichever is the left or
\* the upper one.
Between(n, a, b) == n \in a..b \/ n \in b..a

PixelSearch(px, py, xa, ya, xb, yb) == Between(px, xa, xb) /\ Between(py, ya, yb)

Remember(px, py) == lastX' = px /\ lastY' = py /\ recent' = TRUE

\* The colour, in RGB or BGR order, is found in the region of interest.
FindNear ==
  /\ recent
  /\ \E px \in Xs, py \in Ys :
       /\ PixelSearch(px, py, From(x1, lastX), From(y1, lastY),
                              To(x2, lastX), To(y2, lastY))
       /\ Remember(px, py)
  /\ UNCHANGED <<window, settled>>

\* ... or else anywhere in the window.
FindAnywhere ==
  /\ \E px \in Xs, py \in Ys :
       /\ PixelSearch(px, py, x1, y1, x2, y2)
       /\ Remember(px, py)
  /\ settled' = TRUE
  /\ UNCHANGED window

\* 600 ms have passed.
Outdated ==
  /\ recent
  /\ recent' = FALSE
  /\ UNCHANGED <<window, lastX, lastY, settled>>

\* The script does not notice the change.
Unnoticed == settled' = FALSE /\ UNCHANGED <<lastX, lastY, recent>>

SearchNext ==
  FindNear \/ FindAnywhere \/ Outdated \/ (WindowChanges /\ Unnoticed)

SearchSpec == WindowInit /\ SearchInit /\ [][SearchNext]_searchVars
-----------------------------------------------------------------------------
(* Properties.                                                             *)

InWindow(px, py) == px \in x1..x2 /\ py \in y1..y2
Near(px, py) == px - lastX \in -Margin..Margin /\ py - lastY \in -Margin..Margin

\* As long as the window stays as it was when the whole of it was searched, the
\* colour is found in it, however far the region of interest has been following it
\* since then (344-362).
FollowsInWindow == settled => InWindow(lastX, lastY)

\* ... and a find in the region of interest is a find near the one before.
NearWhenSettled ==
  [][FindNear /\ settled => Near(lastX', lastY')]_searchVars

(* What a comment of the script says, and the script does not do.          *)

\* "Se houver uma posicao recente conhecida, tenta primeiro numa pequena regiao ao
\* redor dela" (318-319): what is found there is near that position.
RegionIsNear == [][FindNear => Near(lastX', lastY')]_searchVars
=============================================================================
