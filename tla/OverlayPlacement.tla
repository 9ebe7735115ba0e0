--------------------------- MODULE OverlayPlacement ---------------------------
(***************************************************************************)
(* PositionStatusOverlay of the movement scripts: where the status overlay *)
(* is shown, relative to the window, each time its text changes.           *)
(***************************************************************************)
EXTENDS GameWindow

VARIABLES
  x, y,    \* where the overlay was last shown
  shownAt  \* observer: what the function was given then, or "never"

overlay     == <<x, y, shownAt>>
overlayVars == <<window, overlay>>

w == 444
h == 26

Never   == [found |-> FALSE, x |-> 0, y |-> 0, w |-> 0, h |-> 0]

OverlayInit ==
  /\ x = 8 /\ y = 8
  /\ shownAt = Never

\* Above the window; below it when that is above the screen; and above it again,
\* or at the top of the screen, when that is below the screen.
\* mutants: the second choice is forgotten, or leaves out the window's height
AboveOnly == ry - h - 6
BelowItsTop == IF ry - h - 6 < 0 THEN ry + 6 ELSE ry - h - 6
TopOf ==
  LET first  == ry - h - 6
      second == IF first < 0 THEN ry + rh + 6 ELSE first
  IN  IF second + h > ScreenHeight THEN Larger(0, ry - h - 6) ELSE second

AtWindow == rx  \* mutant: the overlay is not kept on the screen
LeftOf ==
  IF rx + w > ScreenWidth THEN Larger(0, ScreenWidth - w - 4) ELSE rx

PositionStatusOverlay ==
  /\ IF found THEN x' = LeftOf /\ y' = TopOf ELSE x' = 8 /\ y' = 8
  /\ shownAt' = [found |-> found, x |-> rx, y |-> ry, w |-> rw, h |-> rh]
  /\ UNCHANGED window

OverlayNext == PositionStatusOverlay \/ (WindowChanges /\ UNCHANGED overlay)

OverlaySpec == WindowInit /\ OverlayInit /\ [][OverlayNext]_overlayVars
-----------------------------------------------------------------------------
(* Properties, of the overlay and the window it was placed for.             *)

Covers(r) == x < r.x + r.w /\ r.x < x + w /\ y < r.y + r.h /\ r.y < y + h

CornerOnScreen(r) == r.x >= 0 /\ r.y \in 0..ScreenHeight
OnScreen(r) == r.x >= 0 /\ r.y >= 0 /\ r.x + r.w <= ScreenWidth /\ r.y + r.h <= ScreenHeight

RoomAbove(r) == r.y - h - 6 >= 0
RoomBelow(r) == r.y + r.h + 6 + h <= ScreenHeight

\* For a window on the screen with room above or below it, the overlay is shown
\* beside the window and never over it (110-120): reading the window's pixels does
\* not depend on the overlay being hidden in time.
BesideWhenRoom ==
  shownAt.found /\ OnScreen(shownAt) /\ (RoomAbove(shownAt) \/ RoomBelow(shownAt))
    => ~Covers(shownAt)

\* The whole overlay is on the screen when the window's upper left corner is, and
\* the screen is large enough (111-118): the status can be read also when the
\* window leaves the screen at its right or lower edge.
StatusVisible ==
  shownAt.found /\ CornerOnScreen(shownAt) /\ ScreenWidth >= w + 4 /\ ScreenHeight >= h
    => x >= 0 /\ y >= 0 /\ x + w <= ScreenWidth /\ y + h <= ScreenHeight
=============================================================================
