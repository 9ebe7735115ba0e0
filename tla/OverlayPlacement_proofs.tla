----------------------- MODULE OverlayPlacement_proofs ------------------------
(***************************************************************************)
(* Proofs about OverlayPlacement for every screen and every window.        *)
(***************************************************************************)
EXTENDS OverlayPlacement, TLAPS

\* The two properties, and the types that their arithmetic needs.
PlaceInv ==
  /\ rx \in Int /\ ry \in Int /\ rw \in Nat \ {0} /\ rh \in Nat \ {0}
  /\ x \in Int /\ y \in Int
  /\ BesideWhenRoom
  /\ StatusVisible

LEMMA InitPlace == WindowInit /\ OverlayInit => PlaceInv
  BY WindowAssumption DEF WindowInit, OverlayInit, PlaceInv, BesideWhenRoom, StatusVisible, Never

LEMMA NextPlace == PlaceInv /\ [OverlayNext]_overlayVars => PlaceInv'
<1> SUFFICES ASSUME PlaceInv, [OverlayNext]_overlayVars PROVE PlaceInv'
  OBVIOUS
<1> USE DEF PlaceInv, BesideWhenRoom, StatusVisible, OnScreen, CornerOnScreen,
        RoomAbove, RoomBelow, Covers
<1>1. CASE PositionStatusOverlay
  <2> DEFINE r == [found |-> found, x |-> rx, y |-> ry, w |-> rw, h |-> rh]
  <2>1. shownAt' = r /\ UNCHANGED <<found, rx, ry, rw, rh>>
    BY <1>1 DEF PositionStatusOverlay, window
  <2>2. x' = (IF found THEN LeftOf ELSE 8) /\ y' = (IF found THEN TopOf ELSE 8)
    BY <1>1 DEF PositionStatusOverlay
  <2>3. LeftOf \in Int /\ TopOf \in Int
    BY WindowAssumption DEF LeftOf, TopOf, Larger, w, h
  <2>4. BesideWhenRoom'
    BY <2>1, <2>2, WindowAssumption DEF LeftOf, TopOf, Larger, w, h
  <2>5. StatusVisible'
    BY <2>1, <2>2, WindowAssumption DEF LeftOf, TopOf, Larger, w, h
  <2> QED
    BY <2>1, <2>2, <2>3, <2>4, <2>5
<1>2. CASE WindowChanges /\ UNCHANGED overlay
  BY <1>2, WindowAssumption DEF WindowChanges, WindowMoves, WindowResizes,
     WindowOpensOrCloses, overlay
<1>3. CASE UNCHANGED overlayVars
  BY <1>3 DEF overlay, window, overlayVars
<1> QED
  BY <1>1, <1>2, <1>3 DEF OverlayNext

LEMMA SpecPlace == OverlaySpec => []PlaceInv
  BY InitPlace, NextPlace, PTL DEF OverlaySpec

\* On a screen of any size, a window with room above or below it is not covered.
THEOREM OverlayIsBeside == OverlaySpec => []BesideWhenRoom
<1>1. PlaceInv => BesideWhenRoom
  BY DEF PlaceInv
<1> QED
  BY <1>1, SpecPlace, PTL

\* On a screen that is large enough the whole overlay is visible.
THEOREM OverlayIsVisible == OverlaySpec => []StatusVisible
<1>1. PlaceInv => StatusVisible
  BY DEF PlaceInv
<1> QED
  BY <1>1, SpecPlace, PTL
=============================================================================
