-------------------------- MODULE GameScreen_proofs ---------------------------
(***************************************************************************)
(* What holds of the overlay and of the search alone holds of both beside  *)
(* each other: a step of one is a stuttering step of the other.            *)
(***************************************************************************)
EXTENDS GameScreen, OverlayPlacement_proofs, ColourSearch_proofs

LEMMA StepOfBoth == [Next]_vars => [OverlayNext]_overlayVars /\ [SearchNext]_searchVars
<1> SUFFICES ASSUME [Next]_vars
             PROVE  [OverlayNext]_overlayVars /\ [SearchNext]_searchVars
  OBVIOUS
<1> USE DEF OverlayNext, overlayVars, SearchNext, searchVars
<1>1. CASE PositionStatusOverlay /\ UNCHANGED memory
  BY <1>1 DEF PositionStatusOverlay
<1>2. CASE (FindNear \/ FindAnywhere \/ Outdated) /\ UNCHANGED overlay
  BY <1>2 DEF FindNear, FindAnywhere, Outdated, window
<1>3. CASE WindowChanges /\ Unnoticed /\ UNCHANGED overlay
  BY <1>3
<1>4. CASE UNCHANGED vars
  BY <1>4 DEF vars
<1> QED
  BY <1>1, <1>2, <1>3, <1>4 DEF Next

\* The script's uses of the window are its two parts, which share nothing else.
THEOREM ScreenIsBoth == Spec => OverlaySpec /\ SearchSpec
  BY StepOfBoth, PTL DEF Spec, Init, OverlaySpec, SearchSpec

\* On every screen, and whatever the user does with the window between two steps, the
\* overlay keeps off the window and the search keeps to it.
THEOREM ScreenIsKept ==
  Spec => [](BesideWhenRoom /\ StatusVisible /\ FollowsInWindow) /\ NearWhenSettled
  BY ScreenIsBoth, OverlayIsBeside, OverlayIsVisible, SearchFollowsInWindow,
     SearchStaysNear, PTL
=============================================================================
