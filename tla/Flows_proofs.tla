----------------------------- MODULE Flows_proofs -----------------------------
(***************************************************************************)
(* What the theorems about MovementScript mean for the two flows that the  *)
(* repository has: wagon_move.ahk and alien_wagon_move.ahk.                *)
(***************************************************************************)
EXTENDS WagonMove, MovementScript_proofs

Alien == INSTANCE AlienWagonMove

\* The keys of the flows, the camera's included.
LEMMA WagonKeys ==
  ASSUME Flow = WagonFlow
  PROVE  Keys \subseteq {"Left", "Right", "w", "s", "Space"}
<1>1. \A i \in DOMAIN WagonFlow : WagonFlow[i].keys \subseteq {"w", "s", "Space"}
  BY DEF WagonFlow, Do, Hold
<1> QED
  BY <1>1 DEF Keys

LEMMA AlienKeys ==
  ASSUME Flow = Alien!AlienFlow
  PROVE  Keys \subseteq {"Left", "Right", "w", "Space", "f"}
<1>1. \A i \in DOMAIN Alien!AlienFlow :
        Alien!AlienFlow[i].keys \subseteq {"w", "Space", "f"}
  BY DEF Alien!AlienFlow, Alien!Do, Alien!Hold
<1> QED
  BY <1>1 DEF Keys

Reporting == pc \in SignalPcs /\ outcome.detail # "no_window"

\* wagon_move.ahk (402-414, 545-599): when it reports there is no key down at all, also
\* after instances that were killed while they held some.
THEOREM WagonHoldsNothing ==
  Flow = WagonFlow /\ ReleasedKeys = WagonReleasedKeys /\ Spec
    => [](Reporting => held = {})
<1> SUFFICES ASSUME Flow = WagonFlow, ReleasedKeys = WagonReleasedKeys
             PROVE  Spec => [](Reporting => held = {})
  OBVIOUS
<1>1. Keys \subseteq ReleasedKeys
  BY WagonKeys DEF WagonReleasedKeys
<1>2. OnlyUnnamedHeld => (Reporting => held = {})
  BY <1>1 DEF OnlyUnnamedHeld, Reporting
<1> QED
  BY <1>2, OnlyUnnamedStayDown, PTL

\* alien_wagon_move.ahk (474-494, 705): only the "f" that its release list does not name
\* can be down, and only because a killed instance left it down (NoKeyIsLeftDown).
THEOREM AlienHoldsAtMostF ==
  Flow = Alien!AlienFlow /\ ReleasedKeys = Alien!AlienReleasedKeys /\ Spec
    => [](Reporting => held \subseteq {"f"} /\ held \subseteq stuck)
<1> SUFFICES ASSUME Flow = Alien!AlienFlow, ReleasedKeys = Alien!AlienReleasedKeys
             PROVE  Spec => [](Reporting => held \subseteq {"f"} /\ held \subseteq stuck)
  OBVIOUS
<1>1. Keys \ ReleasedKeys \subseteq {"f"}
  BY AlienKeys DEF Alien!AlienReleasedKeys
<1>2. OnlyUnnamedHeld /\ LeavesNoKeyDown
        => (Reporting => held \subseteq {"f"} /\ held \subseteq stuck)
  BY <1>1 DEF OnlyUnnamedHeld, LeavesNoKeyDown, Reporting
<1> QED
  BY <1>2, OnlyUnnamedStayDown, NoKeyIsLeftDown, PTL
=============================================================================
