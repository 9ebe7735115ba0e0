--------------------------- MODULE MovementPromise ----------------------------
(***************************************************************************)
(* What the main program may count on when it starts a movement script: a  *)
(* run works until it has decided on one result, reports that result and   *)
(* no other, and is over.  It can be cut short, by a new start included,   *)
(* and never goes back to work.                                            *)
(***************************************************************************)
CONSTANTS Results, NotDecided

VARIABLES
  stage,   \* "idle", "working", "reporting" or "over"
  result   \* of the last run

promised == <<stage, result>>

Init == stage = "idle" /\ result = NotDecided

Start ==
  /\ stage' = "working"
  /\ result' = NotDecided

Decide ==
  /\ stage = "working"
  /\ stage' = "reporting"
  /\ result' \in Results

End ==
  /\ stage = "reporting"
  /\ stage' = "over"
  /\ UNCHANGED result

CutShort ==
  /\ stage \in {"working", "reporting"}
  /\ stage' = "over"
  /\ UNCHANGED result

Next == Start \/ Decide \/ End \/ CutShort

Spec == Init /\ [][Next]_promised

\* A run that is not cut short gets to its result, and to its end.
FairSpec == Spec /\ WF_promised(Decide) /\ WF_promised(End)
=============================================================================
