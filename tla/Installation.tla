----------------------------- MODULE Installation -----------------------------
(***************************************************************************)
(* What a user may expect of the installed program while the updater runs, *)
(* is stopped, and runs again: it is only given up for a newer one, and it *)
(* is lost only when the newer one is, before it has taken its place.      *)
(***************************************************************************)
EXTENDS Naturals

VARIABLES
  stage,    \* "installed"; "replacing" while its replacement is the only copy; "lost"
  version,  \* of that copy, 0 for the first one and when there is none
  meddled   \* somebody else removed or replaced the replacement

installation == <<stage, version, meddled>>

Init == stage = "installed" /\ version = 0 /\ meddled = FALSE

\* The installed program makes room for a newer one.
Supersede ==
  /\ stage = "installed"
  /\ stage' = "replacing"
  /\ version' \in Nat
  /\ meddled \/ version' > version
  /\ UNCHANGED meddled

Install ==
  /\ stage' = "installed"
  /\ \/ stage = "replacing" /\ UNCHANGED version
     \/ stage = "lost" /\ meddled /\ version' \in Nat
  /\ UNCHANGED meddled

\* An installed program is safe as long as nobody meddles with its replacement.
Lose ==
  /\ stage = "replacing" \/ (stage = "installed" /\ meddled)
  /\ stage' = "lost"
  /\ version' = 0
  /\ UNCHANGED meddled

Recover ==
  /\ stage = "lost"
  /\ stage' = "replacing"
  /\ version' \in Nat
  /\ UNCHANGED meddled

\* Nobody but the updater touches a program that is installed.
Meddle ==
  /\ meddled' \in BOOLEAN
  /\ \/ UNCHANGED <<stage, version>>
     \/ /\ meddled' /\ stage # "installed"
        /\ \/ stage' = "replacing" /\ version' \in Nat
           \/ stage' = "lost" /\ version' = 0

Next == Supersede \/ Install \/ Lose \/ Recover \/ Meddle

Spec == Init /\ [][Next]_installation
=============================================================================
