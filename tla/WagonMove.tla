------------------------------ MODULE WagonMove -------------------------------
(***************************************************************************)
(* wagon_move.ahk: the script of the escort mission.                       *)
(***************************************************************************)
EXTENDS MovementScript

Do(op)     == [op |-> op, keys |-> {}]
Hold(keys) == [op |-> "keys", keys |-> keys]

\* The camera is zoomed out and centred twice: before the walk to the wagon, and
\* after it, before the double jump.
WagonFlow ==
  << Do("zoom"), Do("search"), Do("center"), Hold({"w"}), Hold({"s"}),
     Do("zoom"), Do("search"), Do("center"), Hold({"Space"}), Hold({"Space"}),
     Hold({"w"}), Do("release") >>

WagonReleasedKeys ==
  {"w", "a", "s", "d", "Left", "Right", "Up", "Down", "Space", "RButton"}
=============================================================================
