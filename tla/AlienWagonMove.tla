---------------------------- MODULE AlienWagonMove ----------------------------
(***************************************************************************)
(* alien_wagon_move.ahk: the script of the alien invasion.  Its search does *)
(* not zoom out before it turns the camera, and still activates the window. *)
(***************************************************************************)
EXTENDS MovementScript

Do(op)     == [op |-> op, keys |-> {}]
Hold(keys) == [op |-> "keys", keys |-> keys]

AlienFlow ==
  << Hold({"f"}), Hold({"Space"}), Do("zoom"), Do("search"), Do("center"),
     Hold({"w", "Space"}), Do("release"), Hold({"f"}), Do("zoom"), Do("release") >>

\* The "f" that the flow taps is not among them.
AlienReleasedKeys ==
  {"w", "a", "s", "d", "Left", "Right", "Up", "Down", "Space", "RButton"}
=============================================================================
