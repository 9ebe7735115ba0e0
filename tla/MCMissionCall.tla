---------------------------- MODULE MCMissionCall -----------------------------
(* Calls of the alien invasion: the script is alien_wagon_move.ahk.        *)
EXTENDS MissionCall, AlienWagonMove
=============================================================================
