------------------------- MODULE MCMissionExecutor -------------------------
(***************************************************************************)
(* The executor for TLC: missions are interchangeable.                      *)
(***************************************************************************)
EXTENDS MissionExecutor, TLC

CONSTANTS first, second

MCMission == {first, second}
MissionSymmetry == Permutations(MCMission)
=============================================================================
