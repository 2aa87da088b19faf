------------------------------ MODULE MCMissions ------------------------------
(* Missions for TLC: an active/standby pair of coordinators. *)
EXTENDS Missions, TLC

CONSTANTS n1, n2, d1

NodeSymmetry == Permutations({n1, n2})
=============================================================================
