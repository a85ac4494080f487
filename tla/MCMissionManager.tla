-------------------------- MODULE MCMissionManager --------------------------
(***************************************************************************)
(* MissionManager as TLC checks it.                                        *)
(***************************************************************************)
EXTENDS MissionManager, TLC

\* The mission and one kind of plan that is kept as statistics
MCStatTypes == <<"fence">>

\* Instances and items are told apart only by their names.
Symmetry == Permutations(Instances) \cup Permutations(Items)
=============================================================================
