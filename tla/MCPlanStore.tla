----------------------------- MODULE MCPlanStore -----------------------------
(***************************************************************************)
(* PlanStore for TLC: three machines for two slots, so that one can be     *)
(* replaced and comes back as a candidate, one more registration than      *)
(* machines so that a machine can register twice, two coordinators that    *)
(* race.                                                                   *)
(***************************************************************************)
EXTENDS PlanStore, TLC

Symmetry == Permutations(Nodes) \cup Permutations(Managers)
              \cup Permutations(PlanIds)
=============================================================================
