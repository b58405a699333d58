------------------------- MODULE MCPlanGeneration -------------------------
(* Three requests for one plan ID, with bindings that are complete (two of   *)
(* them), incomplete or invalid.                                             *)
EXTENDS PlanGeneration

CONSTANTS g1, g2, g3
=============================================================================
