------------------------- MODULE MCPlanningOutcomes -------------------------
(* Two tabs that generate the exam of a course beside one planner, for TLC.*)
EXTENDS PlanningOutcomes, TLC

Symmetry == Permutations(Generations)
=============================================================================
