------------------------ MODULE MCScheduleLifecycle ------------------------
(* The lifecycle with two planners, for TLC. *)
EXTENDS ScheduleLifecycle, TLC

Symmetry ==
  Permutations(Planners) \cup Permutations(Teaching) \cup Permutations(Cohorts)
=============================================================================
