------------------------ MODULE MCSemesterWorkspace ------------------------
(* The lifecycle with two planners, and a calendar beside the steps of one *)
(* of them, for TLC.                                                       *)
EXTENDS SemesterWorkspace, TLC

Symmetry ==
  Permutations(Planners) \cup Permutations(Teaching) \cup Permutations(Cohorts)

OneWorks ==
  \E p \in Planners : \A q \in Planners \ {p} :
    held[p] = StateToken /\ heldAt[q] = 0 /\ preparation[q] = NoPreparation

(* Bounds: a calendar is open beside one planner at work who loses no      *)
(* answer, while courses stay in their cohorts.  After five events one     *)
(* planner at most has a publication dialog open.                          *)
OneWorksBesideIt ==
  /\ Len(events) >= 5 => \E p \in Planners : preparation[p] = NoPreparation
  /\ workspace # Closed =>
       OneWorks /\ \A r \in Exists \ Working : rows[r].snapshot.cohort = cohort
=============================================================================
