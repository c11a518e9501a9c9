-------------------------- MODULE PlanningOutcomes --------------------------
(***************************************************************************)
(* The retained outcome of the exam generation of one course, kept per     *)
(* revision: retain_planning_outcome of                                    *)
(* backend/app/services/planning_outcomes.py as generate in                *)
(* backend/app/api/exam_scheduling.py calls it, beside the revision        *)
(* lifecycle.  A generation that places an exam, of this course or of      *)
(* another one, claims the semester and saves it with all its outcomes in  *)
(* one step.  One that placed nothing takes its completion time and looks  *)
(* for the working revision and the retained outcome without a claim; only *)
(* its write takes the lock.  The outcome of a semester optimization is    *)
(* always retained under the claim.                                        *)
(*                                                                         *)
(* An outcome is the number of its completion, in the order of the times.  *)
(***************************************************************************)
EXTENDS ScheduleLifecycle

CONSTANTS
  Generations,     (* browser tabs, one generation in flight each           *)
  MaxCompletions   (* bound: generations that complete                      *)

VARIABLES
  outcomes,     (* planning_outcomes: [Revisions -> completion, or NoOutcome]*)
  generation,   (* [Generations -> request]                                 *)
  completions   (* generations completed so far                             *)

retention == <<outcomes, generation, completions>>

NoOutcome == 0
NoRequest == [phase |-> "none"]
Running(r) == [phase |-> "running", revision |-> r]
Completed(r, at) == [phase |-> "completed", revision |-> r, at |-> at]
Checked(r, at, found) == [phase |-> "checked", revision |-> r, at |-> at, found |-> found]

RetentionInit ==
  /\ outcomes = [r \in Revisions |-> NoOutcome]
  /\ generation = [g \in Generations |-> NoRequest]
  /\ completions = 0

Now == completions + 1
CompletesNow == completions < MaxCompletions /\ completions' = Now
Continue(g, request) == generation' = [generation EXCEPT ![g] = request]
EndRequest(g) == Continue(g, NoRequest)

Supersedes(at, found) == found = NoOutcome \/ found < at

(* require_active_working_revision                                         *)
Generate(g, r) ==
  /\ generation[g] = NoRequest
  /\ r \in Working
  /\ Continue(g, Running(r))
  /\ UNCHANGED <<vars, outcomes, completions>>

SaveArrangement(g, exams) ==
  /\ generation[g].phase = "running"
  /\ LET r == generation[g].revision
     IN  /\ EditExams(r, exams)
         /\ outcomes' = [outcomes EXCEPT ![r] = IF Supersedes(Now, @) THEN Now ELSE @]
  /\ CompletesNow
  /\ EndRequest(g)

(* The claim finds another working revision, or none.                      *)
ClaimRefused(g) ==
  /\ generation[g].phase = "running"
  /\ generation[g].revision \notin Working
  /\ EndRequest(g)
  /\ UNCHANGED <<vars, outcomes, completions>>

PlaceNothing(g) ==
  /\ generation[g].phase = "running"
  /\ CompletesNow
  /\ Continue(g, Completed(generation[g].revision, Now))
  /\ UNCHANGED <<vars, outcomes>>

(* StalePlanningOutcomeError, or the retained outcome is newer.            *)
KeepRetained(g) ==
  /\ generation[g].phase = "completed"
  /\ LET q == generation[g]
     IN  q.revision \notin Working \/ ~ Supersedes(q.at, outcomes[q.revision])
  /\ EndRequest(g)
  /\ UNCHANGED <<vars, outcomes, completions>>

FindRetained(g) ==
  /\ generation[g].phase = "completed"
  /\ LET q == generation[g]
     IN  /\ q.revision \in Working
         /\ Supersedes(q.at, outcomes[q.revision])
         /\ Continue(g, Checked(q.revision, q.at, outcomes[q.revision]))
  /\ UNCHANGED <<vars, outcomes, completions>>

(* An INSERT beside another one meets                                      *)
(* uq_planning_outcome_revision_course_kind; an UPDATE meets nothing.      *)
Retain(g) ==
  /\ generation[g].phase = "checked"
  /\ LET q == generation[g]
         r == q.revision
     IN  IF q.found = NoOutcome /\ outcomes[r] # NoOutcome THEN UNCHANGED outcomes
         ELSE outcomes' = [outcomes EXCEPT ![r] = q.at]
  /\ EndRequest(g)
  /\ UNCHANGED <<vars, completions>>

RetentionStep ==
  \E g \in Generations :
    \/ \E r \in Revisions : Generate(g, r)
    \/ \E exams \in Exams : SaveArrangement(g, exams)
    \/ ClaimRefused(g) \/ PlaceNothing(g) \/ KeepRetained(g) \/ FindRetained(g) \/ Retain(g)

OutcomesInit == Init /\ RetentionInit
OutcomesNext == (Next /\ UNCHANGED retention) \/ RetentionStep
OutcomesSpec == OutcomesInit /\ [][OutcomesNext]_<<vars, retention>>
-----------------------------------------------------------------------------
(* "The product MUST retain the latest applicable completed planning       *)
(* outcome [...] until a newer applicable completed outcome [...]          *)
(* supersedes it" (014 FR-034): in whatever order generations complete and *)
(* are retained, the outcome of a revision gives way only to a newer one.  *)
OutcomesAreLatest ==
  [][\A r \in Revisions :
       outcomes'[r] # outcomes[r] => outcomes[r] < outcomes'[r]]_<<vars, retention>>
=============================================================================
