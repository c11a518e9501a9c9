-------------------------- MODULE MCDraftSchedule --------------------------
(* Drafts of small semesters, for TLC. *)
EXTENDS DraftSchedule

CONSTANTS r1, r2

(* A result that schedules nothing, one session, and two sessions. *)
SmallPlans ==
  {{}, {[date |-> 1, room |-> r1]}, {[date |-> 1, room |-> r1], [date |-> 2, room |-> r1]}}

(* Nothing reads both drafts and saved periods, so they are explored one at *)
(* a time.                                                                 *)
DraftsOrPeriods ==
  \/ (\A c \in Courses : override[c] = NoOverride) /\ (\A t \in Tabs : page[t] = Idle)
  \/ /\ sessions = {} /\ \A c \in Courses : drafts[c] = NoDraft
     /\ \A p \in Planners : form[p] = Idle /\ dialog[p] = Idle
=============================================================================
