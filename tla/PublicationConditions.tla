----------------------- MODULE PublicationConditions ------------------------
(***************************************************************************)
(* What the schedule page (backend/app/api/draft_schedule.py) and the      *)
(* publication dialog (_build_snapshot in                                  *)
(* backend/app/services/schedule_lifecycle.py) say of a working schedule,  *)
(* and what a publication freezes.  There is no state here.                *)
(*                                                                         *)
(* A plan is a record with the sessions of its teaching and of its exams,  *)
(* the facts of the catalog, and studyType, the study type each course had *)
(* when its draft was made.  An exam is a session with required, its       *)
(* capacity, and first and last, its recommended dates.  Left out are      *)
(* enabled exams that are not scheduled and the bounds of the semester.    *)
(***************************************************************************)
EXTENDS ScheduleValidation, FiniteSetsExt, Functions

Loaded(facts, studyTypes) ==
  [facts EXCEPT !.windows = Restrict(@, studyTypes \cap DOMAIN @)]

TypeNow(plan, c) == plan.facts.constraints[c].studyType

(* _to_responses_with_validation                                           *)
PageAlerts(plan) ==
  ValidationAlerts(plan.teaching,
    Loaded(plan.facts, {plan.studyType[s.course] : s \in plan.teaching}))

(* Mutant of DialogAlerts: the windows are loaded as for the page.         *)
DialogAlertsOfDrafts(plan) == PageAlerts(plan)

(* _teaching_validation_alerts                                             *)
DialogAlerts(plan) ==
  ValidationAlerts(plan.teaching,
    Loaded(plan.facts, UNION {{plan.studyType[s.course], TypeNow(plan, s.course)} : s \in plan.teaching}))
-----------------------------------------------------------------------------
(* _snapshot_exam_validity_issues                                          *)
TeachingOf(plan, c) == {s \in plan.teaching : s.course = c}

FinalTeaching(plan, c) ==
  CHOOSE s \in TeachingOf(plan, c) : \A t \in TeachingOf(plan, c) :
    t.date < s.date \/ (t.date = s.date /\ t.end <= s.end)

Occupants(plan, e) == {f \in plan.teaching \cup (plan.exams \ {e}) : Meet(e, f)}

ExamIssues(plan, e) ==
  LET facts == plan.facts
      final == FinalTeaching(plan, e.course)
      raised(issue, wrong) == IF wrong THEN {issue} ELSE {}
      occupied(field) == \E f \in Occupants(plan, e) : f[field] = e[field]
  IN  IF TeachingOf(plan, e.course) = {} THEN {"FINAL_TEACHING_SESSION_MISSING"}
      ELSE UNION {
        raised("BEFORE_FINAL_TEACHING",
               e.date < final.date \/ (e.date = final.date /\ e.start < final.end)),
        raised("RESPONSIBLE_LECTURER_INELIGIBLE",
               e.lecturer \notin facts.lecturers[e.course] \cap facts.activeLecturers),
        raised("ROOM_INELIGIBLE", e.room \notin facts.rooms[e.course] \cap facts.activeRooms),
        raised("INSUFFICIENT_ROOM_CAPACITY",
               e.room \in DOMAIN facts.capacity /\ facts.capacity[e.room] < e.required),
        raised("LECTURER_UNAVAILABLE", Unavailable(facts.periods, e.lecturer, e)),
        raised("ROOM_UNAVAILABLE", Unavailable(facts.periods, e.room, e)),
        raised("INSTITUTION_HOLIDAY", e.date \in facts.holidays),
        raised("LECTURER_OCCUPIED", occupied("lecturer")),
        raised("ROOM_OCCUPIED", occupied("room")),
        raised("COHORT_OCCUPIED", occupied("cohort"))}

Outside(e) == e.date < e.first \/ e.date > e.last
-----------------------------------------------------------------------------
Scheduled(sessions) == MapThenSumSet(LAMBDA s : s.units, sessions)
Remaining(total, sessions) == IF total > Scheduled(sessions) THEN total - Scheduled(sessions) ELSE 0

Courses(plan) == DOMAIN plan.facts.course

(* The conditions of a course that the dialog names (capturedConditions).  *)
Conditions(plan, c) ==
  LET alerts == DialogAlerts(plan)
      exams == {e \in plan.exams : e.course = c}
      raised(condition, holds) == IF holds THEN {condition} ELSE {}
  IN  UNION {
        raised("course_units_remaining", Remaining(plan.facts.course[c].total, TeachingOf(plan, c)) > 0),
        raised("teaching_validation_alert", \E s \in TeachingOf(plan, c) : alerts[s] # {}),
        raised("exam_validity_issue", \E e \in exams : ExamIssues(plan, e) # {}),
        raised("exam_outside_recommendation", \E e \in exams : Outside(e))}

(* constraintProfile: the period and the windows teaching has to keep to.  *)
Profile(facts, c) ==
  LET constraints == facts.constraints[c]
  IN  [from |-> constraints.from, until |-> constraints.until,
       windows |-> IF constraints.studyType \in DOMAIN facts.windows
                   THEN facts.windows[constraints.studyType] ELSE {}]

(* The snapshot: the schedule with the facts captured beside it.           *)
Captured(plan) ==
  [teaching |-> plan.teaching,
   exams |-> plan.exams,
   total |-> [c \in Courses(plan) |-> plan.facts.course[c].total],
   cohort |-> [c \in Courses(plan) |-> plan.facts.course[c].cohort],
   profile |-> [c \in Courses(plan) |-> Profile(plan.facts, c)],
   issues |-> [e \in plan.exams |-> ExamIssues(plan, e)]]
=============================================================================
