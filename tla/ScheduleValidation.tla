------------------------- MODULE ScheduleValidation -------------------------
(***************************************************************************)
(* What is wrong with a set of sessions, from the catalog as it is:        *)
(* backend/app/services/draft_schedule_validation.py and                   *)
(* resource_rules.py.  There is no state here.  Dates are numbers, times   *)
(* of a day are ticks.                                                     *)
(*                                                                         *)
(* A session is a record with ref, course, date, start, end, lecturer,     *)
(* room and cohort; a record to evaluate has the required capacity too.    *)
(* The facts are a record with                                             *)
(*   size        current students of each course's cohort                  *)
(*   capacity    of each room there is                                     *)
(*   lecturers, rooms              eligible for each course                *)
(*   activeLecturers, activeRooms                                          *)
(*   periods     of unavailability of lecturers and rooms                  *)
(*   holidays    dates, or HolidaysMissing                                 *)
(*   constraints of each course: from, until, studyType                    *)
(*   windows     of each study type: day, from, until                      *)
(***************************************************************************)
EXTENDS Integers, FiniteSets

CONSTANT HolidaysMissing   (* the holidays could not be read                 *)

Weekday(date) == date % 7

(* intervals_overlap                                                       *)
Meet(s, t) == s.date = t.date /\ s.start < t.end /\ t.start < s.end

(* period_overlaps_session: a period recurs on its weekdays, or lasts from *)
(* a time of its first date to a time of its last.                         *)
Touches(period, s) ==
  IF period.recurring
  THEN Weekday(s.date) \in period.weekdays /\ s.start < period.end /\ s.end > period.start
  ELSE /\ s.date < period.last \/ (s.date = period.last /\ s.start < period.end)
       /\ s.date > period.first \/ (s.date = period.first /\ s.end > period.start)

(* resource_is_unavailable                                                 *)
Unavailable(periods, resource, s) ==
  \E period \in periods : period.resource = resource /\ Touches(period, s)

(* evaluate_occurrence_records                                             *)
Shared(s, t) ==
  (IF s.lecturer = t.lecturer THEN {"LECTURER_OVERLAP"} ELSE {}) \cup
  (IF s.room = t.room THEN {"ROOM_OVERLAP"} ELSE {}) \cup
  (IF s.cohort = t.cohort THEN {"COHORT_OVERLAP"} ELSE {})

Conflicts(sessions) ==
  UNION {UNION {{[issue |-> issue, sessions |-> {s.ref, t.ref}] : issue \in Shared(s, t)} :
                 t \in {t \in sessions : s.ref # t.ref /\ Meet(s, t)}} : s \in sessions}

Issues(s, facts) ==
  LET raised(issue, wrong) == IF wrong THEN {issue} ELSE {}
  IN  UNION {
        raised("LECTURER_INELIGIBLE",
               s.lecturer \notin facts.lecturers[s.course] \cap facts.activeLecturers),
        raised("LECTURER_UNAVAILABLE", Unavailable(facts.periods, s.lecturer, s)),
        raised("ROOM_INELIGIBLE", s.room \notin facts.rooms[s.course] \cap facts.activeRooms),
        raised("ROOM_UNAVAILABLE", Unavailable(facts.periods, s.room, s)),
        raised("VALIDATION_DATA_MISSING", s.room \notin DOMAIN facts.capacity),
        raised("ROOM_CAPACITY",
               s.room \in DOMAIN facts.capacity /\ facts.capacity[s.room] < s.required),
        raised("VALIDATION_DATA_MISSING", facts.holidays = HolidaysMissing),
        raised("INSTITUTION_HOLIDAY",
               facts.holidays # HolidaysMissing /\ s.date \in facts.holidays)}

EvaluateOccurrences(records, facts) ==
  Conflicts(records) \cup
  UNION {{[issue |-> issue, sessions |-> {s.ref}] : issue \in Issues(s, facts)} : s \in records}

(* fits_any_validation_window                                              *)
Fits(s, windows) ==
  \E w \in windows : w.day = Weekday(s.date) /\ s.start >= w.from /\ s.end <= w.until

(* evaluate_teaching_constraints                                           *)
PeriodIssues(s, from, until) ==
  IF s.date < from \/ s.date > until THEN {"GENERATION_CONSTRAINT_VIOLATION"} ELSE {}

WindowIssues(s, windows) ==
  IF windows = {} THEN {"VALIDATION_DATA_MISSING"}
  ELSE IF ~ Fits(s, windows) THEN {"STUDY_TYPE_WINDOW_VIOLATION"} ELSE {}

(* _add_generation_constraint_alert, _add_study_type_window_alert.  The    *)
(* windows are looked up by the study type the course has now.             *)
ConstraintIssues(s, facts) ==
  LET loaded == s.course \in DOMAIN facts.constraints
      constraints == facts.constraints[s.course]
      type == IF loaded THEN constraints.studyType ELSE s.studyType
      windows == IF type \in DOMAIN facts.windows THEN facts.windows[type] ELSE {}
  IN  (IF loaded THEN PeriodIssues(s, constraints.from, constraints.until)
                 ELSE {"VALIDATION_DATA_MISSING"}) \cup
      WindowIssues(s, windows)

(* collect_validation_alerts: the alerts of every session, with the        *)
(* sessions it is in conflict with.                                        *)
Related(found, ref, issue) ==
  (UNION {f.sessions : f \in {f \in found : f.issue = issue /\ ref \in f.sessions}}) \ {ref}

ValidationRecord(ref, s, cohort, required) ==
  [ref |-> ref, course |-> s.course, date |-> s.date, start |-> s.start, end |-> s.end,
   lecturer |-> s.lecturer, room |-> s.room, cohort |-> cohort, required |-> required]

ValidationAlerts(sessions, facts) ==
  LET found == EvaluateOccurrences(
        {ValidationRecord(s.ref, s, s.cohort, facts.size[s.course]) : s \in sessions}, facts)
      raised(s) == {f.issue : f \in {f \in found : s.ref \in f.sessions}} \cup ConstraintIssues(s, facts)
  IN  [s \in sessions |-> {[code |-> issue, related |-> Related(found, s.ref, issue)] : issue \in raised(s)}]
=============================================================================
