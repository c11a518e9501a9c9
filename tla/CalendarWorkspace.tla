------------------------- MODULE CalendarWorkspace --------------------------
(***************************************************************************)
(* What the calendar shows: get_calendar_workspace of                      *)
(* backend/app/services/calendar_workspace.py, from the working schedule   *)
(* or from the snapshot of the publication, with findings that are derived *)
(* from the catalog as it is when the calendar is opened.  There is no     *)
(* state here.  Names stand for what they name; snapshots of the first     *)
(* schema version, which have no constraint profile, are left out.         *)
(***************************************************************************)
EXTENDS PublicationConditions

CONSTANT Minute   (* ticks                                                  *)

ASSUME MinuteAssumption == Minute \in Nat \ {0}

(* _clock: hours and minutes, without the seconds.                         *)
Clock(time) == time - (time % Minute)

TeachingOccurrence(s, cohort, profile) ==
  [ref |-> <<"teaching", s.ref>>, kind |-> "teaching", course |-> s.course, date |-> s.date,
   start |-> Clock(s.start), end |-> Clock(s.end), lecturer |-> s.lecturer, room |-> s.room,
   cohort |-> cohort, units |-> s.units, profile |-> profile]

ExamOccurrence(e, issues) ==
  [ref |-> <<"exam", e.ref>>, kind |-> "exam", course |-> e.course, date |-> e.date,
   start |-> Clock(e.start), end |-> Clock(e.end), lecturer |-> e.lecturer, room |-> e.room,
   cohort |-> e.cohort, required |-> e.required, outside |-> Outside(e), issues |-> issues]

(* Mutant of WorkingContent: teaching is held against the windows its      *)
(* draft was made with.                                                    *)
WorkingContentAsDrafted(plan) ==
  {TeachingOccurrence(s, plan.facts.course[s.course].cohort,
     Profile([plan.facts EXCEPT !.constraints[s.course].studyType = plan.studyType[s.course]], s.course)) :
       s \in plan.teaching}
  \cup {ExamOccurrence(e, {}) : e \in plan.exams}

(* _working_content                                                        *)
WorkingContent(plan) ==
  {TeachingOccurrence(s, plan.facts.course[s.course].cohort, Profile(plan.facts, s.course)) :
     s \in plan.teaching}
  \cup {ExamOccurrence(e, {}) : e \in plan.exams}

(* _published_content                                                      *)
PublishedContent(snapshot) ==
  {TeachingOccurrence(s, snapshot.cohort[s.course], snapshot.profile[s.course]) : s \in snapshot.teaching}
  \cup {ExamOccurrence(e, snapshot.issues[e]) : e \in snapshot.exams}
-----------------------------------------------------------------------------
(* derive_calendar_validation_findings                                     *)
RequiredCapacity(o, facts) == IF o.kind = "exam" THEN o.required ELSE facts.size[o.course]

ProfileIssues(o) ==
  LET windows == {[w EXCEPT !.from = Clock(@), !.until = Clock(@)] : w \in o.profile.windows}
  IN  PeriodIssues(o, o.profile.from, o.profile.until) \cup WindowIssues(o, windows)

(* Captured issues that are derived again from the facts of today, under   *)
(* the names the common evaluation has for them.                           *)
Rederived == [
  RESPONSIBLE_LECTURER_INELIGIBLE |-> "LECTURER_INELIGIBLE", ROOM_INELIGIBLE |-> "ROOM_INELIGIBLE",
  INSUFFICIENT_ROOM_CAPACITY |-> "ROOM_CAPACITY", LECTURER_UNAVAILABLE |-> "LECTURER_UNAVAILABLE",
  ROOM_UNAVAILABLE |-> "ROOM_UNAVAILABLE", INSTITUTION_HOLIDAY |-> "INSTITUTION_HOLIDAY",
  LECTURER_OCCUPIED |-> "LECTURER_OVERLAP", ROOM_OCCUPIED |-> "ROOM_OVERLAP",
  COHORT_OCCUPIED |-> "COHORT_OVERLAP"]

KeptIssues(o) ==
  (IF o.outside THEN {"OUTSIDE_RECOMMENDED_WINDOW"} ELSE {}) \cup (o.issues \ DOMAIN Rederived)

OwnIssues(o) == IF o.kind = "exam" THEN KeptIssues(o) ELSE ProfileIssues(o)

Findings(content, facts) ==
  EvaluateOccurrences(
    {ValidationRecord(o.ref, o, o.cohort, RequiredCapacity(o, facts)) : o \in content}, facts)
  \cup UNION {{[issue |-> issue, sessions |-> {o.ref}] : issue \in OwnIssues(o)} : o \in content}

(* _link_refs, _summary: a course needs review when units of it remain,    *)
(* when a finding affects it, or when its retained outcome is a failure or *)
(* stale (troubled).                                                       *)
NeedsReview(total, content, findings, troubled) ==
  LET teaching(c) == {o \in content : o.course = c /\ o.kind = "teaching"}
      affected == {o.course : o \in {o \in content : \E f \in findings : o.ref \in f.sessions}}
  IN  {c \in DOMAIN total : Remaining(total[c], teaching(c)) > 0} \cup affected \cup troubled
=============================================================================
