-------------------------- MODULE MCExamScheduling --------------------------
(* Exams of a small semester, for TLC: the courses have their own cohorts  *)
(* and lecturers and share the rooms.                                      *)
EXTENDS ExamScheduling, TLC

CONSTANTS c1, c2, l1, l2, r1

OwnCohorts == [c \in Courses |-> c]
LecturerOf(c) == IF c = c1 THEN l1 ELSE l2

(* Every course is taught once, first thing on the same day.               *)
Lessons(day) ==
  {[course |-> c, date |-> day, start |-> 0, end |-> 1,
    lecturer |-> LecturerOf(c), room |-> r1] : c \in Courses}
FirstOrSecondDay == {Lessons(1), Lessons(2)}

Everything ==
  {x \in [course : Courses, date : Days, lecturer : Lecturers, room : Rooms] :
     x.lecturer = LecturerOf(x.course)}
AlwaysAllowed == {Everything}
LastDayMayClose == {Everything, {x \in Everything : x.date # MaxDay}}

AllDays == Days \X {1, 2}

(* Bound: revisions are switched only while one course is in use, and two   *)
(* courses are in use only in one revision, with configurations saved once. *)
OneCourseOrOneRevision ==
  \/ config[c2].revision = 0 /\ catalog = Everything
  \/ /\ \A r \in Revisions : saved[r] = NoSnapshot
     /\ \A c \in Courses : config[c].revision <= 2

RevisionSymmetry == Permutations(Revisions)
=============================================================================
