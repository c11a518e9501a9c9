------------------------- MODULE TeachingPlacement --------------------------
(***************************************************************************)
(* Which arrangements of teaching a prepared problem has and what they are *)
(* worth: the model that optimize_semester builds for its solver           *)
(* (backend/app/services/semester_optimization.py), the inputs it is built *)
(* from (load_operation) and the check of a found arrangement              *)
(* (validate_exact_candidate in conflict_aware_generation.py).  There is   *)
(* no state here.                                                          *)
(*                                                                         *)
(* A problem is a record with                                              *)
(*   facts        the catalog, see ScheduleValidation, and for each course *)
(*                its cohort, total, min, max and twice its preferred units*)
(*   drafts       sessions of teaching; ref is course and date             *)
(*   exams        sessions of exams                                        *)
(*   today, unavailable (dates), selected (courses)                        *)
(***************************************************************************)
EXTENDS ScheduleValidation, FiniteSetsExt

CONSTANTS
  Unit, Break,  (* 45 and 10 minutes                                        *)
  DayEnd        (* 24:00                                                    *)

ASSUME TimesAssumption == Unit \in Nat \ {0} /\ Break \in Nat /\ DayEnd \in Nat

(* session_duration_minutes                                                *)
Duration(units) == units * Unit + (units - 1) * Break

SumOver(S, value(_)) == MapThenSumSet(value, S)
-----------------------------------------------------------------------------
(* What load_operation prepares: a course has its constraints, windows,    *)
(* lecturers and rooms, every draft its place, and the holidays could be   *)
(* read.                                                                   *)
Prepared(p) ==
  /\ IsFiniteSet(p.selected)
  /\ \A c \in p.selected :
       LET constraints == p.facts.constraints[c]
           course == p.facts.course[c]
       IN  /\ course.min \in Nat \ {0} /\ course.max \in Nat
           /\ course.total \in Nat /\ course.preferredTwice \in Int
           /\ c \in DOMAIN p.facts.constraints
           /\ constraints.from \in Int /\ constraints.until \in Int
           /\ constraints.studyType \in DOMAIN p.facts.windows
           /\ p.facts.size[c] \in Nat
           /\ IsFiniteSet(p.facts.lecturers[c]) /\ IsFiniteSet(p.facts.rooms[c])
           /\ p.facts.rooms[c] \subseteq DOMAIN p.facts.capacity
  /\ \A type \in DOMAIN p.facts.windows : \A w \in p.facts.windows[type] :
       w.from \in 0..DayEnd /\ w.until \in 0..DayEnd
  /\ \A r \in DOMAIN p.facts.capacity : p.facts.capacity[r] \in Nat
  /\ \A d \in p.drafts : d.ref = <<d.course, d.date>>
  /\ \A s \in p.drafts \cup p.exams : s.start \in Nat /\ s.end \in Nat
  /\ \A period \in p.facts.periods : period.start \in Nat /\ period.end \in Nat
  /\ p.facts.holidays # HolidaysMissing

(* load_operation                                                          *)
ActiveExams(p) == {e \in p.exams : e.date >= p.today}
Protected(p) == {d \in p.drafts : d.course \notin p.selected} \cup ActiveExams(p)
Current(p, c) == {d \in p.drafts : d.course = c}
Windows(p, c) == p.facts.windows[p.facts.constraints[c].studyType]
Planned(p, c, date) ==
  p.facts.constraints[c].from <= date /\ date <= p.facts.constraints[c].until

(* latest_teaching_end: teaching ends before the earliest active exam.     *)
BeforeExams(p, s) ==
  \A e \in ActiveExams(p) : e.course = s.course =>
    s.date < e.date \/ (s.date = e.date /\ s.end <= e.start)

UsableLecturers(p, c) == p.facts.lecturers[c] \cap p.facts.activeLecturers
UsableRooms(p, c) ==
  {r \in p.facts.rooms[c] \cap p.facts.activeRooms : p.facts.capacity[r] >= p.facts.size[c]}
-----------------------------------------------------------------------------
(* _candidate_start_times: the ends of everything a session may stand      *)
(* behind, closed under the durations.                                     *)
Durations(p, date) ==
  UNION {{Duration(units) : units \in {u \in p.facts.course[c].min..p.facts.course[c].max :
            \E w \in Windows(p, c) : w.day = Weekday(date) /\ Duration(u) <= w.until - w.from}} :
           c \in {c \in p.selected : Planned(p, c, date)}}

WindowsOn(p, date) ==
  {w \in UNION {Windows(p, c) : c \in {c \in p.selected : Planned(p, c, date)}} : w.day = Weekday(date)}

PeriodEnds(p, c, date) ==
  {period.end : period \in {q \in p.facts.periods :
     /\ q.resource \in p.facts.lecturers[c] \cup p.facts.rooms[c]
     /\ IF q.recurring THEN Weekday(date) \in q.weekdays ELSE q.last = date}}

(* Mutant of Seeds: the ends of unavailability are not start times.        *)
SeedsWithoutPeriods(p, date) ==
  {w.from : w \in WindowsOn(p, date)} \cup
  {s.end : s \in {t \in Protected(p) : t.date = date}}

Seeds(p, date) ==
  {w.from : w \in WindowsOn(p, date)} \cup
  {s.end : s \in {t \in Protected(p) : t.date = date}} \cup
  UNION {PeriodEnds(p, c, date) \cup
         UNION {{s.start, s.end} : s \in {t \in Current(p, c) : t.date = date}} :
           c \in {c \in p.selected : Planned(p, c, date)}}

StartTimes(p, date) ==
  IF Durations(p, date) = {} THEN {}
  ELSE LET latest == Max({w.until : w \in WindowsOn(p, date)}) - Min(Durations(p, date))
           later(starts) == starts \cup {t \in {s + d : s \in starts, d \in Durations(p, date)} : t <= latest}
           reached[n \in 0..latest] ==
             IF n = 0 THEN {s \in Seeds(p, date) : s \in 0..latest} ELSE later(reached[n - 1])
       IN  IF latest < 0 THEN {} ELSE reached[latest]
-----------------------------------------------------------------------------
(* generate_candidates with _candidate_resources                           *)
Occupied(p, s, field) == \E f \in Protected(p) : Meet(s, f) /\ f[field] = s[field]

Session(p, c, date, start, units, lecturer, room) ==
  [ref |-> <<c, date>>, course |-> c, cohort |-> p.facts.course[c].cohort, date |-> date,
   start |-> start, end |-> start + Duration(units), units |-> units, lecturer |-> lecturer, room |-> room]

(* Mutant of Bookable: the sessions of other courses are not looked at.    *)
BookableOver(p, s) ==
  ~ Unavailable(p.facts.periods, s.lecturer, s) /\ ~ Unavailable(p.facts.periods, s.room, s)

Bookable(p, s) ==
  /\ ~ Unavailable(p.facts.periods, s.lecturer, s) /\ ~ Unavailable(p.facts.periods, s.room, s)
  /\ \A field \in {"cohort", "lecturer", "room"} : ~ Occupied(p, s, field)

SessionsAt(p, c, date, starts) ==
  {s \in {Session(p, c, date, start, units, lecturer, room) :
            start \in starts, units \in p.facts.course[c].min..p.facts.course[c].max,
            lecturer \in UsableLecturers(p, c), room \in UsableRooms(p, c)} :
     /\ \E w \in Windows(p, c) : w.day = Weekday(date) /\ w.from <= s.start /\ s.end <= w.until
     /\ BeforeExams(p, s)
     /\ Bookable(p, s)}

TeachingDates(p, c) ==
  (p.facts.constraints[c].from..p.facts.constraints[c].until) \ (p.facts.holidays \cup p.unavailable)

Offered(p, c) == UNION {SessionsAt(p, c, date, StartTimes(p, date)) : date \in TeachingDates(p, c)}
-----------------------------------------------------------------------------
(* The constraints of optimize_semester: a course has one session a date   *)
(* and no more units than it needs, and the selected courses share no      *)
(* lecturer, room or cohort at one time (_add_selected_conflict_constraints)*)
UnitsOf(plan) == SumOver(plan, LAMBDA s : s.units)

CoursePlans(p, c, offered) ==
  LET withDate(date, plans) ==
        plans \cup {plan \in {q \cup {s} : q \in plans, s \in {t \in offered : t.date = date}} :
                      UnitsOf(plan) <= p.facts.course[c].total}
  IN  FoldSet(withDate, {{}}, {s.date : s \in offered})

(* Mutant of Disjoint: sessions of different rooms and lecturers may meet. *)
DisjointResources(a, b) ==
  \A s \in a, t \in b : Meet(s, t) => s.lecturer # t.lecturer /\ s.room # t.room

Disjoint(a, b) == \A s \in a, t \in b : Meet(s, t) => Shared(s, t) = {}

Arrangements(p, offered) ==
  LET withCourse(c, found) ==
        {pair[1] \cup pair[2] : pair \in {q \in found \X CoursePlans(p, c, offered[c]) : Disjoint(q[1], q[2])}}
  IN  FoldSet(withCourse, {{}}, p.selected)

(* What a solution of these constraints is, however it is found.           *)
Admitted(p, a, offered) ==
  /\ a \subseteq UNION {offered[c] : c \in p.selected}
  /\ \A c \in p.selected :
       LET plan == {s \in a : s.course = c}
       IN  (\A s, t \in plan : s.date = t.date => s = t) /\ UnitsOf(plan) <= p.facts.course[c].total
  /\ \A c, d \in p.selected :
       c # d => Disjoint({s \in a : s.course = c}, {s \in a : s.course = d})
-----------------------------------------------------------------------------
(* The objectives                                                          *)
PlanOf(a, c) == {s \in a : s.course = c}
SumCourses(p, value(_)) == SumOver(p.selected, value)
Week(date) == date \div 7
Abs(n) == IF n < 0 THEN -n ELSE n
Larger(m, n) == IF m > n THEN m ELSE n

(* Pairs of sessions of a course in one week.                              *)
WeeklyPairs(plan) == Cardinality({pair \in kSubset(2, plan) : \A s, t \in pair : Week(s.date) = Week(t.date)})

Deviation(p, c, units) == Abs(2 * units - p.facts.course[c].preferredTwice)
DeviationBound(p, c) ==
  LET course == p.facts.course[c]
  IN  (course.total \div course.min) * Larger(Deviation(p, c, course.min), Deviation(p, c, course.max))

ScheduleShape(p, a) ==
  SumCourses(p, LAMBDA c : WeeklyPairs(PlanOf(a, c))) * (SumCourses(p, LAMBDA c : DeviationBound(p, c)) + 1)
  + SumOver(a, LAMBDA s : Deviation(p, s.course, s.units))

(* _add_continuity: a session whose course had another lecturer or room    *)
(* in the session before.                                                  *)
Changes(plan, field) ==
  Cardinality({s \in plan :
    LET before == {t \in plan : t.date < s.date}
    IN  before # {} /\ \E t \in before : (\A u \in before : u.date <= t.date) /\ t[field] # s[field]})

(* _cohort_day_room_penalties                                              *)
ExtraRooms(p, a) ==
  LET cohorts == {p.facts.course[c].cohort : c \in p.selected}
      taught == {s \in a \cup Protected(p) : s.cohort \in cohorts}
      days == {<<s.cohort, s.date>> : s \in taught}
  IN  SumOver(days, LAMBDA d : Cardinality({s.room : s \in {t \in taught : <<t.cohort, t.date>> = d}}) - 1)

(* canonical_rank: the place of a candidate among all of its course, and   *)
(* of a lecturer or a room among the ones the candidate could have.        *)
Slot(s) == <<s.date, s.start, s.units>>
Earlier(x, y) ==
  \/ x[1] < y[1] \/ (x[1] = y[1] /\ x[2] < y[2]) \/ (x[1] = y[1] /\ x[2] = y[2] /\ x[3] < y[3])
Rank(s, offered) == 1 + Cardinality({slot \in {Slot(t) : t \in offered} : Earlier(slot, Slot(s))})
Place(s, offered, field) ==
  1 + Cardinality({t[field] : t \in {t \in offered : Slot(t) = Slot(s) /\ t[field] < s[field]}})

Worth(p, a, offered) ==
  <<UnitsOf(a), 0, ScheduleShape(p, a),
    SumCourses(p, LAMBDA c : Changes(PlanOf(a, c), "lecturer")),
    SumCourses(p, LAMBDA c : Changes(PlanOf(a, c), "room")) + ExtraRooms(p, a), 0,
    SumOver(a, LAMBDA s : Rank(s, offered[s.course])),
    SumOver(a, LAMBDA s : Place(s, offered[s.course], "lecturer") + Place(s, offered[s.course], "room"))>>
-----------------------------------------------------------------------------
(* validate_exact_candidate with _exact_sessions_valid                     *)
ExactSession(p, s, occupancy) ==
  LET course == p.facts.course[s.course]
  IN  /\ s.units \in course.min..course.max
      /\ s.date \notin p.unavailable \cup p.facts.holidays
      /\ Planned(p, s.course, s.date)
      /\ s.end - s.start = Duration(s.units)
      /\ BeforeExams(p, s)
      /\ \E w \in Windows(p, s.course) :
           w.day = Weekday(s.date) /\ w.from <= s.start /\ s.start < s.end /\ s.end <= w.until
      /\ s.lecturer \in UsableLecturers(p, s.course) /\ s.room \in UsableRooms(p, s.course)
      /\ ~ Unavailable(p.facts.periods, s.lecturer, s) /\ ~ Unavailable(p.facts.periods, s.room, s)
      /\ \A f \in occupancy \ {s} : Meet(s, f) => Shared(s, f) = {}

ValidExactCandidate(p, a) ==
  /\ \A c \in p.selected :
       /\ UnitsOf(PlanOf(a, c)) <= p.facts.course[c].total
       /\ \A s, t \in PlanOf(a, c) : s.date = t.date => s = t
  /\ \A s \in a : ExactSession(p, s, Protected(p) \cup a)

(* The drafts after the arrangement has been accepted.                     *)
Accepted(p, a) == {d \in p.drafts : d.course \notin p.selected} \cup a
=============================================================================
