---------------------------- MODULE SavedSemester ---------------------------
(***************************************************************************)
(* A semester after its search: an arrangement has been accepted, sessions *)
(* are edited by hand and the catalog changes.  Four views tell planners   *)
(* what is wrong with it, each from inputs it loads on its own: the        *)
(* schedule page, the publication dialog, the calendar of the working      *)
(* revision and, once published, the calendar of the publication.          *)
(***************************************************************************)
EXTENDS SemesterPlanning, CalendarWorkspace

CONSTANTS
  NotSaved,
  Entries,            (* of the edit form: date, start, end, lecturer, room  *)
                      (* and units; lecturer and units may be None           *)
  CatalogChanges(_)   (* what a change of the catalog may make of the facts  *)

(* What the forms and the tables admit (UpdateDraftSessionRequest).        *)
ASSUME EntriesAssumption ==
  \A entry \in Entries : /\ entry.start \in Nat /\ entry.end \in Nat
                         /\ entry.units \in Int \cup {None}

(* The facts of a semester: each of its courses has a period and a study   *)
(* type, which are those of the semester and of the course until a planner *)
(* sets others, and the holidays can be read.                              *)
Catalog(facts) ==
  /\ DOMAIN facts = {"course", "size", "capacity", "lecturers", "rooms", "activeLecturers",
                     "activeRooms", "periods", "holidays", "constraints", "windows"}
  /\ DOMAIN facts.course \subseteq DOMAIN facts.constraints
  /\ \A type \in DOMAIN facts.windows :
       facts.windows[type] \subseteq [day : 0..6, from : 0..DayEnd, until : 0..DayEnd]
  /\ facts.holidays # HolidaysMissing

(* Rows have ids of their own, and a room or a course is not deleted while *)
(* sessions or exams refer to it.                                          *)
ASSUME SavedAssumption ==
  \A n \in Problems :
    LET p == Input(n)
    IN  /\ IsFiniteSet(p.drafts)
        /\ p.selected \subseteq DOMAIN p.facts.course
        /\ \A d \in p.drafts : /\ d.course \in DOMAIN p.facts.course
                              /\ d.start \in Nat /\ d.end \in Nat /\ d.units \in Nat
                              /\ \A other \in p.drafts : other.ref = d.ref => other = d
        /\ \A e \in p.exams : /\ e.start \in Nat /\ e.end \in Nat
                             /\ \A other \in p.exams : other.ref = e.ref => other = e
        /\ \A a \in Space(n) : IsFiniteSet(Arrangement(n, a))
        /\ \A facts \in CatalogChanges(p.facts) \cup {p.facts} :
             /\ Catalog(facts)
             /\ DOMAIN facts.course = DOMAIN p.facts.course
             /\ \A e \in p.exams : e.room \in DOMAIN facts.capacity

VARIABLE semester

SavedInit == Init /\ semester = NotSaved

(* apply_operation.  Bound: the offer of a completed search.         *)
Accept ==
  /\ semester = NotSaved
  /\ outcome = "result" /\ stage = 9
  /\ LET p == Input(problem)
     IN  semester' = [teaching |-> Accepted(p, Arrangement(problem, offer.arrangement)),
                  exams |-> p.exams, facts |-> p.facts,
                  studyType |-> [c \in DOMAIN p.facts.course |-> p.facts.constraints[c].studyType],
                  edited |-> FALSE, changed |-> FALSE]

(* update_draft_session: only a lecturer or a room that is new to the      *)
(* session has to be suitable.                                             *)
SuitableLecturer(t, facts) ==
  /\ t.lecturer \in facts.lecturers[t.course] \cap facts.activeLecturers
  /\ ~ Unavailable(facts.periods, t.lecturer, t)

SuitableRoom(t, facts) ==
  /\ t.room \in facts.rooms[t.course] \cap facts.activeRooms
  /\ facts.capacity[t.room] >= facts.size[t.course]
  /\ ~ Unavailable(facts.periods, t.room, t)

Kept(value, old) == IF value = None THEN old ELSE value

Edited(s, entry) ==
  [ref |-> s.ref, course |-> s.course, cohort |-> s.cohort,
   date |-> entry.date, start |-> entry.start, end |-> entry.end,
   units |-> Kept(entry.units, s.units), lecturer |-> Kept(entry.lecturer, s.lecturer),
   room |-> entry.room]

(* Bound: one edit.                                                        *)
EditSession(s, entry) ==
  LET t == Edited(s, entry)
  IN  /\ ~ semester.edited
      /\ entry.units # None => entry.units >= 1
      /\ t.start < t.end
      /\ \A other \in TeachingOf(semester, s.course) \ {s} : other.date # t.date
      /\ t.lecturer # s.lecturer => SuitableLecturer(t, semester.facts)
      /\ t.room # s.room => SuitableRoom(t, semester.facts)
      /\ semester' = [semester EXCEPT !.teaching = (@ \ {s}) \cup {t}, !.edited = TRUE]

(* Bound: one change.                                                      *)
ChangeCatalog(facts) ==
  /\ ~ semester.changed
  /\ semester' = [semester EXCEPT !.facts = facts, !.changed = TRUE]

SavedStep ==
  \/ Accept
  \/ /\ semester # NotSaved
     /\ \/ \E s \in semester.teaching : \E entry \in Entries : EditSession(s, entry)
        \/ \E facts \in CatalogChanges(semester.facts) : ChangeCatalog(facts)

SavedNext ==
  \/ Next /\ UNCHANGED semester
  \/ SavedStep /\ UNCHANGED vars

SavedSpec == SavedInit /\ [][SavedNext]_<<vars, semester>>
-----------------------------------------------------------------------------
(* What is said of a session, with the sessions it is said to meet.        *)
Told(alerts, s) ==
  {<<a.code>> : a \in {b \in alerts[s] : b.related = {}}} \cup
  UNION {{<<a.code, ref>> : ref \in a.related} : a \in alerts[s]}

Shown(findings, s) ==
  LET own == <<"teaching", s.ref>>
  IN  {<<f.issue>> : f \in {f \in findings : f.sessions = {own}}} \cup
      UNION {{<<f.issue, t.ref>> : f \in {f \in findings : f.sessions = {own, <<"teaching", t.ref>>}}} :
               t \in semester.teaching \ {s}}

CohortsKept == \A s \in semester.teaching : semester.facts.course[s.course].cohort = s.cohort
StudyTypesKept == \A s \in semester.teaching : TypeNow(semester, s.course) = semester.studyType[s.course]
WholeMinutes ==
  /\ \A s \in semester.teaching \cup semester.exams : s.start % Minute = 0 /\ s.end % Minute = 0
  /\ \A type \in DOMAIN semester.facts.windows : \A w \in semester.facts.windows[type] :
       w.from % Minute = 0 /\ w.until % Minute = 0

CalendarOnly == {"OUTSIDE_RECOMMENDED_WINDOW"}
DialogOnly == {"FINAL_TEACHING_SESSION_MISSING", "BEFORE_FINAL_TEACHING"}

(* However a planned semester is edited and its catalog changes, the views *)
(* agree on what is wrong with it (014 FR-038, "another current actionable *)
(* validation condition established by an earlier slice"): the calendar    *)
(* shows of each teaching session what the dialog tells, and so does the   *)
(* page as long as study types stay; of an exam it shows what the dialog   *)
(* would capture, but for the order of exam and teaching; publishing       *)
(* changes nothing but that order; and a course with a condition in the    *)
(* dialog needs review in the calendar.  Left out are courses that moved   *)
(* to another cohort under their draft and times with seconds.             *)
ViewsAgree ==
  semester # NotSaved /\ CohortsKept /\ WholeMinutes =>
    LET working == WorkingContent(semester)
        findings == Findings(working, semester.facts)
        frozen == Findings(PublishedContent(Captured(semester)), semester.facts)
        examShown(e) == {f.issue : f \in {f \in findings : <<"exam", e.ref>> \in f.sessions}} \ CalendarOnly
        examTold(e) == {Rederived[issue] : issue \in ExamIssues(semester, e) \ DialogOnly}
        total == [c \in Courses(semester) |-> semester.facts.course[c].total]
    IN  /\ \A s \in semester.teaching : Shown(findings, s) = Told(DialogAlerts(semester), s)
        /\ StudyTypesKept => \A s \in semester.teaching : Told(PageAlerts(semester), s) = Shown(findings, s)
        /\ \A e \in semester.exams : TeachingOf(semester, e.course) # {} => examShown(e) = examTold(e)
        /\ {f \in frozen : f.issue \notin DialogOnly} = findings
        /\ \A c \in Courses(semester) :
             (\A e \in semester.exams : e.course = c => ExamIssues(semester, e) \cap DialogOnly = {})
             /\ Conditions(semester, c) # {} => c \in NeedsReview(total, working, findings, {})
=============================================================================
