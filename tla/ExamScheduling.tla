--------------------------- MODULE ExamScheduling ---------------------------
(***************************************************************************)
(* The exams of one semester: backend/app/services/exam_scheduling.py with *)
(* exam_optimization.py behind api/exam_scheduling.py, and the teaching    *)
(* sessions, revisions and catalog facts they depend on.                   *)
(*                                                                         *)
(* A handler that claims the semester first (manual creation, correction,  *)
(* deletion) is one step.  Saving a configuration takes no claim: it reads *)
(* and writes in two steps.  Generation reads its preparation, computes an *)
(* arrangement from what it reads then, and only claims to save it: three  *)
(* steps.  An exam is active until its date is past, so exams change their *)
(* standing without a write, when the day changes.                         *)
(*                                                                         *)
(* Times count slots of a day.  What eligibility, room capacity, holidays  *)
(* and unavailability allow is one relation, `catalog'.                    *)
(***************************************************************************)
EXTENDS Naturals, FiniteSets

CONSTANTS
  Courses, Lecturers, Rooms,
  CohortOf,      (* the cohort of a course                                  *)
  Plans,         (* sets of teaching sessions the semester can hold         *)
  Catalogs,      (* sets of [course, date, lecturer, room] that are allowed *)
  Proposals,     (* <<date, start>> of the active study type windows        *)
  Durations,
  Planners,      (* browser tabs of planners, one request in flight each    *)
  Revisions,
  NoSnapshot,    (* the revision was never worked on                        *)
  RecommendFrom, RecommendUntil,  (* days after the final teaching date     *)
  MaxDay,        (* the semester has the days 1..MaxDay                     *)
  DayLength,     (* slots of a day                                          *)
  MaxRevision    (* bound: revision of a configuration                      *)

ASSUME BoundsAssumption == MaxDay \in Nat \ {0} /\ DayLength \in Nat /\ MaxRevision \in Nat
ASSUME DurationAssumption == Durations \subseteq Nat \ {0} /\ Durations # {}
ASSUME LecturersAssumption == Lecturers # {}

VARIABLES
  today,     (* institution_today()                                         *)
  working,   (* the working revision                                        *)
  saved,     (* [Revisions -> snapshot of an abandoned revision]            *)
  teaching,  (* live rows of draft_sessions                                 *)
  exams,     (* live rows of exam_sessions                                  *)
  config,    (* course_exam_configurations: [Courses -> Configuration]      *)
  catalog,   (* the placements the catalogs allow                           *)
  request,   (* [Planners -> request between two database accesses]         *)
  torn       (* history: a saved arrangement was computed from inputs that  *)
             (* changed after the preparation and changed back before the   *)
             (* claim                                                       *)

vars == <<today, working, saved, teaching, exams, config, catalog, request, torn>>

Days == 1..MaxDay
Times == 0..DayLength

Session == [course : Courses, date : Days, start : Times, end : Times,
            lecturer : Lecturers, room : Rooms]

(* ck_exam_session_interval: an exam ends after it starts.                 *)
Exam == {e \in [course : Courses, date : Days, start : Times, end : Times,
                lecturer : Lecturers, room : Rooms, source : {"generated", "manual"}]
           : e.start < e.end}
Configuration == [enabled : BOOLEAN, consumed : BOOLEAN, duration : Durations,
                  lecturer : Lecturers, revision : 0..MaxRevision]
Placement == [course : Courses, date : Days, lecturer : Lecturers, room : Rooms]
Snapshot == [teaching : SUBSET Session, exams : SUBSET Exam]
Inputs == [teaching : SUBSET Session, exams : SUBSET Exam,
           config : [Courses -> Configuration],
           catalog : SUBSET Placement]

ASSUME DataAssumption ==
  /\ Plans \subseteq SUBSET Session
  /\ Catalogs \subseteq SUBSET Placement
  /\ Proposals \subseteq Days \X Times

Idle == [kind |-> "idle"]
SaveRequest == [kind : {"save"}, course : Courses, values : Configuration]
GenerateRequest ==
  [kind : {"prepared", "arranged"}, revision : Revisions, day : Days,
   courses : SUBSET Courses, token : Inputs, selected : SUBSET Exam, changed : BOOLEAN]
-----------------------------------------------------------------------------
(* The preparation tokens digest all of this; revisions of configurations  *)
(* make their changes unrepeatable, rows of sessions are compared by value.*)
CurrentInputs ==
  [teaching |-> teaching, exams |-> exams, config |-> config, catalog |-> catalog]

ActiveOn(rows, c, day) == {e \in rows : e.course = c /\ e.date >= day}
Active(c) == ActiveOn(exams, c, today)

Overlap(x, y) == x.date = y.date /\ x.start < y.end /\ y.start < x.end
Share(x, y) ==
  \/ x.lecturer = y.lecturer
  \/ x.room = y.room
  \/ CohortOf[x.course] = CohortOf[y.course]
Collide(x, y) == Share(x, y) /\ Overlap(x, y)

TeachingOf(c) == {s \in teaching : s.course = c}

(* The final teaching session is the last by date and end.                 *)
AfterTeaching(x) ==
  \A s \in TeachingOf(x.course) :
    x.date > s.date \/ (x.date = s.date /\ x.start >= s.end)

(* Mutant of EndsSameDay: an exam may end at midnight. *)
EndsByMidnight(x) == x.end <= DayLength

(* datetime arithmetic gives midnight the date of the next day.            *)
EndsSameDay(x) == x.end < DayLength

Allowed(x) ==
  [course |-> x.course, date |-> x.date, lecturer |-> x.lecturer, room |-> x.room]
    \in catalog

(* _placement_errors finds nothing against these rows.                     *)
Fits(x, rows) ==
  /\ EndsSameDay(x)
  /\ AfterTeaching(x)
  /\ Allowed(x)
  /\ \A y \in teaching \cup rows : ~ Collide(x, y)

ExamRow(c, d, start, duration, l, r, source) ==
  [course |-> c, date |-> d, start |-> start, end |-> start + duration,
   lecturer |-> l, room |-> r, source |-> source]

NoConfiguration ==
  [enabled |-> FALSE, consumed |-> FALSE, duration |-> CHOOSE n \in Durations : TRUE,
   lecturer |-> CHOOSE l \in Lecturers : TRUE, revision |-> 0]

Init ==
  /\ today = 1
  /\ working \in Revisions
  /\ saved = [r \in Revisions |-> NoSnapshot]
  /\ teaching \in Plans
  /\ exams = {}
  /\ config = [c \in Courses |-> NoConfiguration]
  /\ catalog \in Catalogs
  /\ request = [p \in Planners |-> Idle]
  /\ torn = FALSE

Answer(p) == request' = [request EXCEPT ![p] = Idle]
Hold(p, pending) == request' = [request EXCEPT ![p] = pending]
-----------------------------------------------------------------------------
(* The surroundings: the day, teaching, the catalogs, the lifecycle.       *)
NextDay ==
  /\ today < MaxDay
  /\ today' = today + 1
  /\ UNCHANGED <<working, saved, teaching, exams, config, catalog, request, torn>>

EditTeaching ==
  /\ teaching' \in Plans
  /\ teaching' # teaching
  /\ UNCHANGED <<today, working, saved, exams, config, catalog, request, torn>>

ChangeCatalog ==
  /\ catalog' \in Catalogs
  /\ catalog' # catalog
  /\ UNCHANGED <<today, working, saved, teaching, exams, config, request, torn>>

(* The working revision is abandoned and another one created over the live *)
(* rows or restored from its snapshot (_materialize_snapshot).  Exam       *)
(* configurations belong to the semester and stay.                         *)
SwitchRevision(r) ==
  /\ r # working
  /\ working' = r
  /\ saved' = [saved EXCEPT ![working] = [teaching |-> teaching, exams |-> exams],
                            ![r] = NoSnapshot]
  /\ IF saved[r] = NoSnapshot
     THEN UNCHANGED <<teaching, exams>>
     ELSE teaching' = saved[r].teaching /\ exams' = saved[r].exams
  /\ UNCHANGED <<today, config, catalog, request, torn>>
-----------------------------------------------------------------------------
(* save_exam_configuration: no claim between the check and the write.      *)
SaveRead(p, c, values) ==
  /\ request[p].kind = "idle"
  /\ Active(c) = {}
  /\ config[c].revision < MaxRevision
  /\ values.revision = config[c].revision + 1
  /\ ~ values.consumed
  /\ IF values.enabled
     THEN \E x \in catalog : x.course = c /\ x.lecturer = values.lecturer
     ELSE values.duration = config[c].duration /\ values.lecturer = config[c].lecturer
  /\ Hold(p, [kind |-> "save", course |-> c, values |-> values])
  /\ UNCHANGED <<today, working, saved, teaching, exams, config, catalog, torn>>

(* The UPDATE names the revision that was read (version_id_col).           *)
SaveWrite(p) ==
  /\ request[p].kind = "save"
  /\ config[request[p].course].revision + 1 = request[p].values.revision
  /\ config' = [config EXCEPT ![request[p].course] = request[p].values]
  /\ Answer(p)
  /\ UNCHANGED <<today, working, saved, teaching, exams, catalog, torn>>

SaveRefused(p) ==
  /\ request[p].kind = "save"
  /\ config[request[p].course].revision + 1 # request[p].values.revision
  /\ Answer(p)
  /\ UNCHANGED <<today, working, saved, teaching, exams, config, catalog, torn>>
-----------------------------------------------------------------------------
(* Mutant of Eligible: a consumed configuration generates again. *)
EligibleThoughConsumed(inputs, day, c) ==
  /\ inputs.config[c].enabled
  /\ ActiveOn(inputs.exams, c, day) = {}
  /\ {s \in inputs.teaching : s.course = c} # {}

Eligible(inputs, day, c) ==
  /\ inputs.config[c].enabled
  /\ ActiveOn(inputs.exams, c, day) = {}
  /\ {s \in inputs.teaching : s.course = c} # {}
  /\ ~ inputs.config[c].consumed

(* build_candidates and the availability filter behind it: every proposal  *)
(* of every semester day from the final teaching session on.               *)
Candidates(c) ==
  {x \in {ExamRow(c, w[1], w[2], config[c].duration, config[c].lecturer, r, "generated")
            : w \in Proposals, r \in Rooms} : Fits(x, exams)}

(* Mutant of Compatible: proposed exams are placed one by one. *)
CompatibleWithSaved(sel) == \A x, y \in sel : x # y => x.course # y.course

Compatible(sel) ==
  \A x, y \in sel : x # y => x.course # y.course /\ ~ Collide(x, y)

Arrangements(cs) ==
  LET choices == [cs -> (UNION {Candidates(c) : c \in cs}) \cup {Idle}]
      rightly == {f \in choices : \A c \in cs : f[c] = Idle \/ f[c] \in Candidates(c)}
  IN  {sel \in {{f[c] : c \in cs} \ {Idle} : f \in rightly} : Compatible(sel)}

FinalDate(c) ==
  CHOOSE d \in {s.date : s \in TeachingOf(c)} : \A s \in TeachingOf(c) : s.date <= d
Recommended(x) ==
  /\ x.date >= FinalDate(x.course) + RecommendFrom
  /\ x.date <= FinalDate(x.course) + RecommendUntil

(* The objective of the solver without its last term, which only orders    *)
(* arrangements that are otherwise equally good.                           *)
Better(s, t) ==
  LET inside(sel) == Cardinality({x \in sel : Recommended(x)})
  IN  \/ Cardinality(s) > Cardinality(t)
      \/ Cardinality(s) = Cardinality(t) /\ inside(s) > inside(t)

GeneratePrepared(p, cs) ==
  /\ request[p].kind = "idle"
  /\ cs # {}
  /\ Hold(p, [kind |-> "prepared", revision |-> working, day |-> today, courses |-> cs,
              token |-> CurrentInputs, selected |-> {}, changed |-> FALSE])
  /\ UNCHANGED <<today, working, saved, teaching, exams, config, catalog, torn>>

(* The arrangement is computed from rows read again, without a claim.      *)
GenerateArrange(p) ==
  LET q == request[p]
      cs == {c \in q.courses : Eligible(q.token, q.day, c)}
  IN  /\ q.kind = "prepared"
      /\ \A c \in cs : TeachingOf(c) # {}
      /\ \E sel \in Arrangements(cs) :
           /\ sel # {}
           /\ ~ \E t \in Arrangements(cs) : Better(t, sel)
           /\ Hold(p, [q EXCEPT !.kind = "arranged", !.selected = sel,
                                !.changed = CurrentInputs # q.token])
      /\ UNCHANGED <<today, working, saved, teaching, exams, config, catalog, torn>>

(* No course can be placed, the anchor of one is gone, or no arrangement   *)
(* is proven optimal in time: the request ends without a claim.            *)
GenerateNothing(p) ==
  /\ request[p].kind = "prepared"
  /\ Answer(p)
  /\ UNCHANGED <<today, working, saved, teaching, exams, config, catalog, torn>>

(* Mutant of StillCurrent: only the working revision is compared. *)
StillWorking(q) == working = q.revision

(* claim_active_working_revision and the second comparison of the tokens.  *)
StillCurrent(q) == working = q.revision /\ CurrentInputs = q.token

Consumed(cs) ==
  [c \in Courses |->
     IF c \in cs
     THEN [config[c] EXCEPT !.consumed = TRUE, !.revision = @ + 1]
     ELSE config[c]]

GenerateSave(p) ==
  LET q == request[p]
      cs == {x.course : x \in q.selected}
  IN  /\ q.kind = "arranged"
      /\ StillCurrent(q)
      /\ \A c \in cs : config[c].revision < MaxRevision
      /\ exams' = exams \cup q.selected
      /\ config' = Consumed(cs)
      /\ torn' = (torn \/ q.changed)
      /\ Answer(p)
      /\ UNCHANGED <<today, working, saved, teaching, catalog>>

GenerateStale(p) ==
  /\ request[p].kind = "arranged"
  /\ ~ StillCurrent(request[p])
  /\ Answer(p)
  /\ UNCHANGED <<today, working, saved, teaching, exams, config, catalog, torn>>
-----------------------------------------------------------------------------
(* create_manual_exam                                                      *)
CreateManual(c, d, start, l, r) ==
  LET x == ExamRow(c, d, start, config[c].duration, l, r, "manual")
  IN  /\ config[c].enabled
      /\ config[c].revision < MaxRevision
      /\ Active(c) = {}
      /\ TeachingOf(c) # {}
      /\ Fits(x, exams)
      /\ exams' = exams \cup {x}
      /\ config' = Consumed({c})
      /\ UNCHANGED <<today, working, saved, teaching, catalog, request, torn>>

(* Mutant of SlotFree: a past exam may be moved beside an active one. *)
SlotFreeUnlessPast(e, x) == e.date < today \/ Active(x.course) \ {e} = {}

(* An exam may become active only if no other one of its course is.        *)
SlotFree(e, x) == x.date < today \/ Active(x.course) \ {e} = {}

(* update_exam: an exam keeps its duration, whatever the configuration     *)
(* says by now.                                                            *)
Correct(e, d, start, l, r) ==
  LET x == ExamRow(e.course, d, start, e.end - e.start, l, r, e.source)
  IN  /\ TeachingOf(e.course) # {}
      /\ Fits(x, exams \ {e})
      /\ SlotFree(e, x)
      /\ exams' = (exams \ {e}) \cup {x}
      /\ UNCHANGED <<today, working, saved, teaching, config, catalog, request, torn>>

(* delete_exam: an active exam gives its configuration back.               *)
Delete(e) ==
  /\ exams' = exams \ {e}
  /\ IF e.date >= today
     THEN /\ config[e.course].revision < MaxRevision
          /\ config' = [config EXCEPT ![e.course].consumed = FALSE,
                                      ![e.course].revision = @ + 1]
     ELSE UNCHANGED config
  /\ UNCHANGED <<today, working, saved, teaching, catalog, request, torn>>
-----------------------------------------------------------------------------
Surroundings ==
  \/ NextDay \/ EditTeaching \/ ChangeCatalog
  \/ \E r \in Revisions : SwitchRevision(r)

Manual ==
  \E d \in Days, start \in Times, l \in Lecturers, r \in Rooms :
    \/ \E c \in Courses : CreateManual(c, d, start, l, r)
    \/ \E e \in exams : Correct(e, d, start, l, r)

Next ==
  \/ Surroundings
  \/ Manual
  \/ \E e \in exams : Delete(e)
  \/ \E p \in Planners :
       \/ \E c \in Courses, values \in Configuration : SaveRead(p, c, values)
       \/ SaveWrite(p) \/ SaveRefused(p)
       \/ \E cs \in SUBSET Courses : GeneratePrepared(p, cs)
       \/ GenerateArrange(p) \/ GenerateNothing(p)
       \/ GenerateSave(p) \/ GenerateStale(p)

Spec == Init /\ [][Next]_vars
-----------------------------------------------------------------------------
(* The tables and the requests in flight hold what they should.            *)
TypeOK ==
  /\ today \in Days
  /\ working \in Revisions
  /\ saved \in [Revisions -> Snapshot \cup {NoSnapshot}]
  /\ CurrentInputs \in Inputs
  /\ request \in [Planners -> {Idle} \cup SaveRequest \cup GenerateRequest]
  /\ torn \in BOOLEAN

(* A course has at most one exam of today or later (012 FR-005), whatever  *)
(* is generated, placed, moved back from the past or restored.             *)
OneActiveExam == \A c \in Courses : \A e, f \in Active(c) : e = f

(* Two exams never claim the same lecturer, room or cohort at the same     *)
(* time (012 FR-015, FR-018), although arrangements are computed without a *)
(* claim.  An arrangement computed from inputs that changed and changed    *)
(* back unnoticed is left out.                                             *)
ExamsNeverCollide == torn \/ \A e, f \in exams : e # f => ~ Collide(e, f)

(* Every exam that is placed or moved ends on its day, starts after the    *)
(* final teaching of its course and keeps clear of all teaching as it is   *)
(* in that moment (012 FR-009, FR-015).  Restoring a revision brings rows  *)
(* back with the teaching they were saved with.                            *)
PlacedExamsFit ==
  [][working' = working =>
       \A e \in exams' \ exams :
         torn' \/ /\ e.start < e.end /\ e.end < DayLength
                  /\ AfterTeaching(e)
                  /\ \A s \in teaching : ~ Collide(e, s)]_vars

(* A configuration generates at most once: a generated exam appears only   *)
(* for an enabled course with a fresh configuration and no active exam,    *)
(* and uses the configuration up (012 FR-011, FR-020).                     *)
GeneratedFromFresh ==
  [][working' = working /\ exams \subseteq exams' =>
       \A e \in exams' \ exams :
         e.source = "generated" =>
           /\ config[e.course].enabled /\ ~ config[e.course].consumed
           /\ config'[e.course].consumed
           /\ Active(e.course) = {}]_vars
=============================================================================
