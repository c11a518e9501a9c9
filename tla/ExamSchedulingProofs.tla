------------------------ MODULE ExamSchedulingProofs ------------------------
(***************************************************************************)
(* Theorems about ExamScheduling, for any courses, teaching, catalogs and  *)
(* planners, any length of the semester and of its days.                   *)
(***************************************************************************)
EXTENDS ExamScheduling, TLAPS

(* Facts about the helpers. *)

LEMMA CollideSymmetric ==
  ASSUME NEW x, NEW y, Collide(x, y)
  PROVE  Collide(y, x)
BY DEF Collide, Share, Overlap

LEMMA ExamRowType ==
  ASSUME NEW c \in Courses, NEW d \in Days, NEW start \in Times, NEW n \in Nat \ {0},
         NEW l \in Lecturers, NEW r \in Rooms, NEW source \in {"generated", "manual"},
         EndsSameDay(ExamRow(c, d, start, n, l, r, source))
  PROVE  /\ ExamRow(c, d, start, n, l, r, source) \in Exam
         /\ ExamRow(c, d, start, n, l, r, source).course = c
         /\ ExamRow(c, d, start, n, l, r, source).date = d
         /\ ExamRow(c, d, start, n, l, r, source).source = source
BY BoundsAssumption DEF ExamRow, Exam, EndsSameDay, Times, Days

LEMMA ConfigurationDuration ==
  ASSUME config \in [Courses -> Configuration], NEW c \in Courses
  PROVE  /\ config[c].duration \in Nat \ {0}
         /\ config[c].lecturer \in Lecturers
         /\ config[c].revision \in 0..MaxRevision
BY DurationAssumption DEF Configuration

LEMMA CandidateFacts ==
  ASSUME config \in [Courses -> Configuration], NEW c \in Courses, NEW x \in Candidates(c)
  PROVE  /\ x \in Exam
         /\ x.course = c
         /\ x.source = "generated"
         /\ Fits(x, exams)
<1>1. PICK w \in Proposals, r \in Rooms :
        x = ExamRow(c, w[1], w[2], config[c].duration, config[c].lecturer, r, "generated")
  BY DEF Candidates
<1>2. w[1] \in Days /\ w[2] \in Times
  BY DataAssumption
<1>3. Fits(x, exams)
  BY DEF Candidates
<1>4. EndsSameDay(ExamRow(c, w[1], w[2], config[c].duration, config[c].lecturer, r, "generated"))
  BY <1>1, <1>3 DEF Fits
<1> QED
  BY <1>1, <1>2, <1>3, <1>4, ConfigurationDuration, ExamRowType

LEMMA ArrangementFacts ==
  ASSUME NEW cs \in SUBSET Courses, NEW sel \in Arrangements(cs)
  PROVE  /\ \A x \in sel : \E c \in cs : x \in Candidates(c)
         /\ Compatible(sel)
<1>1. PICK f \in [cs -> (UNION {Candidates(c) : c \in cs}) \cup {Idle}] :
        /\ \A c \in cs : f[c] = Idle \/ f[c] \in Candidates(c)
        /\ sel = {f[c] : c \in cs} \ {Idle}
  BY DEF Arrangements
<1>2. Compatible(sel)
  BY DEF Arrangements
<1> QED
  BY <1>1, <1>2

LEMMA ConsumedType ==
  ASSUME config \in [Courses -> Configuration], NEW cs \in SUBSET Courses,
         \A c \in cs : config[c].revision < MaxRevision
  PROVE  /\ Consumed(cs) \in [Courses -> Configuration]
         /\ \A c \in cs : Consumed(cs)[c].consumed
<1>1. ASSUME NEW c \in Courses
      PROVE  /\ Consumed(cs)[c] \in Configuration
             /\ c \in cs => Consumed(cs)[c].consumed
  <2>1. CASE c \in cs
    <3>1. Consumed(cs)[c] =
            [config[c] EXCEPT !.consumed = TRUE, !.revision = config[c].revision + 1]
      BY <2>1 DEF Consumed
    <3>2. config[c].revision + 1 \in 0..MaxRevision
      BY <2>1, BoundsAssumption, ConfigurationDuration
    <3> QED
      BY <3>1, <3>2 DEF Configuration
  <2>2. CASE c \notin cs
    BY <2>2 DEF Consumed
  <2> QED
    BY <2>1, <2>2
<1> QED
  BY <1>1 DEF Consumed

(***************************************************************************)
(* Type correctness.                                                       *)
(***************************************************************************)
RowsOK ==
  /\ teaching \in SUBSET Session
  /\ exams \in SUBSET Exam
  /\ config \in [Courses -> Configuration]
  /\ catalog \in SUBSET Placement

LEMMA InputsType == RowsOK <=> CurrentInputs \in Inputs
<1>1. RowsOK => CurrentInputs \in Inputs
  BY DEF RowsOK, CurrentInputs, Inputs
<1>2. ASSUME CurrentInputs \in Inputs PROVE RowsOK
  <2>1. /\ CurrentInputs.teaching = teaching /\ CurrentInputs.exams = exams
        /\ CurrentInputs.config = config /\ CurrentInputs.catalog = catalog
    BY DEF CurrentInputs
  <2>2. /\ CurrentInputs.teaching \in SUBSET Session /\ CurrentInputs.exams \in SUBSET Exam
        /\ CurrentInputs.config \in [Courses -> Configuration]
        /\ CurrentInputs.catalog \in SUBSET Placement
    BY <1>2 DEF Inputs
  <2> QED
    BY <2>1, <2>2 DEF RowsOK
<1> QED
  BY <1>1, <1>2

LEMMA InputsTypeNext == RowsOK' <=> (CurrentInputs \in Inputs)'
BY InputsType, PTL

SemesterOK ==
  /\ today \in Days
  /\ working \in Revisions
  /\ saved \in [Revisions -> Snapshot \cup {NoSnapshot}]
  /\ torn \in BOOLEAN

RequestsOK == request \in [Planners -> {Idle} \cup SaveRequest \cup GenerateRequest]

LEMMA TypeParts == TypeOK <=> RowsOK /\ SemesterOK /\ RequestsOK
BY InputsType DEF TypeOK, SemesterOK, RequestsOK

LEMMA TypePartsNext == TypeOK' <=> RowsOK' /\ SemesterOK' /\ RequestsOK'
BY TypeParts, PTL

LEMMA PendingGeneration ==
  ASSUME RequestsOK, NEW p \in Planners, request[p].kind \in {"prepared", "arranged"}
  PROVE  request[p] \in GenerateRequest
BY DEF RequestsOK, Idle, SaveRequest, GenerateRequest

LEMMA PendingSave ==
  ASSUME RequestsOK, NEW p \in Planners, request[p].kind = "save"
  PROVE  request[p] \in SaveRequest
BY DEF RequestsOK, Idle, SaveRequest, GenerateRequest

LEMMA AnswerType ==
  ASSUME RequestsOK, NEW p \in Planners, Answer(p)
  PROVE  RequestsOK'
BY DEF RequestsOK, Answer

LEMMA HoldType ==
  ASSUME RequestsOK, NEW p \in Planners,
         NEW pending \in SaveRequest \cup GenerateRequest, Hold(p, pending)
  PROVE  RequestsOK'
BY DEF RequestsOK, Hold

LEMMA ArrangeType ==
  ASSUME RowsOK, RequestsOK, NEW p \in Planners, GenerateArrange(p)
  PROVE  RequestsOK'
<1> DEFINE q == request[p]
           cs == {c \in q.courses : Eligible(q.token, q.day, c)}
<1>1. PICK sel \in Arrangements(cs) :
        Hold(p, [q EXCEPT !.kind = "arranged", !.selected = sel,
                          !.changed = CurrentInputs # q.token])
  BY DEF GenerateArrange
<1>2. q \in GenerateRequest
  BY PendingGeneration DEF GenerateArrange
<1>3. cs \in SUBSET Courses
  BY <1>2 DEF GenerateRequest
<1>4. sel \in SUBSET Exam
  BY <1>3, ArrangementFacts, CandidateFacts DEF RowsOK
<1>5. [q EXCEPT !.kind = "arranged", !.selected = sel, !.changed = CurrentInputs # q.token]
        \in GenerateRequest
  BY <1>2, <1>4 DEF GenerateRequest
<1> QED
  BY <1>1, <1>5, HoldType

LEMMA CorrectType ==
  ASSUME exams \in SUBSET Exam, NEW e \in exams, NEW d \in Days, NEW start \in Times,
         NEW l \in Lecturers, NEW r \in Rooms, Correct(e, d, start, l, r)
  PROVE  LET x == ExamRow(e.course, d, start, e.end - e.start, l, r, e.source)
         IN  x \in Exam /\ x.course = e.course /\ x.date = d /\ x.source = e.source
<1>1. /\ e.end - e.start \in Nat \ {0}
      /\ e.course \in Courses /\ e.source \in {"generated", "manual"}
  BY BoundsAssumption DEF Exam, Times
<1>2. EndsSameDay(ExamRow(e.course, d, start, e.end - e.start, l, r, e.source))
  BY DEF Correct, Fits
<1> HIDE DEF Exam
<1> QED
  BY <1>1, <1>2, ExamRowType

LEMMA TypeStep ==
  ASSUME TypeOK, [Next]_vars
  PROVE  TypeOK'
<1> USE DEF RowsOK, SemesterOK
<1>0. RowsOK /\ SemesterOK /\ RequestsOK
  BY TypeParts
<1> SUFFICES RowsOK' /\ SemesterOK' /\ RequestsOK'
  BY TypePartsNext
<1>1. CASE NextDay
  BY <1>0, <1>1, BoundsAssumption DEF NextDay, Days, RequestsOK
<1>2. CASE EditTeaching
  BY <1>0, <1>2, DataAssumption DEF EditTeaching, RequestsOK
<1>3. CASE ChangeCatalog
  BY <1>0, <1>3, DataAssumption DEF ChangeCatalog, RequestsOK
<1>4. ASSUME NEW r \in Revisions, SwitchRevision(r)
      PROVE  RowsOK' /\ SemesterOK' /\ RequestsOK'
  <2>1. [teaching |-> teaching, exams |-> exams] \in Snapshot
    BY <1>0 DEF Snapshot
  <2>2. SemesterOK'
    BY <1>0, <1>4, <2>1 DEF SwitchRevision
  <2>3. RowsOK'
    <3>1. CASE saved[r] = NoSnapshot
      BY <1>0, <1>4, <3>1 DEF SwitchRevision
    <3>2. CASE saved[r] # NoSnapshot
      <4>1. saved[r] \in Snapshot
        BY <1>0, <3>2
      <4> QED
        BY <1>0, <1>4, <3>2, <4>1 DEF SwitchRevision, Snapshot
    <3> QED
      BY <3>1, <3>2
  <2> QED
    BY <1>0, <1>4, <2>2, <2>3 DEF SwitchRevision, RequestsOK
<1>5. ASSUME NEW p \in Planners, NEW c \in Courses, NEW values \in Configuration,
             SaveRead(p, c, values)
      PROVE  RowsOK' /\ SemesterOK' /\ RequestsOK'
  <2>1. [kind |-> "save", course |-> c, values |-> values] \in SaveRequest
    BY DEF SaveRequest
  <2>2. RequestsOK'
    BY <1>0, <1>5, <2>1, HoldType DEF SaveRead
  <2> QED
    BY <1>0, <1>5, <2>2 DEF SaveRead
<1>6. ASSUME NEW p \in Planners, SaveWrite(p)
      PROVE  RowsOK' /\ SemesterOK' /\ RequestsOK'
  <2>1. request[p].course \in Courses /\ request[p].values \in Configuration
    BY <1>0, <1>6, PendingSave DEF SaveWrite, SaveRequest
  <2>2. RequestsOK'
    BY <1>0, <1>6, AnswerType DEF SaveWrite
  <2> QED
    BY <1>0, <1>6, <2>1, <2>2 DEF SaveWrite
<1>7. ASSUME NEW p \in Planners, SaveRefused(p) \/ GenerateNothing(p) \/ GenerateStale(p)
      PROVE  RowsOK' /\ SemesterOK' /\ RequestsOK'
  <2>1. RequestsOK'
    BY <1>0, <1>7, AnswerType DEF SaveRefused, GenerateNothing, GenerateStale
  <2> QED
    BY <1>0, <1>7, <2>1 DEF SaveRefused, GenerateNothing, GenerateStale
<1>8. ASSUME NEW p \in Planners, NEW cs \in SUBSET Courses, GeneratePrepared(p, cs)
      PROVE  RowsOK' /\ SemesterOK' /\ RequestsOK'
  <2>1. CurrentInputs \in Inputs
    BY <1>0, InputsType
  <2>2. [kind |-> "prepared", revision |-> working, day |-> today, courses |-> cs,
         token |-> CurrentInputs, selected |-> {}, changed |-> FALSE] \in GenerateRequest
    BY <1>0, <2>1 DEF GenerateRequest
  <2>3. RequestsOK'
    BY <1>0, <1>8, <2>2, HoldType DEF GeneratePrepared
  <2> QED
    BY <1>0, <1>8, <2>3 DEF GeneratePrepared
<1>9. ASSUME NEW p \in Planners, GenerateArrange(p)
      PROVE  RowsOK' /\ SemesterOK' /\ RequestsOK'
  <2>1. RequestsOK'
    BY <1>0, <1>9, ArrangeType
  <2> QED
    BY <1>0, <1>9, <2>1 DEF GenerateArrange
<1>10. ASSUME NEW p \in Planners, GenerateSave(p)
       PROVE  RowsOK' /\ SemesterOK' /\ RequestsOK'
  <2> DEFINE cs == {x.course : x \in request[p].selected}
  <2>1. request[p] \in GenerateRequest
    BY <1>0, <1>10, PendingGeneration DEF GenerateSave
  <2>2. request[p].selected \in SUBSET Exam /\ request[p].changed \in BOOLEAN
    BY <2>1 DEF GenerateRequest
  <2>3. cs \in SUBSET Courses
    BY <2>2 DEF Exam
  <2>4. config' = Consumed(cs) /\ \A c \in cs : config[c].revision < MaxRevision
    BY <1>10 DEF GenerateSave
  <2>5. config' \in [Courses -> Configuration]
    BY <1>0, <2>3, <2>4, ConsumedType
  <2>6. RequestsOK'
    BY <1>0, <1>10, AnswerType DEF GenerateSave
  <2> QED
    BY <1>0, <1>10, <2>2, <2>5, <2>6 DEF GenerateSave
<1>11. ASSUME NEW c \in Courses, NEW d \in Days, NEW start \in Times, NEW l \in Lecturers,
              NEW r \in Rooms, CreateManual(c, d, start, l, r)
       PROVE  RowsOK' /\ SemesterOK' /\ RequestsOK'
  <2> DEFINE x == ExamRow(c, d, start, config[c].duration, l, r, "manual")
  <2>1. EndsSameDay(x)
    BY <1>11 DEF CreateManual, Fits
  <2>2. x \in Exam
    BY <1>0, <2>1, ConfigurationDuration, ExamRowType
  <2>3. config' = Consumed({c}) /\ config[c].revision < MaxRevision
    BY <1>11 DEF CreateManual
  <2>4. config' \in [Courses -> Configuration]
    BY <1>0, <2>3, ConsumedType
  <2>5. exams' = exams \cup {x}
    BY <1>11 DEF CreateManual
  <2> HIDE DEF x
  <2> QED
    BY <1>0, <1>11, <2>2, <2>4, <2>5 DEF CreateManual, RequestsOK
<1>12. ASSUME NEW e \in exams, NEW d \in Days, NEW start \in Times, NEW l \in Lecturers,
              NEW r \in Rooms, Correct(e, d, start, l, r)
       PROVE  RowsOK' /\ SemesterOK' /\ RequestsOK'
  <2> DEFINE x == ExamRow(e.course, d, start, e.end - e.start, l, r, e.source)
  <2>1. x \in Exam
    BY <1>0, <1>12, CorrectType
  <2>2. exams' = (exams \ {e}) \cup {x}
    BY <1>12 DEF Correct
  <2> HIDE DEF x
  <2> QED
    BY <1>0, <1>12, <2>1, <2>2 DEF Correct, RequestsOK
<1>13. ASSUME NEW e \in exams, Delete(e)
       PROVE  RowsOK' /\ SemesterOK' /\ RequestsOK'
  <2>1. e.course \in Courses
    BY <1>0 DEF Exam
  <2>2. config' \in [Courses -> Configuration]
    <3>1. CASE e.date >= today
      <4>1. config[e.course].revision + 1 \in 0..MaxRevision
        BY <1>0, <1>13, <2>1, <3>1, BoundsAssumption, ConfigurationDuration DEF Delete
      <4>2. [config[e.course] EXCEPT !.consumed = FALSE, !.revision = config[e.course].revision + 1]
              \in Configuration
        BY <1>0, <2>1, <4>1 DEF Configuration
      <4>3. config' = [config EXCEPT ![e.course].consumed = FALSE, ![e.course].revision = @ + 1]
        BY <1>13, <3>1 DEF Delete
      <4> QED
        BY <1>0, <2>1, <4>2, <4>3
    <3>2. CASE ~ (e.date >= today)
      BY <1>0, <1>13, <3>2 DEF Delete
    <3> QED
      BY <3>1, <3>2
  <2> QED
    BY <1>0, <1>13, <2>2 DEF Delete, RequestsOK
<1>14. CASE UNCHANGED vars
  BY <1>0, <1>14 DEF vars, RequestsOK
<1> QED
  BY <1>1, <1>2, <1>3, <1>4, <1>5, <1>6, <1>7, <1>8, <1>9, <1>10, <1>11, <1>12, <1>13, <1>14
     DEF Next, Surroundings, Manual

LEMMA TypeInit == Init => TypeOK
<1> SUFFICES ASSUME Init PROVE TypeOK
  OBVIOUS
<1>1. NoConfiguration \in Configuration
  BY BoundsAssumption, DurationAssumption, LecturersAssumption
     DEF NoConfiguration, Configuration
<1> HIDE DEF NoConfiguration
<1>2. RowsOK
  BY <1>1, DataAssumption DEF Init, RowsOK
<1>3. SemesterOK
  <2>1. 1 \in Days
    BY BoundsAssumption DEF Days
  <2>2. saved \in [Revisions -> Snapshot \cup {NoSnapshot}]
    BY DEF Init
  <2> QED
    BY <2>1, <2>2 DEF Init, SemesterOK
<1>4. RequestsOK
  BY DEF Init, RequestsOK
<1> QED
  BY <1>2, <1>3, <1>4, TypeParts

(* The tables and the requests in flight always hold what they should.     *)
THEOREM TypeCorrect == Spec => []TypeOK
BY TypeInit, TypeStep, PTL DEF Spec
-----------------------------------------------------------------------------
(***************************************************************************)
(* The safety of exam scheduling, for any number of planners generating at *)
(* the same time.  What has to be carried from one step to the next is     *)
(* what a generation in flight knows: that its preparation is not from the *)
(* future, which courses were eligible then, and that its exams fit what   *)
(* was prepared, unless the inputs had changed when they were computed.    *)
(***************************************************************************)
SingleActive(rows, day) ==
  \A e, f \in rows : e.course = f.course /\ e.date >= day /\ f.date >= day => e = f
Disjoint(rows) == \A e, f \in rows : e # f => ~ Collide(e, f)

(* A snapshot brings its exams back as they were, on a later day.          *)
SingleInv ==
  /\ SingleActive(exams, today)
  /\ \A r \in Revisions : saved[r] # NoSnapshot => SingleActive(saved[r].exams, today)

DisjointInv ==
  \/ torn
  \/ /\ Disjoint(exams)
     /\ \A r \in Revisions : saved[r] # NoSnapshot => Disjoint(saved[r].exams)

(* x keeps clear of the rows that were prepared.                           *)
FitsPrepared(x, token) ==
  /\ EndsSameDay(x)
  /\ \A s \in token.teaching :
       /\ s.course = x.course => (x.date > s.date \/ (x.date = s.date /\ x.start >= s.end))
       /\ ~ Collide(x, s)
  /\ \A y \in token.exams : ~ Collide(x, y)

Arranged(q) ==
  /\ Compatible(q.selected)
  /\ \A x \in q.selected :
       /\ x.source = "generated"
       /\ Eligible(q.token, q.day, x.course)
       /\ q.changed \/ FitsPrepared(x, q.token)

PendingOK(q) ==
  /\ q.kind \in {"prepared", "arranged"} => q.day <= today
  /\ q.kind = "arranged" => Arranged(q)

PendingInv == \A p \in Planners : PendingOK(request[p])

SafetyInv == TypeOK /\ SingleInv /\ DisjointInv /\ PendingInv

(***************************************************************************)
(* The steps that change exams, snapshots or the day; the others leave     *)
(* them alone.                                                             *)
(***************************************************************************)
Quiet == UNCHANGED <<today, working, saved, exams, torn>>

LEMMA ExamSteps ==
  ASSUME [Next]_vars
  PROVE  \/ NextDay
         \/ \E r \in Revisions : SwitchRevision(r)
         \/ \E p \in Planners : GenerateSave(p)
         \/ \E c \in Courses, d \in Days, start \in Times, l \in Lecturers, r \in Rooms :
              CreateManual(c, d, start, l, r)
         \/ \E e \in exams, d \in Days, start \in Times, l \in Lecturers, r \in Rooms :
              Correct(e, d, start, l, r)
         \/ \E e \in exams : Delete(e)
         \/ Quiet
<1>1. CASE EditTeaching \/ ChangeCatalog \/ UNCHANGED vars
  BY <1>1 DEF EditTeaching, ChangeCatalog, vars, Quiet
<1>2. ASSUME NEW p \in Planners,
             \/ \E c \in Courses, values \in Configuration : SaveRead(p, c, values)
             \/ SaveWrite(p) \/ SaveRefused(p)
             \/ \E cs \in SUBSET Courses : GeneratePrepared(p, cs)
             \/ GenerateArrange(p) \/ GenerateNothing(p) \/ GenerateStale(p)
      PROVE  Quiet
  BY <1>2 DEF SaveRead, SaveWrite, SaveRefused, GeneratePrepared, GenerateArrange,
              GenerateNothing, GenerateStale, Quiet
<1> QED
  BY <1>1, <1>2 DEF Next, Surroundings, Manual

LEMMA Typed ==
  ASSUME TypeOK
  PROVE  /\ today \in Days
         /\ exams \in SUBSET Exam
         /\ config \in [Courses -> Configuration]
         /\ RowsOK /\ RequestsOK
         /\ \A x \in Exam : x.date \in Days /\ x.course \in Courses
BY TypeParts DEF RowsOK, SemesterOK, Exam

LEMMA SingleAdded ==
  ASSUME NEW rows, NEW x, NEW day, SingleActive(rows, day),
         x.date >= day => ActiveOn(rows, x.course, day) = {}
  PROVE  SingleActive(rows \cup {x}, day)
BY DEF SingleActive, ActiveOn

LEMMA SingleLater ==
  ASSUME NEW rows \in SUBSET Exam, NEW day \in Days, SingleActive(rows, day)
  PROVE  SingleActive(rows, day + 1)
<1>1. \A e \in rows : e.date \in Nat
  BY BoundsAssumption DEF Exam, Days
<1>2. day \in Nat
  BY BoundsAssumption DEF Days
<1> QED
  BY <1>1, <1>2 DEF SingleActive

LEMMA DisjointAdded ==
  ASSUME NEW rows, NEW x, Disjoint(rows), \A y \in rows : ~ Collide(x, y)
  PROVE  Disjoint(rows \cup {x})
BY CollideSymmetric DEF Disjoint

(* What a generation saves was eligible, and still is: nothing it prepared *)
(* from has changed, and time only makes exams pass.                       *)
LEMMA SaveFacts ==
  ASSUME TypeOK, PendingInv, NEW p \in Planners, GenerateSave(p)
  PROVE  /\ request[p].selected \in SUBSET Exam
         /\ Compatible(request[p].selected)
         /\ \A x \in request[p].selected :
              /\ x.source = "generated"
              /\ config[x.course].enabled /\ ~ config[x.course].consumed
              /\ config'[x.course].consumed
              /\ Active(x.course) = {}
              /\ request[p].changed \/ FitsPrepared(x, CurrentInputs)
<1> DEFINE q == request[p]
           cs == {x.course : x \in q.selected}
<1>1. /\ q.kind = "arranged" /\ q.token = CurrentInputs
      /\ config' = Consumed(cs)
      /\ \A c \in cs : config[c].revision < MaxRevision
  BY DEF GenerateSave, StillCurrent
<1>2. q \in GenerateRequest
  BY <1>1, Typed, PendingGeneration
<1>3. q.selected \in SUBSET Exam /\ q.day \in Days
  BY <1>2 DEF GenerateRequest
<1>4. Arranged(q) /\ q.day <= today
  BY <1>1 DEF PendingInv, PendingOK
<1>5. cs \in SUBSET Courses
  BY <1>3 DEF Exam
<1>6. \A c \in cs : Consumed(cs)[c].consumed
  BY <1>1, <1>5, Typed, ConsumedType
<1>7. ASSUME NEW x \in q.selected
      PROVE  /\ x.source = "generated"
             /\ config[x.course].enabled /\ ~ config[x.course].consumed
             /\ config'[x.course].consumed
             /\ Active(x.course) = {}
             /\ q.changed \/ FitsPrepared(x, CurrentInputs)
  <2>1. /\ x.source = "generated"
        /\ Eligible(CurrentInputs, q.day, x.course)
        /\ q.changed \/ FitsPrepared(x, CurrentInputs)
    BY <1>1, <1>4 DEF Arranged
  <2>2. CurrentInputs.config = config /\ CurrentInputs.exams = exams
    BY DEF CurrentInputs
  <2>3. /\ config[x.course].enabled /\ ~ config[x.course].consumed
        /\ ActiveOn(exams, x.course, q.day) = {}
    BY <2>1, <2>2 DEF Eligible
  <2>4. \A e \in exams : e.date \in Nat
    BY Typed, BoundsAssumption DEF Days
  <2>5. q.day \in Nat /\ today \in Nat
    BY <1>3, Typed, BoundsAssumption DEF Days
  <2>6. Active(x.course) = {}
    BY <1>4, <2>3, <2>4, <2>5 DEF Active, ActiveOn
  <2> QED
    BY <1>1, <1>6, <2>1, <2>3, <2>6
<1> QED
  BY <1>3, <1>4, <1>7 DEF Arranged

(***************************************************************************)
(* One active exam.                                                        *)
(***************************************************************************)
LEMMA SingleStep ==
  ASSUME TypeOK, SingleInv, PendingInv, [Next]_vars
  PROVE  SingleInv'
<1>1. CASE NextDay
  <2>1. today' = today + 1 /\ exams' = exams /\ saved' = saved
    BY <1>1 DEF NextDay
  <2>2. SingleActive(exams, today + 1)
    BY Typed, SingleLater DEF SingleInv
  <2>3. ASSUME NEW r \in Revisions, saved[r] # NoSnapshot
        PROVE  SingleActive(saved[r].exams, today + 1)
    <3>1. saved[r] \in Snapshot
      BY <2>3 DEF TypeOK
    <3>2. saved[r].exams \in SUBSET Exam
      BY <3>1 DEF Snapshot
    <3> QED
      BY <2>3, <3>2, Typed, SingleLater DEF SingleInv
  <2> QED
    BY <2>1, <2>2, <2>3 DEF SingleInv, SingleActive
<1>2. ASSUME NEW r \in Revisions, SwitchRevision(r)
      PROVE  SingleInv'
  <2>1. today' = today /\ SingleActive(exams', today)
    BY <1>2 DEF SwitchRevision, SingleInv
  <2>2. ASSUME NEW s \in Revisions, saved'[s] # NoSnapshot
        PROVE  SingleActive(saved'[s].exams, today)
    <3>1. saved'[s] = IF s = r THEN NoSnapshot
                      ELSE IF s = working THEN [teaching |-> teaching, exams |-> exams]
                      ELSE saved[s]
      BY <1>2, <2>2 DEF SwitchRevision, TypeOK
    <3> QED
      BY <2>2, <3>1 DEF SingleInv
  <2> QED
    BY <2>1, <2>2 DEF SingleInv, SingleActive
<1>3. ASSUME NEW p \in Planners, GenerateSave(p)
      PROVE  SingleInv'
  <2>1. exams' = exams \cup request[p].selected /\ today' = today /\ saved' = saved
    BY <1>3 DEF GenerateSave
  <2>2. SingleActive(exams', today)
    BY <1>3, <2>1, SaveFacts DEF SingleInv, SingleActive, Active, ActiveOn, Compatible
  <2> QED
    BY <2>1, <2>2 DEF SingleInv, SingleActive
<1>4. ASSUME NEW c \in Courses, NEW d \in Days, NEW start \in Times, NEW l \in Lecturers,
             NEW r \in Rooms, CreateManual(c, d, start, l, r)
      PROVE  SingleInv'
  <2> DEFINE x == ExamRow(c, d, start, config[c].duration, l, r, "manual")
  <2>1. x.course = c /\ Active(c) = {} /\ exams' = exams \cup {x}
        /\ today' = today /\ saved' = saved
    BY <1>4 DEF CreateManual, ExamRow
  <2> HIDE DEF x
  <2>2. SingleActive(exams', today)
    BY <2>1, SingleAdded DEF SingleInv, Active
  <2> QED
    BY <2>1, <2>2 DEF SingleInv, SingleActive
<1>5. ASSUME NEW e \in exams, NEW d \in Days, NEW start \in Times, NEW l \in Lecturers,
             NEW r \in Rooms, Correct(e, d, start, l, r)
      PROVE  SingleInv'
  <2> DEFINE x == ExamRow(e.course, d, start, e.end - e.start, l, r, e.source)
  <2>1. SlotFree(e, x) /\ exams' = (exams \ {e}) \cup {x} /\ today' = today /\ saved' = saved
    BY <1>5 DEF Correct
  <2>2. x.date \in Nat /\ today \in Nat
    BY Typed, BoundsAssumption DEF ExamRow, Days
  <2> HIDE DEF x
  <2>3. x.date >= today => ActiveOn(exams \ {e}, x.course, today) = {}
    BY <2>1, <2>2 DEF SlotFree, Active, ActiveOn
  <2>4. SingleActive(exams \ {e}, today)
    BY DEF SingleInv, SingleActive
  <2>5. SingleActive(exams', today)
    BY <2>1, <2>3, <2>4, SingleAdded
  <2> QED
    BY <2>1, <2>5 DEF SingleInv, SingleActive
<1>6. ASSUME NEW e \in exams, Delete(e)
      PROVE  SingleInv'
  BY <1>6 DEF Delete, SingleInv, SingleActive
<1>7. CASE Quiet
  BY <1>7 DEF Quiet, SingleInv, SingleActive
<1> QED
  BY <1>1, <1>2, <1>3, <1>4, <1>5, <1>6, <1>7, ExamSteps

(***************************************************************************)
(* No collision between exams.                                             *)
(***************************************************************************)
LEMMA DisjointStep ==
  ASSUME TypeOK, DisjointInv, PendingInv, [Next]_vars
  PROVE  DisjointInv'
<1> SUFFICES ASSUME ~ torn'
             PROVE  /\ Disjoint(exams')
                    /\ \A r \in Revisions : saved'[r] # NoSnapshot => Disjoint(saved'[r].exams)
  BY DEF DisjointInv, Disjoint
<1>1. CASE NextDay \/ Quiet
  BY <1>1 DEF NextDay, Quiet, DisjointInv
<1>2. ASSUME NEW r \in Revisions, SwitchRevision(r)
      PROVE  /\ Disjoint(exams')
             /\ \A s \in Revisions : saved'[s] # NoSnapshot => Disjoint(saved'[s].exams)
  <2>1. Disjoint(exams')
    BY <1>2 DEF SwitchRevision, DisjointInv
  <2>2. ASSUME NEW s \in Revisions, saved'[s] # NoSnapshot
        PROVE  Disjoint(saved'[s].exams)
    <3>1. saved'[s] = IF s = r THEN NoSnapshot
                      ELSE IF s = working THEN [teaching |-> teaching, exams |-> exams]
                      ELSE saved[s]
      BY <1>2, <2>2 DEF SwitchRevision, TypeOK
    <3>2. ~ torn
      BY <1>2 DEF SwitchRevision
    <3> QED
      BY <2>2, <3>1, <3>2 DEF DisjointInv
  <2> QED
    BY <2>1, <2>2
<1>3. ASSUME NEW p \in Planners, GenerateSave(p)
      PROVE  Disjoint(exams') /\ saved' = saved /\ ~ torn
  <2>1. /\ exams' = exams \cup request[p].selected /\ saved' = saved
        /\ ~ torn /\ ~ request[p].changed
    BY <1>3 DEF GenerateSave
  <2>2. \A x \in request[p].selected, y \in exams : ~ Collide(x, y)
    BY <1>3, <2>1, SaveFacts DEF FitsPrepared, CurrentInputs
  <2>3. \A x, y \in request[p].selected : x # y => ~ Collide(x, y)
    BY <1>3, SaveFacts DEF Compatible
  <2>4. Disjoint(exams)
    BY <2>1 DEF DisjointInv
  <2> QED
    BY <2>1, <2>2, <2>3, <2>4, CollideSymmetric DEF Disjoint
<1>4. ASSUME NEW c \in Courses, NEW d \in Days, NEW start \in Times, NEW l \in Lecturers,
             NEW r \in Rooms, CreateManual(c, d, start, l, r)
      PROVE  Disjoint(exams') /\ saved' = saved /\ ~ torn
  <2> DEFINE x == ExamRow(c, d, start, config[c].duration, l, r, "manual")
  <2>1. Fits(x, exams) /\ exams' = exams \cup {x} /\ saved' = saved /\ ~ torn
    BY <1>4 DEF CreateManual
  <2> HIDE DEF x
  <2> QED
    BY <2>1, DisjointAdded DEF Fits, DisjointInv
<1>5. ASSUME NEW e \in exams, NEW d \in Days, NEW start \in Times, NEW l \in Lecturers,
             NEW r \in Rooms, Correct(e, d, start, l, r)
      PROVE  Disjoint(exams') /\ saved' = saved /\ ~ torn
  <2> DEFINE x == ExamRow(e.course, d, start, e.end - e.start, l, r, e.source)
  <2>1. /\ Fits(x, exams \ {e}) /\ exams' = (exams \ {e}) \cup {x}
        /\ saved' = saved /\ ~ torn
    BY <1>5 DEF Correct
  <2> HIDE DEF x
  <2>2. Disjoint(exams \ {e})
    BY <2>1 DEF DisjointInv, Disjoint
  <2> QED
    BY <2>1, <2>2, DisjointAdded DEF Fits
<1>6. ASSUME NEW e \in exams, Delete(e)
      PROVE  Disjoint(exams') /\ saved' = saved /\ ~ torn
  BY <1>6 DEF Delete, DisjointInv, Disjoint
<1>7. ASSUME saved' = saved, ~ torn
      PROVE  \A r \in Revisions : saved'[r] # NoSnapshot => Disjoint(saved'[r].exams)
  BY <1>7 DEF DisjointInv
<1> QED
  BY <1>1, <1>2, <1>3, <1>4, <1>5, <1>6, <1>7, ExamSteps

(***************************************************************************)
(* What a generation in flight knows.                                      *)
(***************************************************************************)
LEMMA PendingHeld ==
  ASSUME TypeOK, PendingInv, NEW p \in Planners, NEW pending, Hold(p, pending),
         today' = today, PendingOK(pending)
  PROVE  PendingInv'
BY DEF TypeOK, PendingInv, PendingOK, Hold

LEMMA PendingAnswered ==
  ASSUME TypeOK, PendingInv, NEW p \in Planners, Answer(p), today' = today
  PROVE  PendingInv'
BY DEF TypeOK, PendingInv, PendingOK, Answer, Idle

LEMMA ArrangeStep ==
  ASSUME TypeOK, PendingInv, NEW p \in Planners, GenerateArrange(p)
  PROVE  PendingInv'
<1> DEFINE q == request[p]
           cs == {c \in q.courses : Eligible(q.token, q.day, c)}
<1>1. /\ q.kind = "prepared"
      /\ today' = today
  BY DEF GenerateArrange
<1>2. PICK sel \in Arrangements(cs) :
        Hold(p, [q EXCEPT !.kind = "arranged", !.selected = sel,
                          !.changed = CurrentInputs # q.token])
  BY DEF GenerateArrange
<1> DEFINE pending == [q EXCEPT !.kind = "arranged", !.selected = sel,
                                !.changed = CurrentInputs # q.token]
<1>3. q \in GenerateRequest
  BY <1>1, Typed, PendingGeneration
<1>4. cs \in SUBSET Courses
  BY <1>3 DEF GenerateRequest
<1>5. /\ pending.kind = "arranged" /\ pending.selected = sel
      /\ pending.changed = (CurrentInputs # q.token)
      /\ pending.token = q.token /\ pending.day = q.day
  BY <1>3 DEF GenerateRequest
<1> HIDE DEF pending
<1>6. q.day <= today
  BY <1>1 DEF PendingInv, PendingOK
<1>7. ASSUME NEW x \in sel
      PROVE  /\ x.source = "generated"
             /\ Eligible(q.token, q.day, x.course)
             /\ pending.changed \/ FitsPrepared(x, q.token)
  <2>1. PICK c \in cs : x \in Candidates(c)
    BY <1>4, ArrangementFacts
  <2>2. /\ x.course = c /\ x.source = "generated"
        /\ Fits(x, exams)
    BY <1>4, <2>1, Typed, CandidateFacts
  <2>3. ASSUME CurrentInputs = q.token PROVE FitsPrepared(x, q.token)
    <3>1. q.token.teaching = teaching /\ q.token.exams = exams
      BY <2>3 DEF CurrentInputs
    <3> QED
      BY <2>2, <3>1 DEF Fits, FitsPrepared, AfterTeaching, TeachingOf
  <2> QED
    BY <1>5, <2>1, <2>2, <2>3
<1>8. PendingOK(pending)
  BY <1>4, <1>5, <1>6, <1>7, ArrangementFacts DEF PendingOK, Arranged
<1> QED
  BY <1>1, <1>2, <1>8, PendingHeld DEF pending

LEMMA PendingStep ==
  ASSUME TypeOK, PendingInv, [Next]_vars
  PROVE  PendingInv'
<1>1. CASE NextDay
  <2>1. today \in Nat /\ today' = today + 1 /\ request' = request
    BY <1>1, Typed, BoundsAssumption DEF NextDay, Days
  <2>2. ASSUME NEW p \in Planners, request[p].kind \in {"prepared", "arranged"}
        PROVE  request[p].day \in Nat /\ request[p].day <= today + 1
    <3>1. request[p] \in GenerateRequest
      BY <2>2, Typed, PendingGeneration
    <3>2. request[p].day \in Nat
      BY <3>1, BoundsAssumption DEF GenerateRequest, Days
    <3> QED
      BY <2>1, <2>2, <3>2 DEF PendingInv, PendingOK
  <2> QED
    BY <2>1, <2>2 DEF PendingInv, PendingOK
<1>2. CASE request' = request /\ today' = today
  BY <1>2 DEF PendingInv, PendingOK
<1>3. ASSUME \/ EditTeaching \/ ChangeCatalog \/ UNCHANGED vars
             \/ \E r \in Revisions : SwitchRevision(r)
             \/ \E e \in exams : Delete(e)
      PROVE  request' = request /\ today' = today
  BY <1>3 DEF EditTeaching, ChangeCatalog, SwitchRevision, Delete, vars
<1>4. ASSUME NEW c, NEW e, NEW d, NEW start, NEW l, NEW r,
             CreateManual(c, d, start, l, r) \/ Correct(e, d, start, l, r)
      PROVE  request' = request /\ today' = today
  BY <1>4 DEF CreateManual, Correct
<1>5. Manual => request' = request /\ today' = today
  BY <1>4 DEF Manual
<1>6. ASSUME NEW p \in Planners,
             NEW c \in Courses, NEW values \in Configuration, SaveRead(p, c, values)
      PROVE  PendingInv'
  <2>1. PendingOK([kind |-> "save", course |-> c, values |-> values])
    BY DEF PendingOK
  <2> QED
    BY <1>6, <2>1, PendingHeld DEF SaveRead
<1>7. ASSUME NEW p \in Planners,
             \/ SaveWrite(p) \/ SaveRefused(p) \/ GenerateNothing(p)
             \/ GenerateSave(p) \/ GenerateStale(p)
      PROVE  PendingInv'
  <2>1. Answer(p) /\ today' = today
    BY <1>7 DEF SaveWrite, SaveRefused, GenerateNothing, GenerateSave, GenerateStale
  <2> QED
    BY <2>1, PendingAnswered
<1>8. ASSUME NEW p \in Planners, NEW cs \in SUBSET Courses, GeneratePrepared(p, cs)
      PROVE  PendingInv'
  <2> DEFINE pending ==
        [kind |-> "prepared", revision |-> working, day |-> today, courses |-> cs,
         token |-> CurrentInputs, selected |-> {}, changed |-> FALSE]
  <2>1. Hold(p, pending) /\ today' = today
    BY <1>8 DEF GeneratePrepared
  <2>2. pending.kind = "prepared" /\ pending.day <= today
    BY Typed, BoundsAssumption DEF Days
  <2>3. PendingOK(pending)
    BY <2>2 DEF PendingOK
  <2> HIDE DEF pending
  <2> QED
    BY <2>1, <2>3, PendingHeld
<1>9. ASSUME NEW p \in Planners, GenerateArrange(p)
      PROVE  PendingInv'
  BY <1>9, ArrangeStep
<1> QED
  BY <1>1, <1>2, <1>3, <1>5, <1>6, <1>7, <1>8, <1>9 DEF Next, Surroundings

LEMMA SafetyInit == Init => SafetyInv
<1> SUFFICES ASSUME Init PROVE SafetyInv
  OBVIOUS
<1>1. exams = {} /\ \A r \in Revisions : saved[r] = NoSnapshot
  BY DEF Init
<1>2. SingleInv /\ DisjointInv
  BY <1>1 DEF SingleInv, SingleActive, DisjointInv, Disjoint
<1>3. PendingInv
  BY DEF Init, PendingInv, PendingOK, Idle
<1> QED
  BY <1>2, <1>3, TypeInit DEF SafetyInv

LEMMA SafetyStep ==
  ASSUME SafetyInv, [Next]_vars
  PROVE  SafetyInv'
BY TypeStep, SingleStep, DisjointStep, PendingStep DEF SafetyInv

LEMMA Safety == Spec => []SafetyInv
BY SafetyInit, SafetyStep, PTL DEF Spec

(***************************************************************************)
(* The theorems.                                                           *)
(***************************************************************************)

(* However many planners generate, place, correct, delete and restore, a   *)
(* course never has two exams of today or later.                           *)
THEOREM OneActiveExamAlways == Spec => []OneActiveExam
<1>1. SafetyInv => OneActiveExam
  BY DEF SafetyInv, SingleInv, SingleActive, OneActiveExam, Active, ActiveOn
<1> QED
  BY <1>1, Safety, PTL

(* No two exams claim a lecturer, room or cohort at the same time, except  *)
(* after an arrangement computed from inputs that changed and changed back.*)
THEOREM ExamsNeverCollideAlways == Spec => []ExamsNeverCollide
<1>1. SafetyInv => ExamsNeverCollide
  BY DEF SafetyInv, DisjointInv, Disjoint, ExamsNeverCollide
<1> QED
  BY <1>1, Safety, PTL

(* A generated exam comes from a fresh configuration and uses it up.       *)
THEOREM GeneratedFromFreshAlways == Spec => GeneratedFromFresh
<1> DEFINE Fresh ==
      working' = working /\ exams \subseteq exams' =>
        \A e \in exams' \ exams :
          e.source = "generated" =>
            /\ config[e.course].enabled /\ ~ config[e.course].consumed
            /\ config'[e.course].consumed
            /\ Active(e.course) = {}
<1>1. SafetyInv /\ [Next]_vars => [Fresh]_vars
  <2> SUFFICES ASSUME SafetyInv, [Next]_vars, working' = working, exams \subseteq exams',
                      NEW e \in exams' \ exams, e.source = "generated"
               PROVE  /\ config[e.course].enabled /\ ~ config[e.course].consumed
                      /\ config'[e.course].consumed
                      /\ Active(e.course) = {}
    OBVIOUS
  <2>1. PICK p \in Planners : GenerateSave(p)
    <3>1. ~ NextDay /\ ~ Quiet /\ ~ (\E r \in Revisions : SwitchRevision(r))
      BY DEF NextDay, Quiet, SwitchRevision
    <3>2. ASSUME NEW c, NEW d, NEW start, NEW l, NEW r, CreateManual(c, d, start, l, r)
          PROVE  FALSE
      <4>1. PICK x : exams' = exams \cup {x} /\ x.source = "manual"
        BY <3>2 DEF CreateManual, ExamRow
      <4> QED
        BY <4>1
    <3>3. ASSUME NEW f \in exams, NEW d, NEW start, NEW l, NEW r, Correct(f, d, start, l, r)
          PROVE  FALSE
      <4>1. PICK x : exams' = (exams \ {f}) \cup {x}
        BY <3>3 DEF Correct
      <4>2. x = f
        BY <4>1
      <4> QED
        BY <4>1, <4>2
    <3>4. ~ (\E f \in exams : Delete(f))
      BY DEF Delete
    <3> QED
      BY <3>1, <3>2, <3>3, <3>4, ExamSteps
  <2>2. e \in request[p].selected
    BY <2>1 DEF GenerateSave
  <2> QED
    BY <2>1, <2>2, SaveFacts DEF SafetyInv
<1>2. Spec => [][Fresh]_vars
  BY <1>1, Safety, PTL DEF Spec
<1> QED
  BY <1>2 DEF GeneratedFromFresh

(* Every exam that is placed or moved ends on its day, after the teaching  *)
(* of its course, and clear of all teaching of that moment.                *)
THEOREM PlacedExamsFitAlways == Spec => PlacedExamsFit
<1> DEFINE Clear(e) ==
      /\ e.start < e.end /\ e.end < DayLength
      /\ AfterTeaching(e)
      /\ \A s \in teaching : ~ Collide(e, s)
           Placed == working' = working => \A e \in exams' \ exams : torn' \/ Clear(e)
<1>1. ASSUME TypeOK, TypeOK', NEW x \in exams', NEW rows, Fits(x, rows)
      PROVE  Clear(x)
  BY <1>1, Typed DEF Fits, EndsSameDay, TypeOK, CurrentInputs, Inputs, Exam
<1>2. SafetyInv /\ SafetyInv' /\ [Next]_vars => [Placed]_vars
  <2> SUFFICES ASSUME SafetyInv, SafetyInv', [Next]_vars, working' = working, ~ torn',
                      NEW e \in exams' \ exams
               PROVE  Clear(e)
    OBVIOUS
  <2> HIDE DEF Clear
  <2>0. TypeOK /\ TypeOK'
    BY DEF SafetyInv
  <2>1. ASSUME NEW p \in Planners, GenerateSave(p)
        PROVE  Clear(e)
    <3>1. e \in request[p].selected /\ ~ request[p].changed
      BY <2>1 DEF GenerateSave
    <3>2. e \in Exam /\ FitsPrepared(e, CurrentInputs)
      BY <2>1, <3>1, SaveFacts DEF SafetyInv
    <3>3. CurrentInputs.teaching = teaching
      BY DEF CurrentInputs
    <3> QED
      BY <3>2, <3>3 DEF Clear, Exam, FitsPrepared, EndsSameDay, AfterTeaching, TeachingOf
  <2>2. ASSUME NEW c \in Courses, NEW d \in Days, NEW start \in Times, NEW l \in Lecturers,
               NEW r \in Rooms, CreateManual(c, d, start, l, r)
        PROVE  Clear(e)
    BY <1>1, <2>0, <2>2 DEF CreateManual
  <2>3. ASSUME NEW f \in exams, NEW d \in Days, NEW start \in Times, NEW l \in Lecturers,
               NEW r \in Rooms, Correct(f, d, start, l, r)
        PROVE  Clear(e)
    BY <1>1, <2>0, <2>3 DEF Correct
  <2>4. /\ ~ NextDay /\ ~ Quiet /\ ~ (\E r \in Revisions : SwitchRevision(r))
        /\ ~ (\E f \in exams : Delete(f))
    BY DEF NextDay, Quiet, SwitchRevision, Delete
  <2> QED
    BY <2>1, <2>2, <2>3, <2>4, ExamSteps
<1>3. Spec => [][Placed]_vars
  BY <1>2, Safety, PTL DEF Spec
<1> QED
  BY <1>3 DEF PlacedExamsFit
=============================================================================
