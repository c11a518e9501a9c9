----------------------- MODULE ScheduleLifecycleProofs -----------------------
(***************************************************************************)
(* Theorems about ScheduleLifecycle, for any number of planners, revisions *)
(* and contents and any length of the history, and about the calendar      *)
(* requests of SemesterWorkspace beside it.                                *)
(***************************************************************************)
EXTENDS SemesterWorkspace, TLAPS, SequenceTheorems, FiniteSetTheorems, WellFoundedInduction

(* A nonempty set of numbers up to n has a largest element. *)
LEMMA MaxExists ==
  ASSUME NEW n \in Nat, NEW S \in SUBSET (1..n), S # {}
  PROVE  \E m \in S : \A k \in S : k <= m
<1> DEFINE Bounds == {b \in Nat : \A k \in S : k <= b}
<1>1. n \in Bounds
  OBVIOUS
<1>2. PICK b \in Bounds : \A c \in Bounds : ~ (<<c, b>> \in OpToRel(<, Nat))
  <2>1. Bounds \subseteq Nat /\ Bounds # {}
    BY <1>1
  <2> HIDE DEF Bounds
  <2> QED
    BY <2>1, NatLessThanWellFounded, WFMin
<1>3. \A c \in Bounds : ~ (c < b)
  BY <1>2 DEF OpToRel
<1>4. b \in S
  <2>1. SUFFICES ASSUME b \notin S PROVE FALSE
    OBVIOUS
  <2>2. \A k \in S : k <= b - 1
    BY <2>1
  <2>3. b - 1 \in Nat
    <3>1. PICK k \in S : TRUE
      OBVIOUS
    <3> QED
      BY <2>2, <3>1
  <2>4. b - 1 \in Bounds
    BY <2>2, <2>3
  <2> QED
    BY <1>3, <2>4
<1> QED
  BY <1>4

(* Facts about the helpers. *)

LEMMA LastSequenceType ==
  ASSUME NEW r, events \in Seq(Event)
  PROVE  LastSequence(r) \in Nat
<1>1. CASE EventsOf(r) = {}
  BY <1>1 DEF LastSequence
<1>2. CASE EventsOf(r) # {}
  <2>1. Len(events) \in Nat /\ EventsOf(r) \in SUBSET (1..Len(events))
    BY LenProperties DEF EventsOf
  <2>2. \E i \in EventsOf(r) : \A j \in EventsOf(r) : j <= i
    BY <1>2, <2>1, MaxExists
  <2>3. LastSequence(r) \in EventsOf(r)
    BY <1>2, <2>2 DEF LastSequence
  <2> QED
    BY <2>1, <2>3
<1> QED
  BY <1>1, <1>2

TablesOK ==
  /\ rows \in [Revisions -> Row]
  /\ events \in Seq(Event)

BrowserOK ==
  /\ held \in [Planners -> StateTokens]
  /\ preparation \in [Planners -> ReadingDialog \cup ShownDialog \cup {NoPreparation}]
  /\ answer \in {"none", "ok", "server_error"}
  /\ heldAt \in [Planners -> Nat]

LEMMA StateTokenType == TablesOK => StateToken \in StateTokens
<1> SUFFICES ASSUME TablesOK PROVE StateToken \in StateTokens
  OBVIOUS
<1>1. \A r \in Revisions : LastSequence(r) \in Nat
  BY LastSequenceType DEF TablesOK
<1> QED
  BY <1>1 DEF StateToken, StateTokens, Row, TablesOK

LEMMA StateTokenTypeNext == TablesOK' => (StateToken \in StateTokens)'
BY StateTokenType, PTL

LEMMA SnapshotType == TypeOK => BuildSnapshot \in Snapshot
BY DEF TypeOK, BuildSnapshot, Snapshot

(* Appending one event, or two, to the history. *)
LEMMA HistoryGrows ==
  ASSUME events \in Seq(Event), NEW e \in Event, NEW f \in Event
  PROVE  /\ Append(events, e) \in Seq(Event)
         /\ Len(Append(events, e)) = Len(events) + 1
         /\ events \o <<f, e>> \in Seq(Event)
         /\ Len(events \o <<f, e>>) = Len(events) + 2
         /\ Len(events) \in Nat
<1>1. <<f, e>> \in Seq(Event) /\ Len(<<f, e>>) = 2
  OBVIOUS
<1> QED
  BY <1>1, AppendProperties, ConcatProperties, LenProperties

LEMMA EventRecordType ==
  ASSUME NEW r \in Revisions, NEW type \in EventTypes, NEW from \in States, NEW to \in States
  PROVE  EventRecord(r, type, from, to) \in Event
BY DEF EventRecord, Event

LEMMA AnsweredType ==
  ASSUME BrowserOK, TablesOK', NEW p \in Planners, Answered(p)
  PROVE  BrowserOK'
<1>1. StateToken' \in StateTokens
  BY StateTokenTypeNext
<1>2. Len(events') \in Nat
  BY LenProperties DEF TablesOK
<1> QED
  BY <1>1, <1>2 DEF BrowserOK, Answered, browser

LEMMA MovedType ==
  ASSUME TablesOK, NEW r \in Revisions, NEW to \in States,
         NEW snapshot \in Snapshot \cup {NoSnapshot}
  PROVE  Moved(r, to, snapshot) \in Row
BY DEF TablesOK, Moved, Row

LEMMA TransitionType ==
  ASSUME TablesOK, NEW r \in Revisions, NEW type \in EventTypes, NEW to \in States,
         Transition(r, type, to)
  PROVE  TablesOK'
<1>1. EventRecord(r, type, rows[r].state, to) \in Event
  BY EventRecordType DEF TablesOK, Row
<1>2. events' \in Seq(Event)
  BY <1>1, HistoryGrows DEF TablesOK, Transition
<1>3. rows' \in [Revisions -> Row]
  BY MovedType DEF TablesOK, Transition, Row
<1> QED
  BY <1>2, <1>3 DEF TablesOK

LEMMA TypeInit == Init => TypeOK
<1> SUFFICES ASSUME Init PROVE TypeOK
  OBVIOUS
<1>1. TablesOK
  <2>1. AbsentRow \in Row
    BY DEF AbsentRow, Row, States, NoRevision
  <2> QED
    BY <2>1 DEF Init, TablesOK
<1>2. StateToken \in StateTokens
  BY <1>1, StateTokenType
<1> QED
  BY <1>1, <1>2 DEF Init, TypeOK, TablesOK

-----------------------------------------------------------------------------
(***************************************************************************)
(* Type correctness is not inductive: a restoration or a copy of the       *)
(* publication reads the snapshot of a row, so it needs that every row     *)
(* outside the working states has one.                                     *)
(***************************************************************************)
RowsMatchStates ==
  \A r \in Revisions :
    /\ rows[r].state = "absent" => rows[r] = AbsentRow
    /\ rows[r].state \in {"published", "superseded", "abandoned"} =>
         rows[r].snapshot \in Snapshot

TypeInv == TypeOK /\ RowsMatchStates

LEMMA TypeInvInit == Init => TypeInv
<1> SUFFICES ASSUME Init PROVE TypeInv
  OBVIOUS
<1>1. \A r \in Revisions : rows[r] = AbsentRow
  BY DEF Init
<1> QED
  BY <1>1, TypeInit DEF TypeInv, RowsMatchStates, AbsentRow

(* A transition to a working state keeps the snapshot. *)
LEMMA TransitionRows ==
  ASSUME TypeInv, NEW r \in Revisions, NEW type \in EventTypes, NEW to \in WORKING_STATES,
         Transition(r, type, to)
  PROVE  TablesOK' /\ RowsMatchStates'
<1>1. to \in States
  BY DEF States
<1>2. TablesOK'
  BY <1>1, TransitionType DEF TypeInv, TypeOK, TablesOK
<1>3. RowsMatchStates'
  BY DEF TypeInv, TypeOK, RowsMatchStates, Transition, Moved, WORKING_STATES, Row
<1> QED
  BY <1>2, <1>3

LEMMA FrozenContent ==
  ASSUME TypeInv, NEW r \in Revisions,
         rows[r].state \in {"published", "superseded", "abandoned"}
  PROVE  rows[r].snapshot.content \in Content
BY DEF TypeInv, RowsMatchStates, Snapshot

LEMMA CreateType ==
  ASSUME TypeInv, NEW p \in Planners, CreateWorkingRevision(p)
  PROVE  TypeInv'
<1>1. PICK r \in Revisions :
        /\ rows[r].state = "absent"
        /\ \/ /\ rows' = [rows EXCEPT ![r] = NewDraft(NoRevision)]
              /\ UNCHANGED live
           \/ \E current \in Published :
                /\ live' = rows[current].snapshot.content
                /\ rows' = [rows EXCEPT ![r] = NewDraft(current)]
        /\ events' = Append(events, EventRecord(r, "created", "absent", "draft"))
        /\ saved' = [saved EXCEPT ![r] = live']
        /\ Answered(p)
        /\ UNCHANGED cohort
  BY DEF CreateWorkingRevision
<1>2. EventRecord(r, "created", "absent", "draft") \in Event
  BY EventRecordType DEF EventTypes, States, WORKING_STATES
<1>3. events' \in Seq(Event)
  BY <1>1, <1>2, HistoryGrows DEF TypeInv, TypeOK
<1>4. PICK origin \in Revisions \cup {NoRevision} :
        /\ rows' = [rows EXCEPT ![r] = NewDraft(origin)]
        /\ live' \in Content
  <2>1. CASE UNCHANGED live /\ rows' = [rows EXCEPT ![r] = NewDraft(NoRevision)]
    BY <2>1 DEF TypeInv, TypeOK, NoRevision
  <2>2. CASE \E current \in Published :
                /\ live' = rows[current].snapshot.content
                /\ rows' = [rows EXCEPT ![r] = NewDraft(current)]
    BY <2>2, FrozenContent DEF Published
  <2> QED
    BY <1>1, <2>1, <2>2
<1>5. rows' \in [Revisions -> Row] /\ RowsMatchStates'
  BY <1>4 DEF NewDraft, TypeInv, TypeOK, RowsMatchStates, Row, States, WORKING_STATES
<1>6. BrowserOK'
  BY <1>1, <1>3, <1>5, AnsweredType DEF TypeInv, TypeOK, TablesOK, BrowserOK
<1> QED
  BY <1>1, <1>3, <1>4, <1>5, <1>6 DEF TypeInv, TypeOK, BrowserOK

LEMMA AbandonType ==
  ASSUME TypeInv, NEW p \in Planners, NEW r \in Revisions, Abandon(p, r)
  PROVE  TypeInv'
<1>1. BuildSnapshot \in Snapshot
  BY SnapshotType DEF TypeInv
<1>2. EventRecord(r, "abandoned", rows[r].state, "abandoned") \in Event
  BY EventRecordType DEF TypeInv, TypeOK, Row, EventTypes, States
<1>3. events' \in Seq(Event)
  BY <1>2, HistoryGrows DEF Abandon, TypeInv, TypeOK
<1>4. rows' \in [Revisions -> Row] /\ RowsMatchStates'
  <2>1. Moved(r, "abandoned", BuildSnapshot) \in Row
    BY <1>1, MovedType DEF TypeInv, TypeOK, TablesOK, States
  <2> QED
    BY <1>1, <2>1 DEF Abandon, Moved, TypeInv, TypeOK, RowsMatchStates
<1>5. BrowserOK'
  BY <1>3, <1>4, AnsweredType DEF Abandon, TypeInv, TypeOK, TablesOK, BrowserOK
<1> QED
  BY <1>3, <1>4, <1>5 DEF Abandon, TypeInv, TypeOK, BrowserOK

LEMMA RestoreType ==
  ASSUME TypeInv, NEW p \in Planners, NEW r \in Revisions, Restore(p, r)
  PROVE  TypeInv'
<1>1. TablesOK' /\ RowsMatchStates'
  BY TransitionRows DEF Restore, EventTypes, WORKING_STATES
<1>2. live' \in Content
  BY FrozenContent DEF Restore
<1>3. BrowserOK'
  BY <1>1, AnsweredType DEF Restore, TypeInv, TypeOK, BrowserOK
<1> QED
  BY <1>1, <1>2, <1>3 DEF Restore, TypeInv, TypeOK, TablesOK, BrowserOK

LEMMA PublishType ==
  ASSUME TypeInv, NEW p \in Planners, NEW r \in Revisions, Publish(p, r)
  PROVE  TypeInv'
<1>1. BuildSnapshot \in Snapshot
  BY SnapshotType DEF TypeInv
<1>2. rows' \in [Revisions -> Row]
  <2>1. TablesOK /\ \A q \in Revisions : rows[q].snapshot \in Snapshot \cup {NoSnapshot}
    BY DEF TypeInv, TypeOK, TablesOK, Row
  <2>2. \A q \in Revisions : /\ Moved(q, "published", BuildSnapshot) \in Row
                             /\ Moved(q, "superseded", rows[q].snapshot) \in Row
    BY <1>1, <2>1, MovedType DEF States
  <2> QED
    BY <2>2 DEF Publish, SupersedeAndPublish, TypeInv, TypeOK
<1>3. RowsMatchStates'
  BY <1>1 DEF Publish, SupersedeAndPublish, Moved, TypeInv, TypeOK, RowsMatchStates, Published
<1>4. events' \in Seq(Event)
  <2> DEFINE published == EventRecord(r, "published", rows[r].state, "published")
  <2>1. published \in Event
    BY EventRecordType DEF TypeInv, TypeOK, Row, EventTypes, States
  <2>2. CASE events' = Append(events, published)
    BY <2>1, <2>2, HistoryGrows DEF TypeInv, TypeOK
  <2>3. CASE \E current \in Published :
          events' = events \o <<EventRecord(current, "superseded", "published", "superseded"),
                                published>>
    <3>1. \A current \in Published :
            EventRecord(current, "superseded", "published", "superseded") \in Event
      BY EventRecordType DEF Published, EventTypes, States
    <3> QED
      BY <2>1, <2>3, <3>1, HistoryGrows DEF TypeInv, TypeOK
  <2> QED
    BY <2>2, <2>3 DEF Publish
<1>5. BrowserOK'
  BY <1>2, <1>4, AnsweredType DEF Publish, TypeInv, TypeOK, TablesOK, BrowserOK
<1> QED
  BY <1>2, <1>3, <1>4, <1>5 DEF Publish, TypeInv, TypeOK, BrowserOK

LEMMA WorkingTransitionType ==
  ASSUME TypeInv, NEW p \in Planners, NEW r \in Revisions,
         MarkReady(p, r) \/ ReturnToDraft(p, r)
  PROVE  TypeInv'
<1>1. TablesOK' /\ RowsMatchStates'
  BY TransitionRows DEF MarkReady, ReturnToDraft, EventTypes, WORKING_STATES
<1>2. BrowserOK'
  BY <1>1, AnsweredType DEF MarkReady, ReturnToDraft, TypeInv, TypeOK, BrowserOK
<1> QED
  BY <1>1, <1>2 DEF MarkReady, ReturnToDraft, TypeInv, TypeOK, TablesOK, BrowserOK

(* Reading and preparing change the browser only. *)
LEMMA PrepareType ==
  ASSUME TypeInv, NEW p \in Planners,
         \/ ReadOverview(p) \/ PrepareContent(p) \/ CloseDialog(p)
         \/ \E r \in Revisions : PrepareOverview(p, r)
  PROVE  TypeInv'
<1>1. StateToken \in StateTokens /\ Len(events) \in Nat
  BY StateTokenType, LenProperties DEF TypeInv, TypeOK, TablesOK
<1>2. RowsMatchStates' /\ UNCHANGED <<rows, events, live, cohort, answer, saved>>
  BY DEF ReadOverview, PrepareContent, CloseDialog, PrepareOverview, tables,
         TypeInv, RowsMatchStates
<1>3. CASE ReadOverview(p)
  BY <1>1, <1>2, <1>3 DEF ReadOverview, TypeInv, TypeOK
<1>4. CASE CloseDialog(p)
  BY <1>2, <1>4 DEF CloseDialog, TypeInv, TypeOK
<1>5. ASSUME NEW r \in Revisions, PrepareOverview(p, r)
      PROVE  TypeInv'
  <2>1. preparation'[p] \in ReadingDialog
    BY <1>1, <1>5 DEF PrepareOverview, TypeInv, TypeOK, ReadingDialog, Row, Content
  <2> QED
    BY <1>2, <1>5, <2>1 DEF PrepareOverview, TypeInv, TypeOK
<1>6. CASE PrepareContent(p)
  <2>1. preparation[p] \in ReadingDialog
    BY <1>6 DEF PrepareContent, TypeInv, TypeOK, ShownDialog
  <2>2. preparation'[p] \in ShownDialog
    BY <1>6, <2>1 DEF PrepareContent, TypeInv, TypeOK, ReadingDialog, ShownDialog,
                      PreparationToken, Snapshot, Content
  <2> QED
    BY <1>2, <1>6, <2>2 DEF PrepareContent, TypeInv, TypeOK
<1> QED
  BY <1>3, <1>4, <1>5, <1>6

(* Edits and a failed publication leave the revisions alone. *)
LEMMA EditType ==
  ASSUME TypeInv,
         \/ \E p \in Planners, r \in Revisions : PublishFlushFails(p, r)
         \/ \E r \in Revisions, t \in Teaching : EditTeaching(r, t)
         \/ \E r \in Revisions, e \in Exams : EditExams(r, e)
         \/ \E c \in Cohorts : MoveCourse(c)
  PROVE  TypeInv'
<1>1. UNCHANGED <<rows, events, browser>> /\ answer' \in {answer, "server_error"}
  BY DEF EditTeaching, EditExams, MoveCourse, PublishFlushFails, tables
<1>2. live' \in Content /\ saved' \in [Revisions -> Content] /\ cohort' \in Cohorts
  <2>1. ASSUME NEW r \in Revisions, NEW t \in Teaching, EditTeaching(r, t)
        PROVE  live' \in Content /\ saved' \in [Revisions -> Content] /\ cohort' \in Cohorts
    BY <2>1 DEF EditTeaching, TypeInv, TypeOK, Content
  <2>2. ASSUME NEW r \in Revisions, NEW e \in Exams, EditExams(r, e)
        PROVE  live' \in Content /\ saved' \in [Revisions -> Content] /\ cohort' \in Cohorts
    BY <2>2 DEF EditExams, TypeInv, TypeOK, Content
  <2> QED
    BY <2>1, <2>2 DEF MoveCourse, PublishFlushFails, tables, TypeInv, TypeOK
<1> QED
  BY <1>1, <1>2 DEF browser, TypeInv, TypeOK, RowsMatchStates

LEMMA TypeStep == TypeInv /\ [Next]_vars => TypeInv'
<1> SUFFICES ASSUME TypeInv, [Next]_vars PROVE TypeInv'
  OBVIOUS
<1>1. ASSUME NEW p \in Planners, ReadOverview(p) \/ PrepareContent(p) \/ CloseDialog(p)
      PROVE  TypeInv'
  BY <1>1, PrepareType
<1>2. ASSUME NEW p \in Planners, CreateWorkingRevision(p)
      PROVE  TypeInv'
  BY <1>2, CreateType
<1>3. ASSUME NEW p \in Planners, NEW r \in Revisions, PrepareOverview(p, r)
      PROVE  TypeInv'
  BY <1>3, PrepareType
<1>4. ASSUME NEW p \in Planners, NEW r \in Revisions, MarkReady(p, r) \/ ReturnToDraft(p, r)
      PROVE  TypeInv'
  BY <1>4, WorkingTransitionType
<1>5. ASSUME NEW p \in Planners, NEW r \in Revisions, Abandon(p, r)
      PROVE  TypeInv'
  BY <1>5, AbandonType
<1>6. ASSUME NEW p \in Planners, NEW r \in Revisions, Restore(p, r)
      PROVE  TypeInv'
  BY <1>6, RestoreType
<1>7. ASSUME NEW p \in Planners, NEW r \in Revisions, Publish(p, r)
      PROVE  TypeInv'
  BY <1>7, PublishType
<1>8. ASSUME \/ \E p \in Planners, r \in Revisions : PublishFlushFails(p, r)
             \/ \E r \in Revisions, t \in Teaching : EditTeaching(r, t)
             \/ \E r \in Revisions, e \in Exams : EditExams(r, e)
             \/ \E c \in Cohorts : MoveCourse(c)
      PROVE  TypeInv'
  BY <1>8, EditType
<1>9. CASE UNCHANGED vars
  BY <1>9 DEF vars, TypeInv, TypeOK, RowsMatchStates
<1> QED
  BY <1>1, <1>2, <1>3, <1>4, <1>5, <1>6, <1>7, <1>8, <1>9 DEF Next

(* Every reachable state is well typed and every inactive row holds the    *)
(* snapshot it was frozen with (models/planning.py ScheduleRevision).      *)
THEOREM TypeInvariant == Spec => []TypeInv
BY TypeInvInit, TypeStep, PTL DEF Spec

(* Type correctness, for any number of planners and revisions. *)
THEOREM TypeCorrect == Spec => []TypeOK
<1>1. TypeInv => TypeOK
  BY DEF TypeInv
<1> QED
  BY <1>1, TypeInvariant, PTL
-----------------------------------------------------------------------------
(***************************************************************************)
(* One working revision, one publication.                                  *)
(***************************************************************************)
LEMMA SingleInit == Init => SingleWorkingSinglePublished
BY DEF Init, AbsentRow, SingleWorkingSinglePublished, Working, Published, WORKING_STATES

LEMMA SingleStep ==
  TypeInv /\ SingleWorkingSinglePublished /\ [Next]_vars => SingleWorkingSinglePublished'
<1> SUFFICES ASSUME TypeInv, SingleWorkingSinglePublished, [Next]_vars
             PROVE  SingleWorkingSinglePublished'
  OBVIOUS
<1> USE DEF SingleWorkingSinglePublished
<1>1. rows \in [Revisions -> Row]
  BY DEF TypeInv, TypeOK
<1>2. ASSUME UNCHANGED rows
      PROVE  SingleWorkingSinglePublished'
  BY <1>2 DEF Working, Published
<1>3. ASSUME NEW p \in Planners, CreateWorkingRevision(p)
      PROVE  SingleWorkingSinglePublished'
  <2>1. PICK r \in Revisions, origin \in Revisions \cup {NoRevision} :
          Working = {} /\ rows' = [rows EXCEPT ![r] = NewDraft(origin)]
    BY <1>3 DEF CreateWorkingRevision, Published
  <2> QED
    BY <1>1, <2>1 DEF NewDraft, Working, Published, WORKING_STATES
<1>4. ASSUME NEW p \in Planners, NEW r \in Revisions,
             MarkReady(p, r) \/ ReturnToDraft(p, r) \/ Abandon(p, r)
      PROVE  SingleWorkingSinglePublished'
  <2>1. r \in Working
    BY <1>4 DEF MarkReady, ReturnToDraft, Abandon, Working, WORKING_STATES
  <2>2. PICK to \in WORKING_STATES \cup {"abandoned"} :
          \E snapshot : rows' = [rows EXCEPT ![r] = Moved(r, to, snapshot)]
    BY <1>4 DEF MarkReady, ReturnToDraft, Abandon, Transition, WORKING_STATES
  <2> QED
    BY <1>1, <2>1, <2>2 DEF Moved, Working, Published, WORKING_STATES
<1>5. ASSUME NEW p \in Planners, NEW r \in Revisions, Restore(p, r)
      PROVE  SingleWorkingSinglePublished'
  BY <1>1, <1>5 DEF Restore, Transition, Moved, Working, Published, WORKING_STATES
<1>6. ASSUME NEW p \in Planners, NEW r \in Revisions, Publish(p, r)
      PROVE  SingleWorkingSinglePublished'
  <2>1. Published' = {r} /\ Working' \subseteq Working
    BY <1>6 DEF Publish, SupersedeAndPublish, Moved, Working, Published, WORKING_STATES
  <2> QED
    BY <2>1
<1>7. ASSUME \/ \E p \in Planners : ReadOverview(p) \/ PrepareContent(p) \/ CloseDialog(p)
             \/ \E p \in Planners, r \in Revisions :
                  PrepareOverview(p, r) \/ PublishFlushFails(p, r)
             \/ \E r \in Revisions, t \in Teaching : EditTeaching(r, t)
             \/ \E r \in Revisions, e \in Exams : EditExams(r, e)
             \/ \E c \in Cohorts : MoveCourse(c)
      PROVE  UNCHANGED rows
  BY <1>7 DEF ReadOverview, PrepareContent, CloseDialog, PrepareOverview, PublishFlushFails,
              EditTeaching, EditExams, MoveCourse, tables
<1> QED
  BY <1>2, <1>3, <1>4, <1>5, <1>6, <1>7 DEF Next, vars

(* Whatever requests any number of planners repeat, lose or send with an   *)
(* old view, at most one revision is worked on and at most one is the      *)
(* current publication.                                                    *)
THEOREM AtMostOneOfEach == Spec => []SingleWorkingSinglePublished
BY SingleInit, SingleStep, TypeInvariant, PTL DEF Spec
-----------------------------------------------------------------------------
(***************************************************************************)
(* Saved work survives.                                                    *)
(***************************************************************************)
LEMMA SavedInit == Init => SavedContentSurvives
BY DEF Init, AbsentRow, SavedContentSurvives, Exists

LEMMA SavedStep ==
  TypeInv /\ SingleWorkingSinglePublished /\ SavedContentSurvives /\ [Next]_vars
    => SavedContentSurvives'
<1> SUFFICES ASSUME TypeInv, SingleWorkingSinglePublished, SavedContentSurvives, [Next]_vars
             PROVE  SavedContentSurvives'
  OBVIOUS
<1> USE DEF SavedContentSurvives, Exists
<1>1. /\ rows \in [Revisions -> Row]
      /\ saved \in [Revisions -> Content]
      /\ \A q, r \in Working : q = r
  BY DEF TypeInv, TypeOK, SingleWorkingSinglePublished
<1>2. ASSUME UNCHANGED <<rows, live, saved>>
      PROVE  SavedContentSurvives'
  BY <1>2 DEF Working
<1>3. ASSUME NEW p \in Planners, CreateWorkingRevision(p)
      PROVE  SavedContentSurvives'
  <2>1. PICK r \in Revisions, origin \in Revisions \cup {NoRevision} :
          /\ Working = {}
          /\ rows' = [rows EXCEPT ![r] = NewDraft(origin)]
          /\ saved' = [saved EXCEPT ![r] = live']
    BY <1>3 DEF CreateWorkingRevision, Published
  <2> QED
    BY <1>1, <2>1 DEF NewDraft, Working, WORKING_STATES
<1>4. ASSUME NEW p \in Planners, NEW r \in Revisions, MarkReady(p, r) \/ ReturnToDraft(p, r)
      PROVE  SavedContentSurvives'
  <2>1. PICK to \in WORKING_STATES :
          /\ rows' = [rows EXCEPT ![r] = Moved(r, to, rows[r].snapshot)]
          /\ rows[r].state \in WORKING_STATES
          /\ UNCHANGED <<live, saved>>
    BY <1>4 DEF MarkReady, ReturnToDraft, Transition, WORKING_STATES
  <2> QED
    BY <1>1, <2>1 DEF Moved, Working, WORKING_STATES
<1>5. ASSUME NEW p \in Planners, NEW r \in Revisions, Abandon(p, r)
      PROVE  SavedContentSurvives'
  BY <1>1, <1>5 DEF Abandon, Moved, BuildSnapshot, Working, WORKING_STATES
<1>6. ASSUME NEW p \in Planners, NEW r \in Revisions, Restore(p, r)
      PROVE  SavedContentSurvives'
  BY <1>1, <1>6 DEF Restore, Transition, Moved, Working, WORKING_STATES
<1>7. ASSUME NEW p \in Planners, NEW r \in Revisions, Publish(p, r)
      PROVE  SavedContentSurvives'
  <2>1. r \in Working /\ rows' = SupersedeAndPublish(r) /\ UNCHANGED <<live, saved>>
    BY <1>7 DEF Publish, PublicationAccepted
  <2> QED
    BY <1>1, <2>1 DEF SupersedeAndPublish, Moved, BuildSnapshot, Working, Published,
                      WORKING_STATES
<1>8. ASSUME NEW r \in Revisions,
             (\E t \in Teaching : EditTeaching(r, t)) \/ (\E e \in Exams : EditExams(r, e))
      PROVE  SavedContentSurvives'
  <2>1. r \in Working /\ UNCHANGED rows /\ saved' = [saved EXCEPT ![r] = live']
    BY <1>8 DEF EditTeaching, EditExams
  <2> QED
    BY <1>1, <2>1 DEF Working
<1>9. ASSUME \/ \E p \in Planners : ReadOverview(p) \/ PrepareContent(p) \/ CloseDialog(p)
             \/ \E p \in Planners, r \in Revisions :
                  PrepareOverview(p, r) \/ PublishFlushFails(p, r)
             \/ \E c \in Cohorts : MoveCourse(c)
      PROVE  UNCHANGED <<rows, live, saved>>
  BY <1>9 DEF ReadOverview, PrepareContent, CloseDialog, PrepareOverview, PublishFlushFails,
              MoveCourse, tables
<1> QED
  BY <1>2, <1>3, <1>4, <1>5, <1>6, <1>7, <1>8, <1>9 DEF Next, vars

(* Nothing saved under a revision is lost or mixed with another revision's *)
(* work, through any sequence of abandonments, restorations, publications  *)
(* and new revisions.                                                      *)
THEOREM SavedWorkSurvives == Spec => []SavedContentSurvives
BY SavedInit, SavedStep, TypeInvariant, AtMostOneOfEach, PTL DEF Spec
-----------------------------------------------------------------------------
(***************************************************************************)
(* A state token stands for a prefix of the history.                       *)
(*                                                                         *)
(* Row versions only grow, and every step that lengthens the history makes *)
(* the version of some row grow.  So a token read when the history was     *)
(* shorter names an older version of some row and cannot be current.       *)
(***************************************************************************)
TokenAge ==
  \A p \in Planners :
    /\ heldAt[p] <= Len(events)
    /\ \A r \in Revisions : held[p][r].version <= rows[r].version
    /\ heldAt[p] < Len(events) =>
         \E r \in Revisions : held[p][r].version < rows[r].version

LEMMA TokenAgeInit == Init => TokenAge
BY DEF Init, TokenAge, StateToken, AbsentRow

LEMMA TokenAgePins == TypeInv /\ TokenAge => TokenPinsHistory
<1> SUFFICES ASSUME TypeInv, TokenAge, NEW p \in Planners, held[p] = StateToken
             PROVE  heldAt[p] = Len(events)
  BY DEF TokenPinsHistory
<1>1. Len(events) \in Nat /\ heldAt[p] \in Nat /\ rows \in [Revisions -> Row]
  BY LenProperties DEF TypeInv, TypeOK
<1>2. \A r \in Revisions : held[p][r].version = rows[r].version
  BY DEF StateToken
<1>3. \A r \in Revisions : ~ (held[p][r].version < rows[r].version)
  BY <1>1, <1>2 DEF Row
<1>4. ~ (heldAt[p] < Len(events))
  BY <1>3 DEF TokenAge
<1> QED
  BY <1>1, <1>4 DEF TokenAge
(* What a transition does to the ages of the tokens. *)
Advances ==
  /\ Len(events') > Len(events)
  /\ \A r \in Revisions : rows[r].version <= rows'[r].version
  /\ \E r \in Revisions : rows[r].version < rows'[r].version

LEMMA AdvanceKeepsAge ==
  ASSUME TypeInv, TypeInv', TokenAge, Advances, NEW p \in Planners, Answered(p)
  PROVE  TokenAge'
<1>1. /\ held \in [Planners -> StateTokens]
      /\ heldAt \in [Planners -> Nat]
      /\ rows \in [Revisions -> Row] /\ rows' \in [Revisions -> Row]
      /\ Len(events) \in Nat /\ Len(events') \in Nat
  BY LenProperties DEF TypeInv, TypeOK
<1>2. \A q \in Planners, r \in Revisions : held[q][r].version \in Nat
  BY <1>1 DEF StateTokens
<1>3. \A r \in Revisions : rows[r].version \in Nat /\ rows'[r].version \in Nat
  BY <1>1 DEF Row
<1>4. SUFFICES ASSUME NEW q \in Planners
      PROVE  /\ heldAt'[q] <= Len(events')
             /\ \A r \in Revisions : held'[q][r].version <= rows'[r].version
             /\ heldAt'[q] < Len(events') =>
                  \E r \in Revisions : held'[q][r].version < rows'[r].version
  BY DEF TokenAge
<1>5. CASE held'[q] = held[q] /\ heldAt'[q] = heldAt[q]
  <2>1. heldAt[q] <= Len(events) /\ \A r \in Revisions : held[q][r].version <= rows[r].version
    BY DEF TokenAge
  <2>2. PICK r \in Revisions : rows[r].version < rows'[r].version
    BY DEF Advances
  <2>3. held[q][r].version < rows'[r].version
    BY <1>2, <1>3, <2>1, <2>2
  <2>4. \A s \in Revisions : held[q][s].version <= rows'[s].version
    BY <1>2, <1>3, <2>1 DEF Advances
  <2>5. heldAt[q] <= Len(events')
    BY <1>1, <2>1 DEF Advances
  <2> QED
    BY <1>5, <2>3, <2>4, <2>5
<1>6. CASE held'[q] = StateToken' /\ heldAt'[q] = Len(events')
  <2>1. \A r \in Revisions : StateToken'[r].version = rows'[r].version
    BY DEF StateToken
  <2> QED
    BY <1>1, <1>3, <1>6, <2>1
<1> QED
  BY <1>1, <1>5, <1>6 DEF Answered, browser

LEMMA TransitionAdvances ==
  ASSUME TypeInv, NEW p \in Planners, NEW r \in Revisions,
         \/ CreateWorkingRevision(p) \/ MarkReady(p, r) \/ ReturnToDraft(p, r)
         \/ Abandon(p, r) \/ Restore(p, r) \/ Publish(p, r)
  PROVE  Advances /\ Answered(p)
<1>1. /\ rows \in [Revisions -> Row] /\ events \in Seq(Event)
      /\ \A q \in Revisions : rows[q].version \in Nat /\ rows[q].state \in States
      /\ \A q \in Revisions : rows[q].state = "absent" => rows[q].version = 0
  BY DEF TypeInv, TypeOK, Row, RowsMatchStates, AbsentRow
<1>2. ASSUME NEW type \in EventTypes, NEW from \in States, NEW to \in States, NEW q \in Revisions
      PROVE  Len(Append(events, EventRecord(q, type, from, to))) > Len(events)
  BY <1>1, EventRecordType, HistoryGrows
<1>3. CASE CreateWorkingRevision(p)
  <2>1. PICK q \in Revisions, origin \in Revisions \cup {NoRevision} :
          /\ rows[q].state = "absent"
          /\ rows' = [rows EXCEPT ![q] = NewDraft(origin)]
          /\ events' = Append(events, EventRecord(q, "created", "absent", "draft"))
          /\ Answered(p)
    BY <1>3 DEF CreateWorkingRevision, Published
  <2>2. Len(events') > Len(events)
    BY <1>2, <2>1 DEF EventTypes, States, WORKING_STATES
  <2> QED
    BY <1>1, <2>1, <2>2 DEF NewDraft, Advances
<1>4. CASE MarkReady(p, r) \/ ReturnToDraft(p, r) \/ Abandon(p, r) \/ Restore(p, r)
  <2>1. PICK type \in EventTypes, to \in States : \E snapshot :
          /\ rows' = [rows EXCEPT ![r] = Moved(r, to, snapshot)]
          /\ events' = Append(events, EventRecord(r, type, rows[r].state, to))
          /\ Answered(p)
    BY <1>4 DEF MarkReady, ReturnToDraft, Abandon, Restore, Transition, EventTypes, States,
                WORKING_STATES
  <2>2. Len(events') > Len(events)
    BY <1>1, <1>2, <2>1
  <2> QED
    BY <1>1, <2>1, <2>2 DEF Moved, Advances
<1>5. CASE Publish(p, r)
  <2> DEFINE published == EventRecord(r, "published", rows[r].state, "published")
  <2>1. published \in Event
    BY <1>1, EventRecordType DEF EventTypes, States
  <2>2. \A current \in Published :
          EventRecord(current, "superseded", "published", "superseded") \in Event
    BY EventRecordType DEF Published, EventTypes, States
  <2>3. Len(events') > Len(events)
    <3>1. CASE events' = Append(events, published)
      BY <1>1, <2>1, <3>1, HistoryGrows
    <3>2. CASE \E current \in Published :
            events' = events \o <<EventRecord(current, "superseded", "published", "superseded"),
                                  published>>
      BY <1>1, <2>1, <2>2, <3>2, HistoryGrows
    <3> QED
      BY <1>5, <3>1, <3>2 DEF Publish
  <2> QED
    BY <1>1, <1>5, <2>3 DEF Publish, SupersedeAndPublish, Moved, Advances
<1> QED
  BY <1>3, <1>4, <1>5

LEMMA TokenAgeStep ==
  TypeInv /\ TypeInv' /\ TokenAge /\ [Next]_vars => TokenAge'
<1> SUFFICES ASSUME TypeInv, TypeInv', TokenAge, [Next]_vars PROVE TokenAge'
  OBVIOUS
<1>1. ASSUME NEW p \in Planners, NEW r \in Revisions,
             \/ CreateWorkingRevision(p) \/ MarkReady(p, r) \/ ReturnToDraft(p, r)
             \/ Abandon(p, r) \/ Restore(p, r) \/ Publish(p, r)
      PROVE  TokenAge'
  BY <1>1, TransitionAdvances, AdvanceKeepsAge
<1>2. ASSUME NEW p \in Planners, CreateWorkingRevision(p)
      PROVE  \E r \in Revisions : TRUE
  BY <1>2 DEF CreateWorkingRevision
<1>3. ASSUME NEW p \in Planners, ReadOverview(p)
      PROVE  TokenAge'
  <2>1. \A r \in Revisions : StateToken[r].version = rows[r].version
    BY DEF StateToken
  <2>2. Len(events) \in Nat /\ \A r \in Revisions : rows[r].version \in Nat
    BY LenProperties DEF TypeInv, TypeOK, Row
  <2>3. /\ held \in [Planners -> StateTokens] /\ heldAt \in [Planners -> Nat]
        /\ held' = [held EXCEPT ![p] = StateToken]
        /\ heldAt' = [heldAt EXCEPT ![p] = Len(events)]
        /\ UNCHANGED <<rows, events>>
    BY <1>3 DEF ReadOverview, tables, TypeInv, TypeOK
  <2> QED
    BY <2>1, <2>2, <2>3 DEF TokenAge
<1>4. ASSUME \/ \E p \in Planners : PrepareContent(p) \/ CloseDialog(p)
             \/ \E p \in Planners, r \in Revisions :
                  PrepareOverview(p, r) \/ PublishFlushFails(p, r)
             \/ \E r \in Revisions, t \in Teaching : EditTeaching(r, t)
             \/ \E r \in Revisions, e \in Exams : EditExams(r, e)
             \/ \E c \in Cohorts : MoveCourse(c)
      PROVE  UNCHANGED <<rows, events, held, heldAt>>
  BY <1>4 DEF PrepareContent, CloseDialog, PrepareOverview, PublishFlushFails,
              EditTeaching, EditExams, MoveCourse, tables, browser
<1>5. ASSUME UNCHANGED <<rows, events, held, heldAt>>
      PROVE  TokenAge'
  BY <1>5 DEF TokenAge
<1> QED
  BY <1>1, <1>2, <1>3, <1>4, <1>5 DEF Next, vars

(* A request whose expectations are current acts on exactly the history    *)
(* its planner saw: no other transition slipped in between.                *)
THEOREM CurrentTokenIsFresh == Spec => []TokenPinsHistory
<1>1. Spec => []TokenAge
  BY TokenAgeInit, TokenAgeStep, TypeInvariant, PTL DEF Spec
<1> QED
  BY <1>1, TokenAgePins, TypeInvariant, PTL
-----------------------------------------------------------------------------
(***************************************************************************)
(* The lifecycle implements RevisionStates.                                *)
(***************************************************************************)
AbstractState == [r \in Revisions |-> rows[r].state]
AbstractFrozen == [r \in Revisions |-> IF r \in Working THEN NoSnapshot ELSE rows[r].snapshot]

LEMMA AbstractInit == Init => Abstract!Init
BY DEF Init, AbsentRow, Working, WORKING_STATES, Abstract!Init

LEMMA AbstractWorking ==
  ASSUME TypeInv
  PROVE  /\ Abstract!Working = Working
         /\ Abstract!Published = Published
BY DEF Abstract!Working, Abstract!Published, Abstract!WORKING_STATES, Working, Published,
       WORKING_STATES

LEMMA AbstractStutter ==
  ASSUME UNCHANGED rows
  PROVE  UNCHANGED Abstract!vars
BY DEF Abstract!vars, Working

LEMMA AbstractStart ==
  ASSUME TypeInv, NEW p \in Planners, CreateWorkingRevision(p)
  PROVE  Abstract!Next
<1>1. PICK r \in Revisions, origin \in Revisions \cup {NoRevision} :
        /\ rows[r].state = "absent"
        /\ Working = {}
        /\ rows' = [rows EXCEPT ![r] = NewDraft(origin)]
  BY DEF CreateWorkingRevision, Published
<1>2. rows \in [Revisions -> Row] /\ rows[r].snapshot = NoSnapshot
  BY <1>1 DEF TypeInv, TypeOK, RowsMatchStates, AbsentRow
<1>3. AbstractState' = [AbstractState EXCEPT ![r] = "draft"]
  BY <1>1, <1>2 DEF AbstractState, NewDraft
<1>4. AbstractFrozen' = AbstractFrozen
  BY <1>1, <1>2 DEF AbstractFrozen, NewDraft, Working, WORKING_STATES
<1>5. Abstract!Start(r)
  BY <1>1, <1>3, <1>4, AbstractWorking DEF Abstract!Start, AbstractState, AbstractFrozen
<1> QED
  BY <1>5 DEF Abstract!Next, Abstract!Step

LEMMA AbstractTransition ==
  ASSUME TypeInv, NEW p \in Planners, NEW r \in Revisions,
         MarkReady(p, r) \/ ReturnToDraft(p, r) \/ Restore(p, r)
  PROVE  Abstract!Next
<1>1. rows \in [Revisions -> Row]
  BY DEF TypeInv, TypeOK
<1>2. CASE MarkReady(p, r)
  <2>1. AbstractState' = [AbstractState EXCEPT ![r] = "ready_for_review"]
    BY <1>1, <1>2 DEF MarkReady, Transition, Moved, AbstractState
  <2>2. AbstractFrozen' = AbstractFrozen
    BY <1>1, <1>2 DEF MarkReady, Transition, Moved, AbstractFrozen, Working, WORKING_STATES
  <2>3. Abstract!MarkReady(r)
    BY <1>2, <2>1, <2>2 DEF MarkReady, Abstract!MarkReady, AbstractState, AbstractFrozen
  <2> QED
    BY <2>3 DEF Abstract!Next, Abstract!Step
<1>3. CASE ReturnToDraft(p, r)
  <2>1. AbstractState' = [AbstractState EXCEPT ![r] = "draft"]
    BY <1>1, <1>3 DEF ReturnToDraft, Transition, Moved, AbstractState
  <2>2. AbstractFrozen' = AbstractFrozen
    BY <1>1, <1>3 DEF ReturnToDraft, Transition, Moved, AbstractFrozen, Working, WORKING_STATES
  <2>3. Abstract!ReturnToDraft(r)
    BY <1>3, <2>1, <2>2 DEF ReturnToDraft, Abstract!ReturnToDraft, AbstractState, AbstractFrozen
  <2> QED
    BY <2>3 DEF Abstract!Next, Abstract!Step
<1>4. CASE Restore(p, r)
  <2>1. AbstractState' = [AbstractState EXCEPT ![r] = "draft"]
    BY <1>1, <1>4 DEF Restore, Transition, Moved, AbstractState
  <2>2. AbstractFrozen' = [AbstractFrozen EXCEPT ![r] = NoSnapshot]
    BY <1>1, <1>4 DEF Restore, Transition, Moved, AbstractFrozen, Working, WORKING_STATES
  <2>3. Abstract!Restore(r)
    BY <1>4, <2>1, <2>2, AbstractWorking
       DEF Restore, Abstract!Restore, AbstractState, AbstractFrozen
  <2> QED
    BY <2>3 DEF Abstract!Next, Abstract!Step
<1> QED
  BY <1>2, <1>3, <1>4

LEMMA AbstractFreeze ==
  ASSUME TypeInv, NEW p \in Planners, NEW r \in Revisions, Abandon(p, r) \/ Publish(p, r)
  PROVE  Abstract!Next
<1>1. rows \in [Revisions -> Row]
  BY DEF TypeInv, TypeOK
<1> PICK c \in Snapshot : c = BuildSnapshot
  BY SnapshotType DEF TypeInv
<1>2. CASE Abandon(p, r)
  <2>1. AbstractState' = [AbstractState EXCEPT ![r] = "abandoned"]
    BY <1>1, <1>2 DEF Abandon, Moved, AbstractState
  <2>2. AbstractFrozen' = [AbstractFrozen EXCEPT ![r] = c]
    BY <1>1, <1>2 DEF Abandon, Moved, AbstractFrozen, Working, WORKING_STATES
  <2>3. Abstract!Abandon(r, c)
    BY <1>2, <2>1, <2>2
       DEF Abandon, Working, WORKING_STATES, Abstract!Abandon, Abstract!WORKING_STATES,
           AbstractState, AbstractFrozen
  <2> QED
    BY <2>3 DEF Abstract!Next, Abstract!Step
<1>3. CASE Publish(p, r)
  <2>1. r \in Working /\ rows' = SupersedeAndPublish(r)
    BY <1>3 DEF Publish, PublicationAccepted
  <2>2. AbstractState' = [q \in Revisions |->
          IF q = r THEN "published"
          ELSE IF AbstractState[q] = "published" THEN "superseded" ELSE AbstractState[q]]
    BY <1>1, <2>1 DEF SupersedeAndPublish, Moved, Published, AbstractState
  <2>3. AbstractFrozen' = [AbstractFrozen EXCEPT ![r] = c]
    BY <1>1, <2>1 DEF SupersedeAndPublish, Moved, Published, AbstractFrozen, Working,
                      WORKING_STATES
  <2>4. Abstract!Publish(r, c)
    BY <2>1, <2>2, <2>3
       DEF Working, WORKING_STATES, Abstract!Publish, Abstract!WORKING_STATES,
           AbstractState, AbstractFrozen
  <2> QED
    BY <2>4 DEF Abstract!Next, Abstract!Step
<1> QED
  BY <1>2, <1>3

LEMMA AbstractStep == TypeInv /\ [Next]_vars => [Abstract!Next]_Abstract!vars
<1> SUFFICES ASSUME TypeInv, [Next]_vars PROVE Abstract!Next \/ UNCHANGED Abstract!vars
  OBVIOUS
<1>1. ASSUME NEW p \in Planners, CreateWorkingRevision(p)
      PROVE  Abstract!Next
  BY <1>1, AbstractStart
<1>2. ASSUME NEW p \in Planners, NEW r \in Revisions,
             \/ MarkReady(p, r) \/ ReturnToDraft(p, r) \/ Restore(p, r)
             \/ Abandon(p, r) \/ Publish(p, r)
      PROVE  Abstract!Next
  BY <1>2, AbstractTransition, AbstractFreeze
<1>3. ASSUME \/ \E p \in Planners : ReadOverview(p) \/ PrepareContent(p) \/ CloseDialog(p)
             \/ \E p \in Planners, r \in Revisions :
                  PrepareOverview(p, r) \/ PublishFlushFails(p, r)
             \/ \E r \in Revisions, t \in Teaching : EditTeaching(r, t)
             \/ \E r \in Revisions, e \in Exams : EditExams(r, e)
             \/ \E c \in Cohorts : MoveCourse(c)
             \/ UNCHANGED vars
      PROVE  UNCHANGED Abstract!vars
  <2>1. UNCHANGED rows
    BY <1>3 DEF ReadOverview, PrepareContent, CloseDialog, PrepareOverview, PublishFlushFails,
                EditTeaching, EditExams, MoveCourse, tables, vars
  <2> QED
    BY <2>1, AbstractStutter
<1> QED
  BY <1>1, <1>2, <1>3 DEF Next

(* Every behaviour of the transition handlers is one that the abstract     *)
(* register of revision states allows: what was frozen stays frozen, and a *)
(* publication replaces the former one in one step.                        *)
THEOREM Refinement == Spec => ImplementsRevisionStates
<1>1. Spec => Abstract!Init /\ [][Abstract!Next]_Abstract!vars
  BY AbstractInit, AbstractStep, TypeInvariant, PTL DEF Spec
<1> QED
  BY <1>1 DEF ImplementsRevisionStates, Abstract!Spec

(* A step of the register loses a publication only by replacing it. *)
LEMMA PublicationKept ==
  ASSUME TypeInv, [Next]_vars, Published # {}
  PROVE  /\ Published' # {}
         /\ \A r \in Published : r \notin Published' =>
              \E q \in Published' : q \in Working /\ rows[r]'.state = "superseded"
<1>1. rows \in [Revisions -> Row]
  BY DEF TypeInv, TypeOK
<1>2. ASSUME NEW p \in Planners, NEW r \in Revisions, Publish(p, r)
      PROVE  /\ r \in Published' /\ r \in Working
             /\ \A q \in Published : q \notin Published' => rows'[q].state = "superseded"
  BY <1>2 DEF Publish, PublicationAccepted, SupersedeAndPublish, Moved, Published
<1>3. ASSUME NEW p \in Planners, CreateWorkingRevision(p)
      PROVE  Published \subseteq Published'
  <2>1. PICK r \in Revisions, origin \in Revisions \cup {NoRevision} :
          rows[r].state = "absent" /\ rows' = [rows EXCEPT ![r] = NewDraft(origin)]
    BY <1>3 DEF CreateWorkingRevision, Published
  <2> QED
    BY <1>1, <2>1 DEF Published
<1>4. ASSUME NEW p \in Planners, NEW r \in Revisions,
             MarkReady(p, r) \/ ReturnToDraft(p, r) \/ Abandon(p, r) \/ Restore(p, r)
      PROVE  Published \subseteq Published'
  BY <1>1, <1>4 DEF MarkReady, ReturnToDraft, Abandon, Restore, Transition, Working, Published,
                    WORKING_STATES
<1>5. ASSUME \/ \E p \in Planners : ReadOverview(p) \/ PrepareContent(p) \/ CloseDialog(p)
             \/ \E p \in Planners, r \in Revisions :
                  PrepareOverview(p, r) \/ PublishFlushFails(p, r)
             \/ \E r \in Revisions, t \in Teaching : EditTeaching(r, t)
             \/ \E r \in Revisions, e \in Exams : EditExams(r, e)
             \/ \E c \in Cohorts : MoveCourse(c)
             \/ UNCHANGED vars
      PROVE  Published \subseteq Published'
  BY <1>5 DEF ReadOverview, PrepareContent, CloseDialog, PrepareOverview, PublishFlushFails,
              EditTeaching, EditExams, MoveCourse, tables, vars, Published
<1> QED
  BY <1>2, <1>3, <1>4, <1>5 DEF Next

(* Once the semester has a current publication it always has one, and the  *)
(* former one is superseded in the step that publishes a working revision. *)
THEOREM PublicationIsNeverLost == Spec => PublicationNeverLost
<1> DEFINE Keeps ==
      Published # {} =>
        /\ Published' # {}
        /\ \A r \in Published : r \notin Published' =>
             \E q \in Published' : q \in Working /\ rows[r]'.state = "superseded"
<1>1. TypeInv /\ [Next]_vars => [Keeps]_vars
  BY PublicationKept
<1>2. Spec => [][Keeps]_vars
  BY <1>1, TypeInvariant, PTL DEF Spec
<1> QED
  BY <1>2 DEF PublicationNeverLost

(* A dialog that a publication accepts showed what becomes public.         *)
LEMMA ShownIsPublished ==
  ASSUME TypeInv, [Next]_vars, NEW r \in Revisions, r \notin Published, r \in Published'
  PROVE  \E p \in Planners :
           /\ preparation[p] \in ShownDialog
           /\ preparation[p].token.revision = r
           /\ preparation[p].token.snapshot.content = live
           /\ rows[r]'.snapshot = preparation[p].token.snapshot
<1>1. rows \in [Revisions -> Row]
  BY DEF TypeInv, TypeOK
<1>2. ASSUME NEW p \in Planners, NEW q \in Revisions, Publish(p, q)
      PROVE  /\ preparation[p] \in ShownDialog
             /\ preparation[p].token.revision = r
             /\ preparation[p].token.snapshot.content = live
             /\ rows[r]'.snapshot = preparation[p].token.snapshot
  <2>1. r = q
    BY <1>1, <1>2 DEF Publish, SupersedeAndPublish, Moved, Published
  <2>2. preparation[p] \in ShownDialog
    BY <1>2 DEF Publish, PublicationAccepted, TypeInv, TypeOK, ReadingDialog
  <2>3. preparation[p].token = PublicationToken(StateToken, q, BuildSnapshot)
    BY <1>2 DEF Publish, PublicationAccepted
  <2>4. rows'[q].snapshot = BuildSnapshot
    BY <1>2 DEF Publish, SupersedeAndPublish, Moved
  <2> QED
    BY <2>1, <2>2, <2>3, <2>4 DEF PublicationToken, BuildSnapshot
<1>3. ASSUME NEW p \in Planners, CreateWorkingRevision(p)
      PROVE  FALSE
  <2>1. PICK q \in Revisions, origin \in Revisions \cup {NoRevision} :
          rows' = [rows EXCEPT ![q] = NewDraft(origin)]
    BY <1>3 DEF CreateWorkingRevision, Published
  <2> QED
    BY <1>1, <2>1 DEF Published, NewDraft
<1>4. ASSUME NEW p \in Planners, NEW q \in Revisions,
             MarkReady(p, q) \/ ReturnToDraft(p, q) \/ Abandon(p, q) \/ Restore(p, q)
      PROVE  FALSE
  BY <1>1, <1>4 DEF MarkReady, ReturnToDraft, Abandon, Restore, Transition, Moved, Published
<1>5. ASSUME \/ \E p \in Planners : ReadOverview(p) \/ PrepareContent(p) \/ CloseDialog(p)
             \/ \E p \in Planners, q \in Revisions :
                  PrepareOverview(p, q) \/ PublishFlushFails(p, q)
             \/ \E q \in Revisions, t \in Teaching : EditTeaching(q, t)
             \/ \E q \in Revisions, e \in Exams : EditExams(q, e)
             \/ \E c \in Cohorts : MoveCourse(c)
             \/ UNCHANGED vars
      PROVE  FALSE
  BY <1>5 DEF ReadOverview, PrepareContent, CloseDialog, PrepareOverview, PublishFlushFails,
              EditTeaching, EditExams, MoveCourse, tables, vars, Published
<1> QED
  BY <1>2, <1>3, <1>4, <1>5 DEF Next

(* Whatever others save while prepare_publication reads, what a planner    *)
(* publishes is the content that the dialog showed as a whole.             *)
THEOREM WhatIsShownIsPublished == Spec => PublishedAsShown
<1> DEFINE Shown ==
      \A r \in Revisions :
        (r \notin Published /\ r \in Published') =>
          \E p \in Planners :
            /\ preparation[p] \in ShownDialog
            /\ preparation[p].token.revision = r
            /\ preparation[p].token.snapshot.content = live
            /\ rows[r]'.snapshot = preparation[p].token.snapshot
<1>1. TypeInv /\ [Next]_vars => [Shown]_vars
  BY ShownIsPublished
<1>2. Spec => [][Shown]_vars
  BY <1>1, TypeInvariant, PTL DEF Spec
<1> QED
  BY <1>2 DEF PublishedAsShown
-----------------------------------------------------------------------------
(***************************************************************************)
(* The history explains the rows, as facts about any history h and the     *)
(* rows that it leads to.                                                  *)
(***************************************************************************)
Of(h, r) == {i \in 1..Len(h) : h[i].revision = r}
LastOf(S, i) == i \in S /\ \A j \in S : j <= i

RowExplained(h, row, r) ==
  /\ row.version = Cardinality(Of(h, r))
  /\ Of(h, r) = {} => row.state = "absent"
  /\ \A i \in Of(h, r) : LastOf(Of(h, r), i) => row.state = h[i].to

Continues(h, i) ==
  LET before == {j \in Of(h, h[i].revision) : j < i}
  IN  /\ before = {} => h[i].type = "created"
      /\ before # {} => \E j \in before : LastOf(before, j) /\ h[i].from = h[j].to

Explained(h, table) ==
  /\ \A r \in Revisions : RowExplained(h, table[r], r)
  /\ \A i \in 1..Len(h) : Continues(h, i)

Supersessions(h) ==
  \A i \in 1..Len(h) : h[i].type = "superseded" =>
    i + 1 \in 1..Len(h) /\ h[i + 1].type = "published" /\ h[i + 1].revision # h[i].revision

LEMMA OfIsFinite ==
  ASSUME NEW h \in Seq(Event), NEW r
  PROVE  Of(h, r) \in SUBSET (1..Len(h)) /\ IsFiniteSet(Of(h, r)) /\ Cardinality(Of(h, r)) \in Nat
<1>1. Len(h) \in Nat
  OBVIOUS
<1>2. Of(h, r) \in SUBSET (1..Len(h))
  BY DEF Of
<1>3. IsFiniteSet(1..Len(h))
  BY <1>1, FS_Interval
<1> QED
  BY <1>2, <1>3, FS_Subset, FS_CardinalityType

LEMMA LastExists ==
  ASSUME NEW h \in Seq(Event), NEW r, Of(h, r) # {}
  PROVE  \E i \in Of(h, r) : LastOf(Of(h, r), i)
<1>1. Len(h) \in Nat /\ Of(h, r) \in SUBSET (1..Len(h))
  BY OfIsFinite
<1> QED
  BY <1>1, MaxExists DEF LastOf

(* One more event of r, which starts where its row is.                     *)
LEMMA ExplainedGrows ==
  ASSUME NEW h \in Seq(Event), NEW table, Explained(h, table),
         NEW r \in Revisions, NEW e \in Event, e.revision = r,
         table[r].state = "absent" => e.type = "created",
         e.from = table[r].state,
         NEW next, next[r].version = table[r].version + 1, next[r].state = e.to,
         \A q \in Revisions \ {r} : next[q].version = table[q].version
                                    /\ next[q].state = table[q].state
  PROVE  Explained(Append(h, e), next)
<1> DEFINE g == Append(h, e)
           n == Len(h) + 1
<1>1. /\ Len(h) \in Nat /\ Len(g) = n /\ g[n] = e /\ g \in Seq(Event)
      /\ \A i \in 1..Len(h) : g[i] = h[i]
  OBVIOUS
<1> HIDE DEF g
<1>2. Of(g, r) = Of(h, r) \cup {n}
  BY <1>1 DEF Of
<1>3. \A q \in Revisions \ {r} : Of(g, q) = Of(h, q)
  BY <1>1 DEF Of
<1>4. /\ Of(h, r) \in SUBSET (1..Len(h)) /\ IsFiniteSet(Of(h, r)) /\ n \notin Of(h, r)
      /\ Cardinality(Of(h, r)) \in Nat
  BY <1>1, OfIsFinite
<1>5. Cardinality(Of(g, r)) = Cardinality(Of(h, r)) + 1
  <2> DEFINE S == Of(h, r)
  <2>1. IsFiniteSet(S) /\ n \notin S
    BY <1>4
  <2> HIDE DEF S, n
  <2>2. Cardinality(S \cup {n}) = Cardinality(S) + 1
    BY <2>1, FS_AddElement
  <2> QED
    BY <1>2, <2>2 DEF S
<1>6. RowExplained(g, next[r], r)
  <2>1. RowExplained(h, table[r], r)
    BY DEF Explained
  <2>2. \A i \in Of(g, r) : LastOf(Of(g, r), i) => i = n
    BY <1>1, <1>2, <1>4 DEF LastOf
  <2> QED
    BY <1>1, <1>2, <1>5, <2>1, <2>2 DEF RowExplained
<1>7. \A q \in Revisions \ {r} : RowExplained(g, next[q], q)
  <2> TAKE q \in Revisions \ {r}
  <2>1. RowExplained(h, table[q], q)
    BY DEF Explained
  <2>2. Of(h, q) \in SUBSET (1..Len(h))
    BY OfIsFinite
  <2> QED
    BY <1>1, <1>3, <2>1, <2>2 DEF RowExplained
<1>8. \A i \in 1..Len(h) : Continues(g, i)
  <2> TAKE i \in 1..Len(h)
  <2> DEFINE before == {j \in Of(h, h[i].revision) : j < i}
             beforeInG == {j \in Of(g, g[i].revision) : j < i}
  <2>1. beforeInG = before
    BY <1>1 DEF Of
  <2>2. Continues(h, i)
    BY DEF Explained
  <2>3. \A j \in before : g[j] = h[j]
    BY <1>1 DEF Of
  <2>4. before = {} => h[i].type = "created"
    BY <2>2 DEF Continues
  <2>5. before # {} => \E j \in before : LastOf(before, j) /\ h[i].from = h[j].to
    BY <2>2 DEF Continues
  <2>6. /\ beforeInG = {} => g[i].type = "created"
        /\ beforeInG # {} => \E j \in beforeInG : LastOf(beforeInG, j) /\ g[i].from = g[j].to
    <3> HIDE DEF before, beforeInG
    <3> QED BY <1>1, <2>1, <2>3, <2>4, <2>5
  <2> QED
    BY <2>6 DEF Continues
<1>9. Continues(g, n)
  <2> DEFINE before == {j \in Of(g, g[n].revision) : j < n}
  <2>1. before = Of(h, r)
    BY <1>1, <1>2, <1>4
  <2>2. RowExplained(h, table[r], r)
    BY DEF Explained
  <2>3. Of(h, r) = {} => e.type = "created"
    BY <2>2 DEF RowExplained
  <2>4. Of(h, r) # {} => \E j \in Of(h, r) : LastOf(Of(h, r), j) /\ e.from = h[j].to
    BY <2>2, LastExists DEF RowExplained
  <2>5. \A j \in Of(h, r) : g[j] = h[j]
    BY <1>1, <1>4
  <2>6. /\ before = {} => g[n].type = "created"
        /\ before # {} => \E j \in before : LastOf(before, j) /\ g[n].from = g[j].to
    <3> HIDE DEF before
    <3> QED BY <1>1, <2>1, <2>3, <2>4, <2>5
  <2> QED
    BY <2>6 DEF Continues
<1>10. \A i \in 1..Len(g) : Continues(g, i)
  BY <1>1, <1>8, <1>9
<1> QED
  BY <1>6, <1>7, <1>10 DEF Explained, g

LEMMA SupersessionsGrow ==
  ASSUME NEW h \in Seq(Event), Supersessions(h), NEW e \in Event, e.type # "superseded"
  PROVE  Supersessions(Append(h, e))
<1> DEFINE g == Append(h, e)
           n == Len(h) + 1
<1>1. /\ Len(h) \in Nat /\ Len(g) = n /\ g[n] = e /\ \A i \in 1..Len(h) : g[i] = h[i]
  OBVIOUS
<1> HIDE DEF g
<1>2. ASSUME NEW i \in 1..Len(g), g[i].type = "superseded"
      PROVE  i + 1 \in 1..Len(g) /\ g[i + 1].type = "published" /\ g[i + 1].revision # g[i].revision
  <2>1. i \in 1..Len(h)
    BY <1>1, <1>2
  <2>2. i + 1 \in 1..Len(h) /\ h[i + 1].type = "published" /\ h[i + 1].revision # h[i].revision
    BY <1>1, <1>2, <2>1 DEF Supersessions
  <2> QED
    BY <1>1, <2>1, <2>2
<1> QED
  BY <1>2 DEF Supersessions, g

LEMMA SupersessionsGrowByTwo ==
  ASSUME NEW h \in Seq(Event), Supersessions(h), NEW d \in Event, NEW e \in Event,
         e.type = "published", d.revision # e.revision
  PROVE  Supersessions(Append(Append(h, d), e))
<1> DEFINE f == Append(h, d)
           g == Append(f, e)
           n == Len(h) + 1
<1>1. /\ Len(h) \in Nat /\ f \in Seq(Event) /\ Len(f) = n /\ f[n] = d
      /\ \A i \in 1..Len(h) : f[i] = h[i]
  OBVIOUS
<1> HIDE DEF f
<1>2. Len(g) = n + 1 /\ g[n + 1] = e /\ \A i \in 1..n : g[i] = f[i]
  BY <1>1
<1> HIDE DEF g
<1>3. ASSUME NEW i \in 1..Len(g), g[i].type = "superseded"
      PROVE  i + 1 \in 1..Len(g) /\ g[i + 1].type = "published" /\ g[i + 1].revision # g[i].revision
  <2>1. CASE i \in 1..Len(h)
    <3>1. i + 1 \in 1..Len(h) /\ h[i + 1].type = "published" /\ h[i + 1].revision # h[i].revision
      BY <1>1, <1>2, <1>3, <2>1 DEF Supersessions
    <3> QED
      BY <1>1, <1>2, <2>1, <3>1
  <2>2. CASE i = n
    BY <1>1, <1>2, <2>2
  <2>3. i # n + 1
    BY <1>2, <1>3
  <2> QED
    BY <1>1, <1>2, <2>1, <2>2, <2>3
<1> QED
  BY <1>3 DEF Supersessions, g, f

HistoryInv == Explained(events, rows) /\ Supersessions(events)

(* A revision has events exactly when it exists; the first one created it. *)
LEMMA HistoryInit == Init => HistoryInv
<1> SUFFICES ASSUME Init PROVE HistoryInv
  OBVIOUS
<1>1. Len(events) = 0 /\ 1..Len(events) = {} /\ \A r \in Revisions : rows[r] = AbsentRow
  BY DEF Init
<1>2. \A r \in Revisions : Of(events, r) = {}
  BY <1>1 DEF Of
<1>3. \A r \in Revisions : RowExplained(events, rows[r], r)
  <2> TAKE r \in Revisions
  <2>1. rows[r].version = 0 /\ rows[r].state = "absent"
    BY <1>1 DEF AbsentRow
  <2>2. Cardinality(Of(events, r)) = 0
    BY <1>2, FS_EmptySet
  <2> QED
    BY <1>2, <2>1, <2>2 DEF RowExplained
<1> QED
  BY <1>1, <1>3 DEF HistoryInv, Explained, Supersessions

LEMMA HistoryStep ==
  TypeInv /\ SingleWorkingSinglePublished /\ HistoryInv /\ [Next]_vars => HistoryInv'
<1> SUFFICES ASSUME TypeInv, SingleWorkingSinglePublished, HistoryInv, [Next]_vars PROVE HistoryInv'
  OBVIOUS
<1>1. /\ rows \in [Revisions -> Row] /\ events \in Seq(Event)
      /\ \A r \in Revisions : rows[r].version \in Nat /\ rows[r].state \in States
      /\ \A r \in Revisions : rows[r].state = "absent" => rows[r].version = 0
      /\ Explained(events, rows) /\ Supersessions(events)
  BY DEF TypeInv, TypeOK, Row, RowsMatchStates, AbsentRow, HistoryInv
<1>2. ASSUME NEW p \in Planners, CreateWorkingRevision(p)
      PROVE  HistoryInv'
  <2>1. PICK r \in Revisions, origin \in Revisions \cup {NoRevision} :
          /\ rows[r].state = "absent"
          /\ rows' = [rows EXCEPT ![r] = NewDraft(origin)]
          /\ events' = Append(events, EventRecord(r, "created", "absent", "draft"))
    BY <1>2 DEF CreateWorkingRevision, Published
  <2> DEFINE e == EventRecord(r, "created", "absent", "draft")
  <2>2. e \in Event
    BY EventRecordType DEF EventTypes, States, WORKING_STATES
  <2>3. e.revision = r /\ e.type = "created" /\ e.from = "absent" /\ e.to = "draft"
    BY DEF EventRecord
  <2>4. /\ rows'[r].version = rows[r].version + 1 /\ rows'[r].state = "draft"
        /\ \A q \in Revisions \ {r} : rows'[q] = rows[q]
    BY <1>1, <2>1 DEF NewDraft
  <2> HIDE DEF e
  <2>5. Explained(Append(events, e), rows')
    <3>1. e.from = rows[r].state /\ rows'[r].state = e.to
      BY <2>1, <2>3, <2>4
    <3>2. rows[r].state = "absent" => e.type = "created"
      BY <2>3
    <3> QED
      BY <1>1, <2>2, <2>3, <2>4, <3>1, <3>2, ExplainedGrows
  <2>6. Supersessions(Append(events, e))
    BY <1>1, <2>2, <2>3, SupersessionsGrow
  <2> QED
    BY <2>1, <2>5, <2>6 DEF HistoryInv, e
<1>3. ASSUME NEW p \in Planners, NEW r \in Revisions,
             \/ MarkReady(p, r) \/ ReturnToDraft(p, r) \/ Abandon(p, r) \/ Restore(p, r)
             \/ Publish(p, r) /\ Published = {}
      PROVE  HistoryInv'
  <2>1. PICK type \in EventTypes \ {"superseded"}, to \in States :
          /\ rows[r].state # "absent"
          /\ events' = Append(events, EventRecord(r, type, rows[r].state, to))
          /\ rows'[r].version = rows[r].version + 1 /\ rows'[r].state = to
          /\ \A q \in Revisions \ {r} : rows'[q] = rows[q]
    <3>1. CASE MarkReady(p, r)
      BY <1>1, <3>1 DEF MarkReady, Transition, Moved, EventTypes, States, WORKING_STATES
    <3>2. CASE ReturnToDraft(p, r)
      BY <1>1, <3>2 DEF ReturnToDraft, Transition, Moved, EventTypes, States, WORKING_STATES
    <3>3. CASE Abandon(p, r)
      BY <1>1, <3>3 DEF Abandon, Moved, Working, EventTypes, States, WORKING_STATES
    <3>4. CASE Restore(p, r)
      BY <1>1, <3>4 DEF Restore, Transition, Moved, EventTypes, States, WORKING_STATES
    <3>5. CASE Publish(p, r) /\ Published = {}
      BY <1>1, <3>5 DEF Publish, PublicationAccepted, SupersedeAndPublish, Moved, Working,
                        EventTypes, States, WORKING_STATES
    <3> QED
      BY <1>3, <3>1, <3>2, <3>3, <3>4, <3>5
  <2> DEFINE e == EventRecord(r, type, rows[r].state, to)
  <2>2. e \in Event
    BY <1>1, EventRecordType
  <2>3. e.revision = r /\ e.type = type /\ e.from = rows[r].state /\ e.to = to
    BY DEF EventRecord
  <2> HIDE DEF e
  <2>4. Explained(Append(events, e), rows')
    BY <1>1, <2>1, <2>2, <2>3, ExplainedGrows
  <2>5. Supersessions(Append(events, e))
    BY <1>1, <2>1, <2>2, <2>3, SupersessionsGrow
  <2> QED
    BY <2>1, <2>4, <2>5 DEF HistoryInv, e
<1>4. ASSUME NEW p \in Planners, NEW r \in Revisions, Publish(p, r), Published # {}
      PROVE  HistoryInv'
  <2>1. PICK current \in Published :
          events' = events \o <<EventRecord(current, "superseded", "published", "superseded"),
                                EventRecord(r, "published", rows[r].state, "published")>>
    BY <1>4 DEF Publish
  <2> DEFINE d == EventRecord(current, "superseded", "published", "superseded")
             e == EventRecord(r, "published", rows[r].state, "published")
             middle == [rows EXCEPT ![current] =
                          Moved(current, "superseded", rows[current].snapshot)]
  <2>2. /\ current \in Revisions /\ rows[current].state = "published" /\ r # current
        /\ rows[r].state # "absent" /\ Published = {current}
    BY <1>4 DEF Publish, PublicationAccepted, Working, Published, WORKING_STATES,
                SingleWorkingSinglePublished
  <2>3. d \in Event /\ e \in Event
    BY <1>1, <2>2, EventRecordType DEF EventTypes, States
  <2>4. /\ d.revision = current /\ d.type = "superseded"
        /\ d.from = "published" /\ d.to = "superseded"
        /\ e.revision = r /\ e.type = "published" /\ e.from = rows[r].state /\ e.to = "published"
    BY DEF EventRecord
  <2>5. /\ middle[current].version = rows[current].version + 1
        /\ middle[current].state = "superseded"
        /\ \A q \in Revisions \ {current} : middle[q] = rows[q]
    BY <1>1, <2>2 DEF Moved
  <2>6. /\ rows'[r].version = rows[r].version + 1 /\ rows'[r].state = "published"
        /\ rows'[current].version = rows[current].version + 1 /\ rows'[current].state = "superseded"
        /\ \A q \in Revisions \ {r, current} : rows'[q] = rows[q]
    BY <1>4, <2>2 DEF Publish, SupersedeAndPublish, Moved
  <2>7. events' = Append(Append(events, d), e)
    <3> HIDE DEF d, e
    <3>1. events \o <<d, e>> = Append(Append(events, d), e)
      BY <1>1, <2>3
    <3> QED
      BY <2>1, <3>1 DEF d, e
  <2> HIDE DEF d, e, middle
  <2>8. Append(events, d) \in Seq(Event)
    BY <1>1, <2>3, AppendProperties
  <2>9. Explained(Append(events, d), middle)
    BY <1>1, <2>2, <2>3, <2>4, <2>5, ExplainedGrows
  <2>10. \A q \in Revisions \ {r} :
           rows'[q].version = middle[q].version /\ rows'[q].state = middle[q].state
    BY <2>2, <2>5, <2>6
  <2>11. middle[r] = rows[r]
    BY <2>2, <2>5
  <2>12. Explained(Append(Append(events, d), e), rows')
    <3> DEFINE h == Append(events, d)
    <3>1. h \in Seq(Event) /\ Explained(h, middle)
      BY <2>8, <2>9
    <3> HIDE DEF h
    <3>2. Explained(Append(h, e), rows')
      BY <2>2, <2>3, <2>4, <2>6, <2>10, <2>11, <3>1, ExplainedGrows
    <3> QED
      BY <3>2 DEF h
  <2>13. Supersessions(Append(Append(events, d), e))
    BY <1>1, <2>2, <2>3, <2>4, SupersessionsGrowByTwo
  <2> QED
    BY <2>7, <2>12, <2>13 DEF HistoryInv
<1>5. ASSUME \/ \E p \in Planners : ReadOverview(p) \/ PrepareContent(p) \/ CloseDialog(p)
             \/ \E p \in Planners, r \in Revisions :
                  PrepareOverview(p, r) \/ PublishFlushFails(p, r)
             \/ \E r \in Revisions, t \in Teaching : EditTeaching(r, t)
             \/ \E r \in Revisions, e \in Exams : EditExams(r, e)
             \/ \E c \in Cohorts : MoveCourse(c)
             \/ UNCHANGED vars
      PROVE  HistoryInv'
  <2>1. UNCHANGED <<rows, events>>
    BY <1>5 DEF ReadOverview, PrepareContent, CloseDialog, PrepareOverview, PublishFlushFails,
                EditTeaching, EditExams, MoveCourse, tables, vars
  <2> QED
    BY <2>1 DEF HistoryInv
<1> QED
  BY <1>2, <1>3, <1>4, <1>5 DEF Next

(* The rows are what the history made of them: state and row_version       *)
(* follow from the events of a revision, which are linked to each other,   *)
(* and a supersession is followed by its publication.                      *)
THEOREM HistoryAlwaysExplains == Spec => []HistoryExplainsRows
<1>1. Spec => []HistoryInv
  BY HistoryInit, HistoryStep, TypeInvariant, AtMostOneOfEach, PTL DEF Spec
<1>2. ASSUME TypeInv, HistoryInv PROVE HistoryExplainsRows
  <2>1. events \in Seq(Event) /\ DOMAIN events = 1..Len(events)
    BY <1>2 DEF TypeInv, TypeOK
  <2>2. \A r \in Revisions : EventsOf(r) = Of(events, r)
    BY <2>1 DEF EventsOf, Of
  <2>3. ASSUME NEW r \in Revisions
        PROVE  /\ rows[r].version = Cardinality(EventsOf(r))
               /\ rows[r].state = IF EventsOf(r) = {} THEN "absent" ELSE events[LastSequence(r)].to
    <3>1. RowExplained(events, rows[r], r)
      BY <1>2 DEF HistoryInv, Explained
    <3>2. EventsOf(r) = Of(events, r)
      BY <2>2
    <3>3. EventsOf(r) # {} => /\ LastSequence(r) \in Of(events, r)
                              /\ LastOf(Of(events, r), LastSequence(r))
      BY <2>1, <3>2, LastExists DEF LastSequence, LastOf
    <3> QED
      BY <3>1, <3>2, <3>3 DEF RowExplained
  <2>4. ASSUME NEW i \in DOMAIN events
        PROVE  LET before == {j \in EventsOf(events[i].revision) : j < i}
               IN IF before = {} THEN events[i].type = "created"
                  ELSE \E j \in before : (\A k \in before : k <= j) /\ events[i].from = events[j].to
    <3>1. Continues(events, i)
      BY <1>2, <2>1 DEF HistoryInv, Explained
    <3>2. events[i].revision \in Revisions
      <4>1. events[i] \in Event
        BY <2>1, ElementOfSeq
      <4> QED
        BY <4>1 DEF Event
    <3>3. EventsOf(events[i].revision) = Of(events, events[i].revision)
      BY <2>2, <3>2
    <3> QED
      BY <3>1, <3>3 DEF Continues, LastOf
  <2>5. \A i \in DOMAIN events :
          events[i].type = "superseded" =>
            /\ i + 1 \in DOMAIN events
            /\ events[i + 1].type = "published"
            /\ events[i + 1].revision # events[i].revision
    BY <1>2, <2>1 DEF HistoryInv, Supersessions
  <2> QED
    BY <2>3, <2>4, <2>5 DEF HistoryExplainsRows
<1>3. TypeInv /\ HistoryInv => HistoryExplainsRows
  BY <1>2
<1> QED
  BY <1>1, <1>3, TypeInvariant, PTL
-----------------------------------------------------------------------------
(***************************************************************************)
(* Calendars beside the lifecycle.                                         *)
(***************************************************************************)
workspaceVars == <<vars, calendar>>

(* A calendar changes nothing that the lifecycle is made of.               *)
LEMMA BesideLifecycle ==
  ASSUME [WorkspaceNext]_workspaceVars
  PROVE  /\ [Next]_vars
         /\ Next \/ UNCHANGED rows
  BY DEF WorkspaceNext, workspaceVars, vars

(* What is proved of the lifecycle holds beside the calendars.             *)
THEOREM LifecycleGoesOn == WorkspaceSpec => Spec
<1>1. WorkspaceInit => Init BY DEF WorkspaceInit
<1>2. [WorkspaceNext]_workspaceVars => [Next]_vars BY BesideLifecycle
<1> QED BY <1>1, <1>2, PTL DEF WorkspaceSpec, Spec, workspaceVars

Request ==
  [phase |-> workspace.phase, revision |-> workspace.revision,
   signature |-> workspace.signature, content |-> workspace.content]

(* No row was older when the request began than it is now; if none has     *)
(* become newer, the request has read what is still current.               *)
ReadingInv ==
  workspace.phase \in {"opened", "teaching_read", "read"} =>
    /\ workspace = Request
    /\ workspace.revision \in Revisions
    /\ \A q \in Revisions :
         /\ workspace.signature[q].version \in Nat
         /\ workspace.signature[q].version <= rows[q].version
    /\ workspace.signature = Signature =>
         \/ /\ workspace.revision \in Working
            /\ readOf = IF workspace.phase = "opened" THEN {} ELSE {workspace.revision}
         \/ /\ workspace.revision \in Published
            /\ workspace.phase = "read"
            /\ readOf = {}
            /\ workspace.content = rows[workspace.revision].snapshot.content

LEMMA StepAdvances ==
  ASSUME TypeInv, [Next]_vars
  PROVE  UNCHANGED rows \/ Advances
<1>1. ASSUME NEW p \in Planners, NEW r \in Revisions,
             \/ CreateWorkingRevision(p) \/ MarkReady(p, r) \/ ReturnToDraft(p, r)
             \/ Abandon(p, r) \/ Restore(p, r) \/ Publish(p, r)
      PROVE  Advances
  BY <1>1, TransitionAdvances
<1>2. ASSUME NEW p \in Planners, CreateWorkingRevision(p)
      PROVE  \E r \in Revisions : TRUE
  BY <1>2 DEF CreateWorkingRevision
<1>3. ASSUME \/ \E p \in Planners : ReadOverview(p) \/ PrepareContent(p) \/ CloseDialog(p)
             \/ \E p \in Planners, r \in Revisions :
                  PrepareOverview(p, r) \/ PublishFlushFails(p, r)
             \/ \E r \in Revisions, t \in Teaching : EditTeaching(r, t)
             \/ \E r \in Revisions, e \in Exams : EditExams(r, e)
             \/ \E c \in Cohorts : MoveCourse(c)
      PROVE  UNCHANGED rows
  BY <1>3 DEF ReadOverview, PrepareContent, CloseDialog, PrepareOverview, PublishFlushFails,
              EditTeaching, EditExams, MoveCourse, tables
<1> QED BY <1>1, <1>2, <1>3 DEF Next, vars

(* A transition leaves every request behind.                               *)
LEMMA ReadingBeside ==
  ASSUME TypeInv, TypeInv', ReadingInv, UNCHANGED rows \/ Advances, UNCHANGED calendar
  PROVE  ReadingInv'
<1>1. UNCHANGED <<workspace, readOf>> BY DEF calendar
<1>2. CASE UNCHANGED rows
  BY <1>1, <1>2 DEF ReadingInv, Request, Signature, Working, Published
<1>3. CASE Advances
  <2> SUFFICES ASSUME workspace.phase \in {"opened", "teaching_read", "read"}
               PROVE  /\ \A q \in Revisions : workspace.signature[q].version <= rows'[q].version
                      /\ workspace.signature # Signature'
    BY <1>1 DEF ReadingInv, Request
  <2>1. \A q \in Revisions : rows[q].version \in Nat /\ rows'[q].version \in Nat
    BY DEF TypeInv, TypeOK, Row
  <2>2. \A q \in Revisions : /\ workspace.signature[q].version \in Nat
                             /\ workspace.signature[q].version <= rows[q].version
    BY DEF ReadingInv
  <2>3. \A q \in Revisions : rows[q].version <= rows'[q].version BY <1>3 DEF Advances
  <2>4. PICK q \in Revisions : rows[q].version < rows'[q].version BY <1>3 DEF Advances
  <2>5. workspace.signature[q].version < rows'[q].version BY <2>1, <2>2, <2>4
  <2>6. Signature'[q].version = rows'[q].version BY DEF Signature
  <2>7. workspace.signature # Signature' BY <2>1, <2>2, <2>5, <2>6
  <2> QED BY <2>1, <2>2, <2>3, <2>7
<1> QED BY <1>2, <1>3

LEMMA ReadingStep ==
  ASSUME TypeInv, SingleWorkingSinglePublished, ReadingInv, CalendarStep, UNCHANGED vars
  PROVE  ReadingInv'
<1>0. /\ UNCHANGED rows /\ Signature' = Signature /\ Working' = Working /\ Published' = Published
      /\ \A q \in Revisions : rows[q].version \in Nat
  BY DEF vars, Signature, Working, Published, TypeInv, TypeOK, Row
<1>1. \A q \in Revisions : Signature[q].version = rows[q].version BY DEF Signature
<1>2. ASSUME NEW r \in Revisions, OpenWorking(r) PROVE ReadingInv'
  BY <1>0, <1>1, <1>2 DEF OpenWorking, Opened, ReadingInv, Request
<1>3. ASSUME NEW r \in Revisions, OpenPublished(r) PROVE ReadingInv'
  BY <1>0, <1>1, <1>3 DEF OpenPublished, Opened, ReadingInv, Request
<1>4. CASE OpenNothing \/ Close
  BY <1>4 DEF OpenNothing, Close, Closed, ReadingInv
<1>5. CASE Answer
  BY <1>5 DEF Answer, ReadingInv, Request
<1>6. ASSUME NEW from \in {"opened", "teaching_read"}, workspace.phase = from,
             NEW to \in {"teaching_read", "read"}, NEW content,
             workspace' = [workspace EXCEPT !.phase = to, !.content = content],
             readOf' = readOf \cup Working
      PROVE  ReadingInv'
  <2>1. workspace = Request BY <1>6 DEF ReadingInv
  <2>2. /\ workspace'.phase = to /\ workspace'.revision = workspace.revision
        /\ workspace'.signature = workspace.signature
        /\ workspace' = Request'
    BY <1>6, <2>1 DEF Request
  <2>3. workspace.signature = Signature =>
          workspace.revision \in Working /\ readOf \subseteq {workspace.revision}
    BY <1>6 DEF ReadingInv
  <2>4. workspace.signature = Signature =>
          workspace.revision \in Working /\ readOf' = {workspace.revision}
    BY <1>6, <2>3 DEF SingleWorkingSinglePublished
  <2> QED BY <1>0, <1>6, <2>2, <2>4 DEF ReadingInv
<1> QED BY <1>2, <1>3, <1>4, <1>5, <1>6 DEF CalendarStep, ReadTeaching, ReadExams

LEMMA ReadingNext ==
  TypeInv /\ TypeInv' /\ SingleWorkingSinglePublished /\ ReadingInv /\ [WorkspaceNext]_workspaceVars
    => ReadingInv'
<1> SUFFICES ASSUME TypeInv, TypeInv', SingleWorkingSinglePublished, ReadingInv,
                    [WorkspaceNext]_workspaceVars
             PROVE  ReadingInv'
  OBVIOUS
<1>1. UNCHANGED rows \/ Advances BY BesideLifecycle, StepAdvances
<1>2. (CalendarStep /\ UNCHANGED vars) \/ UNCHANGED calendar BY DEF WorkspaceNext, workspaceVars
<1> QED BY <1>1, <1>2, ReadingBeside, ReadingStep

(* What an answered calendar shows was all read under one revision, which  *)
(* is still the current one.                                               *)
THEOREM WorkspaceIsOfOneRevision == WorkspaceSpec => WorkspaceOfOneRevision
<1> DEFINE OneRevision ==
      workspace'.phase = "shown" /\ workspace.phase # "shown" =>
        LET r == workspace'.revision
        IN  IF r \in Working THEN readOf = {r}
            ELSE /\ r \in Published /\ readOf = {}
                 /\ workspace'.content = rows[r].snapshot.content
<1>1. WorkspaceInit => ReadingInv
  BY DEF WorkspaceInit, CalendarInit, Closed, ReadingInv
<1>2. WorkspaceSpec => [](TypeInv /\ SingleWorkingSinglePublished)
  BY LifecycleGoesOn, TypeInvariant, AtMostOneOfEach, PTL
<1>3. WorkspaceSpec => []ReadingInv
  BY <1>1, <1>2, ReadingNext, PTL DEF WorkspaceSpec, workspaceVars
<1>4. ReadingInv /\ [WorkspaceNext]_workspaceVars => [OneRevision]_<<vars, calendar>>
  <2> SUFFICES ASSUME ReadingInv, [WorkspaceNext]_workspaceVars,
                      workspace'.phase = "shown", workspace.phase # "shown"
               PROVE  LET r == workspace'.revision
                      IN  IF r \in Working THEN readOf = {r}
                          ELSE /\ r \in Published /\ readOf = {}
                               /\ workspace'.content = rows[r].snapshot.content
    OBVIOUS
  <2>1. CalendarStep BY DEF WorkspaceNext, workspaceVars, calendar
  <2>2. Answer /\ ContextUnchanged
    <3>1. ~ ReadTeaching /\ ~ ReadExams
      <4>1. ASSUME NEW from \in {"opened", "teaching_read"}, workspace.phase = from,
                   NEW to \in {"teaching_read", "read"}, NEW content,
                   workspace' = [workspace EXCEPT !.phase = to, !.content = content]
            PROVE  FALSE
        <5>1. workspace = Request BY <4>1 DEF ReadingInv
        <5>2. workspace'.phase = to BY <4>1, <5>1 DEF Request
        <5> QED BY <4>1, <5>2
      <4> QED BY <4>1 DEF ReadTeaching, ReadExams
    <3>2. /\ ~ OpenNothing /\ ~ Close
          /\ \A r \in Revisions : ~ OpenWorking(r) /\ ~ OpenPublished(r)
      BY DEF OpenNothing, Close, Closed, OpenWorking, OpenPublished, Opened
    <3> QED BY <2>1, <3>1, <3>2 DEF CalendarStep, Answer
  <2>3. /\ workspace = Request /\ workspace.phase = "read"
        /\ workspace' = [workspace EXCEPT !.phase = "shown"]
    BY <2>2 DEF Answer, ReadingInv
  <2>4. workspace'.revision = workspace.revision /\ workspace'.content = workspace.content
    BY <2>3 DEF Request
  <2> QED BY <2>2, <2>3, <2>4 DEF ReadingInv, ContextUnchanged, Working, Published, WORKING_STATES
<1> QED BY <1>3, <1>4, PTL DEF WorkspaceSpec, workspaceVars, WorkspaceOfOneRevision
=============================================================================
