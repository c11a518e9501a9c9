-------------------------- MODULE ScheduleLifecycle --------------------------
(***************************************************************************)
(* The revision lifecycle of one semester:                                 *)
(* backend/app/services/schedule_lifecycle.py behind                       *)
(* backend/app/api/schedule_lifecycle.py.                                  *)
(*                                                                         *)
(* A transition handler first takes SQLite's only writer lock              *)
(* (_claim_semester), re-reads the rows, validates, writes and commits, so *)
(* it is one atomic step here; a failure rolls the whole step back.        *)
(* prepare_publication takes no lock: its reads are separate steps.        *)
(*                                                                         *)
(* A planner's browser holds the state token of the last overview it was   *)
(* shown and the preparation token of the publication dialog.  A response  *)
(* may be lost: the browser then keeps what it held and may repeat the     *)
(* request.  A refused request answers with the current overview, which is *)
(* ReadOverview.                                                           *)
(***************************************************************************)
EXTENDS Naturals, Sequences, FiniteSets

CONSTANTS
  Planners,      (* browsers of authenticated planners                      *)
  Teaching,      (* what the teaching rows of the semester can say          *)
  Exams,         (* what the exam rows of the semester can say              *)
  Cohorts,       (* cohorts the scheduled course can belong to              *)
  NoSnapshot,    (* the NULL snapshot_document                              *)
  NoPreparation, (* the planner has no publication dialog open              *)
  MaxRevisions,  (* bound: revisions of the semester                        *)
  MaxEvents      (* bound: length of the lifecycle history                  *)

ASSUME BoundsAssumption == MaxRevisions \in Nat /\ MaxEvents \in Nat

VARIABLES
  rows,        (* schedule_revisions: [Revisions -> Row]                    *)
  events,      (* schedule_revision_events in event_sequence order          *)
  live,        (* the mutable teaching and exam rows of the semester        *)
  cohort,      (* catalog: cohort of the scheduled course                   *)
  held,        (* [Planners -> state token of the last overview shown]      *)
  preparation, (* [Planners -> publication dialog]                          *)
  answer,      (* how the last transition request ended                     *)
  saved,       (* history variable: content last saved under each revision  *)
  heldAt       (* history variable: history length when held was read       *)

tables == <<rows, events, live>>
browser == <<held, preparation, heldAt>>
vars == <<rows, events, live, cohort, held, preparation, answer, saved, heldAt>>

(* Identity and revision_number agree: within a semester both only grow.   *)
Revisions == 1..MaxRevisions
NoRevision == 0

WORKING_STATES == {"draft", "ready_for_review"}
States == WORKING_STATES \cup {"absent", "published", "superseded", "abandoned"}
EventTypes == {"created", "marked_ready", "returned_to_draft", "published",
               "superseded", "abandoned", "restored"}

Content == [teaching : Teaching, exams : Exams]
Snapshot == [content : Content, cohort : Cohorts]

Row == [state : States, version : Nat, origin : Revisions \cup {NoRevision},
        snapshot : Snapshot \cup {NoSnapshot}]
Event == [revision : Revisions, type : EventTypes, from : States, to : States]

AbsentRow == [state |-> "absent", version |-> 0, origin |-> NoRevision,
              snapshot |-> NoSnapshot]

Exists == {r \in Revisions : rows[r].state # "absent"}
Working == {r \in Revisions : rows[r].state \in WORKING_STATES}
Published == {r \in Revisions : rows[r].state = "published"}

EventsOf(r) == {i \in DOMAIN events : events[i].revision = r}

(* max(event_sequence) of a revision, 0 when it has no event *)
LastSequence(r) ==
  IF EventsOf(r) = {} THEN 0
  ELSE CHOOSE i \in EventsOf(r) : \A j \in EventsOf(r) : j <= i

(* Mutant of StateToken: the digest is derived from the states only. *)
StateTokenOfStates ==
  [r \in Revisions |->
     [version |-> IF rows[r].state = "absent" THEN 0
                  ELSE IF rows[r].state = "ready_for_review" THEN 2 ELSE 1,
      state |-> rows[r].state, origin |-> rows[r].origin, sequence |-> 0]]

(* _state_token: the digest is taken to be injective, so it is its material. *)
StateToken ==
  [r \in Revisions |->
     [version |-> rows[r].version, state |-> rows[r].state,
      origin |-> rows[r].origin, sequence |-> LastSequence(r)]]

(* _build_snapshot without capturedAt *)
BuildSnapshot == [content |-> live, cohort |-> cohort]

(* _publication_token *)
PublicationToken(stateToken, r, snapshot) ==
  [stateToken |-> stateToken, revision |-> r,
   version |-> rows[r].version, state |-> rows[r].state, snapshot |-> snapshot]

(* _materialize_snapshot refuses a snapshot whose course has moved on *)
Materializable(snapshot) == snapshot.cohort = cohort

(* _require_current_expectations: the browser sends the row version and    *)
(* the state token of the overview it holds.                               *)
RequireCurrentExpectations(p, r) ==
  /\ rows[r].version = held[p][r].version
  /\ StateToken = held[p]

Init ==
  /\ rows = [r \in Revisions |-> AbsentRow]
  /\ events = << >>
  /\ live \in Content
  /\ cohort \in Cohorts
  /\ held = [p \in Planners |-> StateToken]
  /\ preparation = [p \in Planners |-> NoPreparation]
  /\ answer = "none"
  /\ saved = [r \in Revisions |-> live]
  /\ heldAt = [p \in Planners |-> 0]

EventRecord(r, type, from, to) ==
  [revision |-> r, type |-> type, from |-> from, to |-> to]

(* The overview in the answer reaches the browser, or is lost. *)
Answered(p) ==
  /\ answer' = "ok"
  /\ \/ /\ held' = [held EXCEPT ![p] = StateToken']
        /\ heldAt' = [heldAt EXCEPT ![p] = Len(events')]
        /\ preparation' = [preparation EXCEPT ![p] = NoPreparation]
     \/ UNCHANGED browser

NewDraft(origin) ==
  [state |-> "draft", version |-> 1, origin |-> origin, snapshot |-> NoSnapshot]

(* A changed row: version_id_col counts every UPDATE. *)
Moved(r, to, snapshot) ==
  [state |-> to, version |-> rows[r].version + 1, origin |-> rows[r].origin,
   snapshot |-> snapshot]

(* Every transition changes one row and appends one event. *)
Transition(r, type, to) ==
  /\ rows' = [rows EXCEPT ![r] = Moved(r, to, rows[r].snapshot)]
  /\ events' = Append(events, EventRecord(r, type, rows[r].state, to))

ReadOverview(p) ==
  /\ held[p] # StateToken
  /\ held' = [held EXCEPT ![p] = StateToken]
  /\ heldAt' = [heldAt EXCEPT ![p] = Len(events)]
  /\ UNCHANGED <<tables, cohort, preparation, answer, saved>>

(* create_working_revision: a new Draft, from the current publication when *)
(* there is one and otherwise from the rows as they are.                   *)
CreateWorkingRevision(p) ==
  \E r \in Revisions :
    /\ rows[r].state = "absent"
    /\ \A q \in Revisions : q < r => q \in Exists
    /\ StateToken = held[p]
    /\ Working = {}
    /\ \/ /\ Published = {}
          /\ rows' = [rows EXCEPT ![r] = NewDraft(NoRevision)]
          /\ UNCHANGED live
       \/ \E current \in Published :
            /\ Materializable(rows[current].snapshot)
            /\ live' = rows[current].snapshot.content
            /\ rows' = [rows EXCEPT ![r] = NewDraft(current)]
    /\ events' = Append(events, EventRecord(r, "created", "absent", "draft"))
    /\ saved' = [saved EXCEPT ![r] = live']
    /\ Answered(p)
    /\ UNCHANGED cohort

MarkReady(p, r) ==
  /\ RequireCurrentExpectations(p, r)
  /\ rows[r].state = "draft"
  /\ Transition(r, "marked_ready", "ready_for_review")
  /\ Answered(p)
  /\ UNCHANGED <<live, cohort, saved>>

ReturnToDraft(p, r) ==
  /\ RequireCurrentExpectations(p, r)
  /\ rows[r].state = "ready_for_review"
  /\ Transition(r, "returned_to_draft", "draft")
  /\ Answered(p)
  /\ UNCHANGED <<live, cohort, saved>>

(* Mutant of Abandon: a row that has a snapshot from before keeps it. *)
AbandonAsBefore(p, r) ==
  /\ RequireCurrentExpectations(p, r)
  /\ r \in Working
  /\ rows' = [rows EXCEPT ![r] = Moved(r, "abandoned",
       IF rows[r].snapshot = NoSnapshot THEN BuildSnapshot ELSE rows[r].snapshot)]
  /\ events' = Append(events, EventRecord(r, "abandoned", rows[r].state, "abandoned"))
  /\ Answered(p)
  /\ UNCHANGED <<live, cohort, saved>>

(* The dialog's confirmation is part of the request: an unconfirmed one is *)
(* refused and changes nothing.  The revision's links end in this step too *)
(* (LecturerReview).                                                       *)
Abandon(p, r) ==
  /\ RequireCurrentExpectations(p, r)
  /\ r \in Working
  /\ rows' = [rows EXCEPT ![r] = Moved(r, "abandoned", BuildSnapshot)]
  /\ events' = Append(events, EventRecord(r, "abandoned", rows[r].state, "abandoned"))
  /\ Answered(p)
  /\ UNCHANGED <<live, cohort, saved>>

(* Mutant of Restore: beside another working revision. *)
RestoreBesideWorking(p, r) ==
  /\ RequireCurrentExpectations(p, r)
  /\ rows[r].state = "abandoned"
  /\ Materializable(rows[r].snapshot)
  /\ live' = rows[r].snapshot.content
  /\ Transition(r, "restored", "draft")
  /\ Answered(p)
  /\ UNCHANGED <<cohort, saved>>

(* The row keeps its snapshot_document. *)
Restore(p, r) ==
  /\ RequireCurrentExpectations(p, r)
  /\ rows[r].state = "abandoned"
  /\ Working = {}
  /\ Materializable(rows[r].snapshot)
  /\ live' = rows[r].snapshot.content
  /\ Transition(r, "restored", "draft")
  /\ Answered(p)
  /\ UNCHANGED <<cohort, saved>>

(* prepare_publication reads the lifecycle, then the teaching rows, then   *)
(* the exams, in a transaction that holds no lock.                         *)
PrepareOverview(p, r) ==
  /\ preparation[p] = NoPreparation
  /\ RequireCurrentExpectations(p, r)
  /\ r \in Working
  /\ preparation' = [preparation EXCEPT ![p] =
       [phase |-> "reading", teaching |-> live.teaching,
        stateToken |-> StateToken, revision |-> r,
        version |-> rows[r].version, state |-> rows[r].state]]
  /\ UNCHANGED <<tables, cohort, held, answer, saved, heldAt>>

PrepareContent(p) ==
  /\ preparation[p] # NoPreparation
  /\ preparation[p].phase = "reading"
  /\ LET read == preparation[p]
         seen == [content |-> [teaching |-> read.teaching, exams |-> live.exams],
                  cohort |-> cohort]
     IN preparation' = [preparation EXCEPT ![p] =
          [phase |-> "shown",
           token |-> [stateToken |-> read.stateToken, revision |-> read.revision,
                      version |-> read.version, state |-> read.state,
                      snapshot |-> seen]]]
  /\ UNCHANGED <<tables, cohort, held, answer, saved, heldAt>>

CloseDialog(p) ==
  /\ preparation[p] # NoPreparation
  /\ preparation' = [preparation EXCEPT ![p] = NoPreparation]
  /\ UNCHANGED <<tables, cohort, held, answer, saved, heldAt>>

(* Mutant of PublicationAccepted: the preparation is not compared again. *)
PublicationAcceptedUnchecked(p, r) ==
  /\ RequireCurrentExpectations(p, r)
  /\ r \in Working
  /\ preparation[p] # NoPreparation
  /\ preparation[p].phase = "shown"

(* The checks of a publication, up to the comparison of the tokens.        *)
PublicationAccepted(p, r) ==
  /\ RequireCurrentExpectations(p, r)
  /\ r \in Working
  /\ preparation[p] # NoPreparation
  /\ preparation[p].phase = "shown"
  /\ preparation[p].token = PublicationToken(StateToken, r, BuildSnapshot)

(* The session does not autoflush, so both changed rows are written by one *)
(* flush, in primary key order.  The partial unique index on state =       *)
(* 'published' is checked at each UPDATE: it refuses the flush when the    *)
(* new publication is written before the former one is superseded.         *)
FlushOrderAllows(r) == \A current \in Published : current < r

(* Mutants of SupersedeAndPublish: the superseded row keeps its version;   *)
(* the former publication is not superseded.                               *)
SupersedeSilently(r) ==
  [q \in Revisions |->
     IF q = r THEN Moved(q, "published", BuildSnapshot)
     ELSE IF q \in Published THEN [rows[q] EXCEPT !.state = "superseded"]
     ELSE rows[q]]

PublishBeside(r) ==
  [rows EXCEPT ![r] = Moved(r, "published", BuildSnapshot)]

SupersedeAndPublish(r) ==
  [q \in Revisions |->
     IF q = r THEN Moved(q, "published", BuildSnapshot)
     ELSE IF q \in Published THEN Moved(q, "superseded", rows[q].snapshot)
     ELSE rows[q]]

Publish(p, r) ==
  /\ PublicationAccepted(p, r)
  /\ FlushOrderAllows(r)
  /\ rows' = SupersedeAndPublish(r)
  /\ LET published == EventRecord(r, "published", rows[r].state, "published") IN
     \/ /\ Published = {}
        /\ events' = Append(events, published)
     \/ \E current \in Published :
          events' = events \o <<EventRecord(current, "superseded", "published", "superseded"),
                                published>>
  /\ Answered(p)
  /\ UNCHANGED <<live, cohort, saved>>

(* The IntegrityError is not a LifecycleFailure: the request ends as an    *)
(* internal server error and its transaction is rolled back.               *)
PublishFlushFails(p, r) ==
  /\ PublicationAccepted(p, r)
  /\ ~ FlushOrderAllows(r)
  /\ answer' = "server_error"
  /\ UNCHANGED <<tables, cohort, browser, saved>>

(* Any schedule mutation, behind claim_active_working_revision: the        *)
(* browser names a revision, which must be the active working one.         *)
EditTeaching(r, teaching) ==
  /\ r \in Working
  /\ live' = [teaching |-> teaching, exams |-> live.exams]
  /\ saved' = [saved EXCEPT ![r] = live']
  /\ UNCHANGED <<rows, events, cohort, browser, answer>>

EditExams(r, exams) ==
  /\ r \in Working
  /\ live' = [teaching |-> live.teaching, exams |-> exams]
  /\ saved' = [saved EXCEPT ![r] = live']
  /\ UNCHANGED <<rows, events, cohort, browser, answer>>

(* update_course in the academic catalog: guarded by no revision *)
MoveCourse(c) ==
  /\ cohort # c
  /\ cohort' = c
  /\ UNCHANGED <<tables, browser, answer, saved>>

(* bound: every transition appends at most two events *)
HistoryRoom == Len(events) + 2 <= MaxEvents

Next ==
  \/ \E p \in Planners : ReadOverview(p) \/ PrepareContent(p) \/ CloseDialog(p)
  \/ \E p \in Planners : HistoryRoom /\ CreateWorkingRevision(p)
  \/ \E p \in Planners, r \in Revisions :
       \/ PrepareOverview(p, r)
       \/ HistoryRoom /\ MarkReady(p, r)
       \/ HistoryRoom /\ ReturnToDraft(p, r)
       \/ HistoryRoom /\ Abandon(p, r)
       \/ HistoryRoom /\ Restore(p, r)
       \/ HistoryRoom /\ Publish(p, r)
       \/ PublishFlushFails(p, r)
  \/ \E r \in Revisions :
       \/ \E t \in Teaching : EditTeaching(r, t)
       \/ \E e \in Exams : EditExams(r, e)
  \/ \E c \in Cohorts : MoveCourse(c)

Spec == Init /\ [][Next]_vars
-----------------------------------------------------------------------------
StateTokens ==
  [Revisions -> [version : Nat, state : States, origin : Revisions \cup {NoRevision},
                 sequence : Nat]]
ReadingDialog ==
  [phase : {"reading"}, teaching : Teaching, stateToken : StateTokens,
   revision : Revisions, version : Nat, state : States]
PreparationToken ==
  [stateToken : StateTokens, revision : Revisions, version : Nat, state : States,
   snapshot : Snapshot]
ShownDialog == [phase : {"shown"}, token : PreparationToken]

TypeOK ==
  /\ rows \in [Revisions -> Row]
  /\ events \in Seq(Event)
  /\ live \in Content
  /\ cohort \in Cohorts
  /\ held \in [Planners -> StateTokens]
  /\ preparation \in [Planners -> ReadingDialog \cup ShownDialog \cup {NoPreparation}]
  /\ answer \in {"none", "ok", "server_error"}
  /\ saved \in [Revisions -> Content]
  /\ heldAt \in [Planners -> Nat]

(* At most one revision is Draft or Ready for review and at most one is    *)
(* Published, whatever requests the planners repeat, lose or send with an  *)
(* old view (create_working_revision, the restore and publish branches of  *)
(* transition_revision).                                                   *)
SingleWorkingSinglePublished ==
  /\ \A q, r \in Working : q = r
  /\ \A q, r \in Published : q = r

(* The history explains every row: its state is where its last event led,  *)
(* each event starts where the previous one of the revision ended, its     *)
(* row_version counts its events, and a supersession is immediately        *)
(* followed by the publication that caused it (_append_event; 013 spec     *)
(* FR-016, FR-026).                                                        *)
HistoryExplainsRows ==
  /\ \A r \in Revisions :
       /\ rows[r].version = Cardinality(EventsOf(r))
       /\ rows[r].state = IF EventsOf(r) = {} THEN "absent" ELSE events[LastSequence(r)].to
  /\ \A i \in DOMAIN events :
       LET before == {j \in EventsOf(events[i].revision) : j < i}
       IN IF before = {} THEN events[i].type = "created"
          ELSE \E j \in before : (\A k \in before : k <= j) /\ events[i].from = events[j].to
  /\ \A i \in DOMAIN events :
       events[i].type = "superseded" =>
         /\ i + 1 \in DOMAIN events
         /\ events[i + 1].type = "published"
         /\ events[i + 1].revision # events[i].revision

(* Nothing a planner saved under a revision is lost or mixed with another  *)
(* revision's work: while it is worked on its content is the live rows,    *)
(* also after an abandonment, other revisions' work and a restoration; once*)
(* published, superseded or abandoned its snapshot is what was last saved  *)
(* (_build_snapshot, _materialize_snapshot; 013 spec FR-011, FR-021,       *)
(* FR-022).                                                                *)
SavedContentSurvives ==
  \A r \in Exists :
    saved[r] = IF r \in Working THEN live ELSE rows[r].snapshot.content

(* A state token equals the current one only if no lifecycle change        *)
(* completed since it was read: a request that passes                      *)
(* _require_current_expectations acts on what its planner saw (FR-030).    *)
TokenPinsHistory ==
  \A p \in Planners : held[p] = StateToken => heldAt[p] = Len(events)

(* Once the semester has a current publication it has one after every step *)
(* (FR-018), and the shown content changes only by a publication.          *)
PublicationNeverLost ==
  [][Published # {} =>
       /\ Published' # {}
       /\ \A r \in Published : r \notin Published' =>
            \E q \in Published' : q \in Working /\ rows[r]'.state = "superseded"]_vars

(* What becomes public is the content of the live rows that one planner's  *)
(* dialog showed as a whole, although prepare_publication reads teaching,  *)
(* exams and lifecycle at different moments while others edit              *)
(* (_publication_token; FR-008, FR-017).                                   *)
PublishedAsShown ==
  [][\A r \in Revisions :
       (r \notin Published /\ r \in Published') =>
         \E p \in Planners :
           /\ preparation[p] \in ShownDialog
           /\ preparation[p].token.revision = r
           /\ preparation[p].token.snapshot.content = live
           /\ rows[r]'.snapshot = preparation[p].token.snapshot]_vars

(* The lifecycle implements the abstract register of revision states.  A   *)
(* working row's retained snapshot_document is not frozen content.         *)
Abstract ==
  INSTANCE RevisionStates WITH
    Contents <- Snapshot,
    NoContent <- NoSnapshot,
    state <- [r \in Revisions |-> rows[r].state],
    frozen <- [r \in Revisions |-> IF r \in Working THEN NoSnapshot ELSE rows[r].snapshot]

ImplementsRevisionStates == Abstract!Spec

(* 013 spec.md:98 "Publishing a restored revision replaces the current     *)
(* publication only after the planner explicitly publishes it": a confirmed*)
(* publication with current expectations and preparation does not end in a *)
(* server error.                                                           *)
PublicationNeverFails == answer # "server_error"
=============================================================================
