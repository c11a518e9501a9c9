---------------------------- MODULE DraftSchedule ----------------------------
(***************************************************************************)
(* The teaching drafts of one semester, the planning periods saved for the *)
(* next generation of a course, and their optimistic revisions:            *)
(* backend/app/services/draft_schedule_repository.py behind                *)
(* backend/app/api/draft_schedule.py.                                      *)
(*                                                                         *)
(* Every handler claims the semester (SQLite's writer lock) before it      *)
(* validates and writes, so it is one atomic step.  One handler is not:    *)
(* edit_draft_session loads the session and its draft BEFORE the claim and *)
(* the ORM session keeps those copies, so it is an EditRead followed by an *)
(* EditWrite.  No table declares AUTOINCREMENT: SQLite gives a new row one *)
(* more than the largest id in the table, also when that id was used by a  *)
(* row deleted since.                                                      *)
(***************************************************************************)
EXTENDS Naturals, FiniteSets, FiniteSetsExt

CONSTANTS
  Planners,      (* browsers of planners                                    *)
  Courses,       (* courses of the semester                                 *)
  Dates,         (* calendar days, as numbers                               *)
  Rooms,         (* rooms a session can use (stands for the other fields)   *)
  Plans,         (* solver results and frozen drafts: sets of date and room *)
  Tabs,          (* browser pages with the planning period of a course      *)
  PlanningPeriods, (* periods within the semester                           *)
  NoDraft,       (* the course has no draft_schedules row                   *)
  NoOverride,    (* the course has no generation_constraint_sets row        *)
  Idle,          (* no request in flight, no dialog open                    *)
  TotalUnits,    (* teaching units of a course, one per session here        *)
  MaxRevision,   (* bound: draft revisions counted                          *)
  MaxDrafts      (* bound: drafts and saved periods ever created            *)

ASSUME DatesAssumption == Dates \subseteq Nat
(* A plan has one session a day: uq_draft_session_day refuses any other.   *)
ASSUME PlansAssumption ==
  \A plan \in Plans :
    /\ plan \subseteq [date : Dates, room : Rooms] /\ IsFiniteSet(plan)
    /\ \A x, y \in plan : x.date = y.date => x = y
ASSUME NumbersAssumption ==
  TotalUnits \in Nat /\ MaxRevision \in Nat /\ MaxDrafts \in Nat

VARIABLES
  drafts,    (* draft_schedules: [Courses -> Draft \cup {NoDraft}]           *)
  sessions,  (* draft_sessions                                              *)
  form,      (* [Planners -> edit request between its reads and its claim]  *)
  dialog,    (* [Planners -> open deletion confirmation]                    *)
  override,  (* generation_constraint_sets: the saved period of a course    *)
  page,      (* [Tabs -> what the page shows of a course]                   *)
  created    (* history variable: drafts and saved periods created so far   *)

periods == <<override, page>>
draftVars == <<drafts, sessions, form, dialog, override, page, created>>

Draft == [id : Nat, revision : Nat, incarnation : Nat]
Session == [id : Nat, draft : Nat, date : Dates, room : Rooms]
Everything == 0  (* the target of a whole-draft deletion; row ids start at 1 *)
Form == [course : Courses, session : Session, revision : Nat, date : Dates, room : Rooms]
Dialog == [course : Courses, draft : Nat, revision : Nat, target : Nat,
           seen : SUBSET Session, incarnation : Nat, overlapped : BOOLEAN]

Override == [revision : Nat, period : PlanningPeriods, incarnation : Nat]
Page == [course : Courses, shown : Override \cup {NoOverride}]

ASSUME ValuesAssumption ==
  /\ NoDraft \notin Draft /\ NoOverride \notin Override
  /\ Idle \notin Form \cup Dialog \cup Page

HasDraft(c) == drafts[c] # NoDraft
DraftIds == {drafts[c].id : c \in {k \in Courses : HasDraft(k)}}
SessionsOf(d) == {s \in sessions : s.draft = d}
Content(c) == SessionsOf(drafts[c].id)

(* rowid of the next row of a table whose rows have these ids *)
NextId(ids) == IF ids = {} THEN 1 ELSE Max(ids) + 1

NewDraft(id) == [id |-> id, revision |-> 1, incarnation |-> created + 1]

(* The rows of a plan, inserted in date order behind the remaining rows. *)
Rows(plan, d, remaining) ==
  {[id |-> NextId({s.id : s \in remaining}) + Cardinality({q \in plan : q.date < x.date}),
    draft |-> d, date |-> x.date, room |-> x.room] : x \in plan}

DraftInit ==
  /\ drafts = [c \in Courses |-> NoDraft]
  /\ sessions = {}
  /\ form = [p \in Planners |-> Idle]
  /\ dialog = [p \in Planners |-> Idle]
  /\ override = [c \in Courses |-> NoOverride]
  /\ page = [t \in Tabs |-> Idle]
  /\ created = 0

(* Mutant of Bump: the draft keeps its revision. *)
KeepRevision(c) == drafts

Bump(c) == [drafts EXCEPT ![c].revision = @ + 1]

(* create_manual_draft_session: units and dates are validated against the  *)
(* draft as it is under the claim.                                         *)
CreateManual(c, date, room) ==
  /\ LET scheduled == IF HasDraft(c) THEN Content(c) ELSE {}
         d == IF HasDraft(c) THEN drafts[c].id ELSE NextId(DraftIds)
     IN /\ Cardinality(scheduled) < TotalUnits
        /\ \A s \in scheduled : s.date # date
        /\ sessions' = sessions \cup Rows({[date |-> date, room |-> room]}, d, sessions)
        /\ \/ /\ HasDraft(c)
              /\ drafts' = Bump(c)
              /\ UNCHANGED created
           \/ /\ ~ HasDraft(c)
              /\ drafts' = [drafts EXCEPT ![c] = NewDraft(d)]
              /\ created' = created + 1
  /\ UNCHANGED <<form, dialog, periods>>

(* edit_draft_session, up to the claim *)
EditRead(p, c, s, date, room) ==
  /\ form[p] = Idle
  /\ HasDraft(c)
  /\ s \in Content(c)
  /\ form' = [form EXCEPT ![p] = [course |-> c, session |-> s, revision |-> drafts[c].revision,
                                  date |-> date, room |-> room]]
  /\ UNCHANGED <<drafts, sessions, dialog, created, periods>>

DuplicateDate(f) ==
  \E s \in SessionsOf(f.session.draft) : s.date = f.date /\ s.id # f.session.id

(* The flush writes only the columns that differ from the copies read      *)
(* before the claim, into the row that has that id now.                    *)
Merged(f, current) ==
  [current EXCEPT
     !.date = IF f.date # f.session.date THEN f.date ELSE @,
     !.room = IF f.room # f.session.room THEN f.room ELSE @]

(* The copies read before the claim are out of date: the edit overlaps a   *)
(* change of its draft, or its session id belongs to another row now.      *)
Overlaps(c, f, current) == drafts[c].revision # f.revision \/ current # f.session

(* update_draft_session, from the claim on; the revision written is one    *)
(* more than the one read before the claim.  Its answer shows the draft    *)
(* that the course has now.                                                *)
EditWrite(p) ==
  /\ form[p] # Idle
  /\ LET f == form[p] IN
     \E c \in Courses, current \in sessions :
       /\ ~ DuplicateDate(f) /\ HasDraft(f.course)
       /\ HasDraft(c) /\ drafts[c].id = f.session.draft
       /\ current.id = f.session.id
       /\ \A s \in SessionsOf(current.draft) \ {current} : s.date # Merged(f, current).date
       /\ sessions' = (sessions \ {current}) \cup {Merged(f, current)}
       /\ drafts' = [drafts EXCEPT ![c].revision = f.revision + 1]
       /\ dialog' = [q \in Planners |->
            IF /\ dialog[q] # Idle
               /\ dialog[q].draft \in {f.session.draft, current.draft}
               /\ Overlaps(c, f, current)
            THEN [dialog[q] EXCEPT !.overlapped = TRUE] ELSE dialog[q]]
  /\ form' = [form EXCEPT ![p] = Idle]
  /\ UNCHANGED <<created, periods>>

(* The session is gone, but nothing of it differs from the copy: only the  *)
(* draft is written.                                                       *)
EditDraftOnly(p) ==
  /\ form[p] # Idle
  /\ LET f == form[p] IN
     \E c \in Courses :
       /\ ~ DuplicateDate(f) /\ HasDraft(f.course)
       /\ HasDraft(c) /\ drafts[c].id = f.session.draft
       /\ \A s \in sessions : s.id # f.session.id
       /\ f.date = f.session.date /\ f.room = f.session.room
       /\ drafts' = [drafts EXCEPT ![c].revision = f.revision + 1]
       /\ dialog' = [q \in Planners |->
            IF dialog[q] # Idle /\ dialog[q].draft = f.session.draft
            THEN [dialog[q] EXCEPT !.overlapped = TRUE] ELSE dialog[q]]
  /\ form' = [form EXCEPT ![p] = Idle]
  /\ UNCHANGED <<sessions, created, periods>>

(* The request names a date of another session of the draft. *)
EditRefused(p) ==
  /\ form[p] # Idle
  /\ DuplicateDate(form[p])
  /\ form' = [form EXCEPT ![p] = Idle]
  /\ UNCHANGED <<drafts, sessions, dialog, created, periods>>

(* StaleDataError or IntegrityError, which the handler does not catch: a   *)
(* row read before the claim is gone, or uq_draft_session_day refuses.  Or *)
(* the course has no draft to answer with.                                 *)
EditFlushFails(p) ==
  /\ form[p] # Idle
  /\ LET f == form[p] IN
     /\ ~ DuplicateDate(f)
     /\ \/ f.session.draft \notin DraftIds \/ ~ HasDraft(f.course)
        \/ /\ \A s \in sessions : s.id # f.session.id
           /\ f.date # f.session.date \/ f.room # f.session.room
        \/ \E current \in sessions :
             /\ current.id = f.session.id
             /\ \E s \in SessionsOf(current.draft) \ {current} : s.date = Merged(f, current).date
  /\ form' = [form EXCEPT ![p] = Idle]
  /\ UNCHANGED <<drafts, sessions, dialog, created, periods>>

(* The browser keeps the identity and revision of the draft it shows. *)
OpenDialog(p, c, target) ==
  /\ dialog[p] = Idle
  /\ HasDraft(c)
  /\ target \in {s.id : s \in Content(c)} \cup {Everything}
  /\ dialog' = [dialog EXCEPT ![p] =
       [course |-> c, draft |-> drafts[c].id, revision |-> drafts[c].revision,
        target |-> target, seen |-> Content(c), incarnation |-> drafts[c].incarnation,
        overlapped |-> FALSE]]
  /\ UNCHANGED <<drafts, sessions, form, created, periods>>

(* cancelled, or refused as STALE_DRAFT *)
CloseDialog(p) ==
  /\ dialog[p] # Idle
  /\ dialog' = [dialog EXCEPT ![p] = Idle]
  /\ UNCHANGED <<drafts, sessions, form, created, periods>>

(* _claim_draft_revision, for the draft the dialog names *)
TokenMatches(p) ==
  /\ dialog[p] # Idle
  /\ HasDraft(dialog[p].course)
  /\ drafts[dialog[p].course].id = dialog[p].draft
  /\ drafts[dialog[p].course].revision = dialog[p].revision

DropDraft(c) ==
  /\ sessions' = sessions \ Content(c)
  /\ drafts' = [drafts EXCEPT ![c] = NoDraft]

(* Mutant of DeleteSession: the draft outlives its last session. *)
DeleteSessionOnly(p) ==
  /\ TokenMatches(p)
  /\ \E s \in Content(dialog[p].course) :
       /\ s.id = dialog[p].target
       /\ sessions' = sessions \ {s}
       /\ drafts' = Bump(dialog[p].course)
  /\ dialog' = [dialog EXCEPT ![p] = Idle]
  /\ UNCHANGED <<form, created, periods>>

(* delete_draft_session: the last session takes its draft with it *)
DeleteSession(p) ==
  /\ TokenMatches(p)
  /\ \E s \in Content(dialog[p].course) :
       /\ s.id = dialog[p].target
       /\ \/ /\ Content(dialog[p].course) = {s}
             /\ DropDraft(dialog[p].course)
          \/ /\ Content(dialog[p].course) # {s}
             /\ sessions' = sessions \ {s}
             /\ drafts' = Bump(dialog[p].course)
  /\ dialog' = [dialog EXCEPT ![p] = Idle]
  /\ UNCHANGED <<form, created, periods>>

(* clear_course_draft *)
ClearDraft(p) ==
  /\ TokenMatches(p)
  /\ dialog[p].target = Everything
  /\ DropDraft(dialog[p].course)
  /\ dialog' = [dialog EXCEPT ![p] = Idle]
  /\ UNCHANGED <<form, created, periods>>

(* apply_operation for one course: replace_draft_schedule, or the deletion *)
(* of the draft when the accepted result schedules nothing.                *)
Regenerate(c, plan) ==
  /\ LET old == IF HasDraft(c) THEN Content(c) ELSE {}
         d == IF HasDraft(c) THEN drafts[c].id ELSE NextId(DraftIds)
     IN /\ sessions' = (sessions \ old) \cup Rows(plan, d, sessions \ old)
        /\ \/ /\ plan = {}
              /\ HasDraft(c)
              /\ drafts' = [drafts EXCEPT ![c] = NoDraft]
              /\ UNCHANGED created
           \/ /\ plan # {}
              /\ HasDraft(c)
              /\ drafts' = Bump(c)
              /\ UNCHANGED created
           \/ /\ plan # {}
              /\ ~ HasDraft(c)
              /\ drafts' = [drafts EXCEPT ![c] = NewDraft(d)]
              /\ created' = created + 1
  /\ UNCHANGED <<form, dialog, periods>>

(* _materialize_snapshot: every draft of the semester is deleted and the   *)
(* frozen ones are inserted again, in one order of the courses, with       *)
(* revision 1.  Here at most one course has a frozen draft.                *)
Materialize(c, plan) ==
  /\ drafts' = [k \in Courses |-> IF k = c /\ plan # {} THEN NewDraft(1) ELSE NoDraft]
  /\ sessions' = Rows(plan, 1, {})
  /\ created' = IF plan # {} THEN created + 1 ELSE created
  /\ UNCHANGED <<form, dialog, periods>>

(* read_generation_constraints                                             *)
ShowPeriod(t, c) ==
  /\ page' = [page EXCEPT ![t] = [course |-> c, shown |-> override[c]]]
  /\ UNCHANGED <<drafts, sessions, form, dialog, override, created>>

(* expected_revision; a course without an override has none.               *)
RevisionOf(shown) == IF shown = NoOverride THEN 0 ELSE shown.revision
PageMatches(t) ==
  /\ page[t] # Idle
  /\ RevisionOf(page[t].shown) = RevisionOf(override[page[t].course])

(* The answer of a mutation is what the page shows next.                   *)
Store(t, c, value) ==
  /\ override' = [override EXCEPT ![c] = value]
  /\ page' = [page EXCEPT ![t].shown = value]
  /\ UNCHANGED <<drafts, sessions, form, dialog>>

(* Mutant of NextRevision: another period keeps the revision.              *)
SameRevision(old) == old.revision
NextRevision(old) == old.revision + 1

(* put_generation_constraints: the same period again changes nothing.      *)
SavePeriod(t, period) ==
  /\ PageMatches(t)
  /\ LET c == page[t].course
         old == override[c]
     IN \/ /\ old = NoOverride
           /\ Store(t, c, [revision |-> 1, period |-> period, incarnation |-> created + 1])
           /\ created' = created + 1
        \/ /\ old # NoOverride
           /\ Store(t, c, IF old.period = period THEN old
                          ELSE [old EXCEPT !.period = period, !.revision = NextRevision(old)])
           /\ UNCHANGED created

(* delete_generation_constraints; its answer is read after the commit, so  *)
(* a ShowPeriod may follow.                                                *)
ClearPeriod(t) ==
  /\ PageMatches(t)
  /\ override[page[t].course] # NoOverride
  /\ Store(t, page[t].course, NoOverride)
  /\ UNCHANGED created

(* bounds *)
PeriodRoom == \A c \in Courses : RevisionOf(override[c]) < MaxRevision
DraftRoom == created < MaxDrafts
RevisionRoom == \A c \in Courses : HasDraft(c) => drafts[c].revision < MaxRevision

DraftNext ==
  \/ \E c \in Courses, date \in Dates, room \in Rooms :
       DraftRoom /\ RevisionRoom /\ CreateManual(c, date, room)
  \/ \E p \in Planners, c \in Courses, s \in sessions, date \in Dates, room \in Rooms :
       EditRead(p, c, s, date, room)
  \/ \E p \in Planners :
       \/ RevisionRoom /\ (EditWrite(p) \/ EditDraftOnly(p))
       \/ EditRefused(p) \/ EditFlushFails(p)
       \/ CloseDialog(p)
       \/ RevisionRoom /\ DeleteSession(p)
       \/ ClearDraft(p)
  \/ \E p \in Planners, c \in Courses :
       \E target \in {s.id : s \in sessions} \cup {Everything} : OpenDialog(p, c, target)
  \/ \E c \in Courses, plan \in Plans :
       \/ DraftRoom /\ RevisionRoom /\ Regenerate(c, plan)
       \/ DraftRoom /\ Materialize(c, plan)
  \/ \E t \in Tabs :
       \/ \E c \in Courses : ShowPeriod(t, c)
       \/ \E period \in PlanningPeriods : DraftRoom /\ PeriodRoom /\ SavePeriod(t, period)
       \/ ClearPeriod(t)

DraftSpec == DraftInit /\ [][DraftNext]_draftVars
-----------------------------------------------------------------------------
DraftTypes ==
  /\ drafts \in [Courses -> Draft \cup {NoDraft}]
  /\ sessions \subseteq Session
  /\ form \in [Planners -> Form \cup {Idle}]
  /\ dialog \in [Planners -> Dialog \cup {Idle}]
  /\ override \in [Courses -> Override \cup {NoOverride}]
  /\ page \in [Tabs -> Page \cup {Idle}]
  /\ created \in Nat

(* No draft is left without a session and no session without its draft,    *)
(* row ids are unique and a course never has two sessions on one day.      *)
DraftsOwnSessions ==
  /\ \A c \in Courses : HasDraft(c) => Content(c) # {}
  /\ \A s \in sessions : s.draft \in DraftIds
  /\ \A s, t \in sessions : s.id = t.id => s = t
  /\ \A b, c \in Courses : HasDraft(b) /\ HasDraft(c) /\ drafts[b].id = drafts[c].id => b = c
  /\ \A s, t \in sessions : s.draft = t.draft /\ s.date = t.date => s = t

(* A deletion that passes _claim_draft_revision removes what its planner   *)
(* confirmed, unless the draft was deleted and created again meanwhile or  *)
(* an edit of it overlapped another change (009 spec FR-016, FR-022); what *)
(* a page saves or clears with a matching revision is the planning period  *)
(* it shows, unless that was cleared and saved again.                      *)
ConfirmationCurrent ==
  /\ \A p \in Planners :
       TokenMatches(p) /\ ~ dialog[p].overlapped
         /\ dialog[p].incarnation = drafts[dialog[p].course].incarnation
       => dialog[p].seen = Content(dialog[p].course)
  /\ \A t \in Tabs :
       PageMatches(t) =>
         LET shown == page[t].shown
             now == override[page[t].course]
         IN  shown # NoOverride /\ shown.incarnation = now.incarnation => shown.period = now.period

(* 009 research.md:31 "Including parent identity also prevents an old      *)
(* confirmation from matching a newly recreated draft whose revision       *)
(* restarted at 1."                                                        *)
IdentityPinsDraft ==
  \A p \in Planners :
    TokenMatches(p) => dialog[p].incarnation = drafts[dialog[p].course].incarnation
=============================================================================
