------------------------------ MODULE Catalogs ------------------------------
(***************************************************************************)
(* The academic and resource catalogs and the holidays:                    *)
(* backend/app/services/academic_catalog.py, resource_catalog.py and       *)
(* holiday_calendar.py with their API, and the saved and published         *)
(* schedules that use their records.                                       *)
(*                                                                         *)
(* No handler here claims anything.  It loads its record, compares the     *)
(* revision the browser sent, runs its checks, and only its first write    *)
(* takes the writer lock: a Read step and a step that writes and commits.  *)
(* A handler that refuses at its checks changes nothing and has no step.   *)
(* Between the two steps the database protects only what it knows: the     *)
(* version_id_col of courses, lecturers, rooms, holidays and the periods   *)
(* of unavailability, the date of a holiday, and the foreign keys.         *)
(*                                                                         *)
(* A record is its activity, its revision and one value: what of it other  *)
(* records depend on.  Names and reference codes (unique keys), units,     *)
(* weekly times, and exams, constraints and windows of sessions as users   *)
(* of a record are left out.  A period of unavailability is its resource   *)
(* and when it is, as one number.                                          *)
(***************************************************************************)
EXTENDS Naturals, FiniteSets

CONSTANTS
  Semesters, Cohorts, StudyTypes, Windows, Courses, Lecturers, Rooms,
  Periods, Holidays,
             (* the ids of each table; Periods are those of unavailability *)
  Planners,  (* browser tabs of planners, one request in flight each       *)
  NoRow,     (* no row has this id                                         *)
  MaxDay,    (* semesters end, holidays and periods are on days 1..MaxDay  *)
  MaxSize,   (* bound: students of a cohort, seats of a room               *)
  MaxWrites, (* bound: commits of catalog handlers                         *)
  MaxPublished,         (* bound: different snapshots                      *)
  FirstRows, FirstLinks (* the catalogs at the start                       *)

ASSUME CatalogBoundsAssumption ==
  /\ MaxDay \in Nat \ {0} /\ MaxSize \in Nat \ {0}
  /\ MaxWrites \in Nat /\ MaxPublished \in Nat

VARIABLES
  row,        (* [Records -> Row or NoRow]: the catalog tables             *)
  eligible,   (* [Courses -> lecturers and rooms]: both link tables        *)
  saved,      (* [Courses -> Draft or NoRow]: live draft and its session   *)
  published,  (* the snapshots of published schedule revisions             *)
  request,    (* [Planners -> request between its two steps]               *)
  writes      (* commits of catalog handlers so far                        *)

tables == <<row, eligible, saved, published, request, writes>>

Resources == Lecturers \cup Rooms
Academic == Semesters \cup Cohorts \cup StudyTypes \cup Windows \cup Courses
Records == Academic \cup Resources \cup Periods \cup Holidays

(* The mappers that declare a version_id_col.                              *)
Versioned == Records \ (Academic \ Courses)

Days == 1..MaxDay
Sizes == 1..MaxSize
CourseFacts ==
  [semester : Semesters, cohort : Cohorts, type : StudyTypes, owner : {NoRow}, size : {0}]
Value(type, owner, size) ==
  [semester |-> NoRow, cohort |-> NoRow, type |-> type, owner |-> owner, size |-> size]

(* The relations of a course, the study type of a window, the resource and *)
(* the time of a period, the last day of a semester, the day of a holiday, *)
(* the students of a cohort, the seats of a room.                          *)
ValuesOf(r) ==
  IF r \in Courses THEN CourseFacts
  ELSE IF r \in Windows THEN {Value(y, NoRow, 0) : y \in StudyTypes}
  ELSE IF r \in Periods THEN {Value(NoRow, o, d) : o \in Resources, d \in Days}
  ELSE IF r \in Semesters \cup Holidays THEN {Value(NoRow, NoRow, d) : d \in Days}
  ELSE IF r \in Cohorts \cup Rooms THEN {Value(NoRow, NoRow, n) : n \in Sizes}
  ELSE {Value(NoRow, NoRow, 0)}

RowsOf(r) == [active : BOOLEAN, revision : Nat \ {0}, value : ValuesOf(r)]

(* A draft keeps the facts it was created with: until is the semester's    *)
(* last day then (_capture_academic_snapshot).                             *)
Draft == [semester : Semesters, cohort : Cohorts, type : StudyTypes, until : Days,
          day : Days, lecturer : Lecturers, room : Rooms]

(* What _build_snapshot captures of a course, and its semester.            *)
Captured == [cohort : Cohorts, type : StudyTypes, draft : Draft \cup {NoRow}]
Published == [semester : Semesters, until : Days, courses : [Courses -> Captured \cup {NoRow}]]

(* No id is in two tables, and no row is missing by its looks.             *)
Tables == <<Semesters, Cohorts, StudyTypes, Windows, Courses, Lecturers, Rooms, Periods, Holidays>>
ASSUME IdsAssumption ==
  /\ \A i, j \in 1..9 : i # j => Tables[i] \cap Tables[j] = {}
  /\ NoRow \notin Records \cup Draft \cup Captured
  /\ \A r \in Records : NoRow \notin RowsOf(r)

(* Any catalogs of newly created rows will do for a start.                 *)
ASSUME DataAssumption ==
  /\ \A r \in Records : FirstRows[r] \in RowsOf(r) \cup {NoRow}
  /\ FirstLinks \in [Courses -> SUBSET Resources]
  /\ \A r \in Records : FirstRows[r] # NoRow => FirstRows[r].revision = 1
  /\ \A c \in Courses : \A r \in FirstLinks[c] : FirstRows[c] # NoRow /\ FirstRows[r] # NoRow

Exists(r) == row[r] # NoRow
Active(r) == Exists(r) /\ row[r].active

-----------------------------------------------------------------------------
(* What refers to a record.                                                *)

HasDraft(c, s) == saved[c] # NoRow /\ saved[c].semester = s

Mentions(c, d) == {c, d.semester, d.cohort, d.type, d.lecturer, d.room}

SnapshotMentions(x) ==
  {x.semester} \cup UNION {{c, x.courses[c].cohort, x.courses[c].type}
                             \cup (IF x.courses[c].draft = NoRow THEN {}
                                   ELSE {x.courses[c].draft.lecturer, x.courses[c].draft.room})
                             : c \in {k \in Courses : x.courses[k] # NoRow}}

(* The catalog rows a value refers to by foreign key.                      *)
References(value) == {value.semester, value.cohort, value.type, value.owner} \ {NoRow}

PeriodsOf(r) == {u \in Periods : Exists(u) /\ row[u].value.owner = r}

Dependents(r) == {x \in Courses \cup Windows : Exists(x) /\ r \in References(row[x].value)}

(* A draft refers to its study type by a copied id only, all else is a     *)
(* foreign key.                                                            *)
SavedKeys(r) == \E c \in Courses : saved[c] # NoRow /\ r \in Mentions(c, saved[c]) \ {saved[c].type}

InSaved(r) == \E c \in Courses : saved[c] # NoRow /\ r \in Mentions(c, saved[c])
InPublished(r) == \E x \in published : r \in SnapshotMentions(x)

(* Mutant of InSchedules: the snapshots are forgotten.                     *)
InDraftsOnly(r) == InSaved(r)

(* usage_for, _snapshot_reference_count: saved schedules are counted with  *)
(* the snapshots of every revision.                                        *)
InSchedules(r) == InSaved(r) \/ InPublished(r)

Listing(r) == {c \in Courses : r \in eligible[c]}

(* The links a handler has loaded with its record.                         *)
Links(r) == IF r \in Courses THEN eligible[r] ELSE IF r \in Resources THEN Listing(r) ELSE {}

-----------------------------------------------------------------------------
(* Requests.  "write" sets activity and value, "link" replaces the         *)
(* eligibility, "insert" and "delete" are rows.  Deleting a resource loads *)
(* its periods, each with its revision.  `since' is history: what happened *)
(* to the target after the read.                                           *)

Idle == [kind |-> "idle"]
Request(kind, r, copy, active, value, links, chosen) ==
  [kind |-> kind, target |-> r, copy |-> copy, active |-> active, value |-> value,
   links |-> links, chosen |-> chosen, since |-> {},
   periods |-> IF kind = "delete" THEN {<<u, row[u].revision>> : u \in PeriodsOf(r)} ELSE {}]

(* The bound counts the commits that are still to come.                    *)
WithinBound == writes + Cardinality({p \in Planners : request[p] # Idle}) < MaxWrites

Read(p, q) ==
  /\ request[p] = Idle
  /\ WithinBound
  /\ request' = [request EXCEPT ![p] = q]
  /\ UNCHANGED <<row, eligible, saved, published, writes>>

Write(p, r, active, value) ==
  Read(p, Request("write", r, row[r], active, value, {}, {}))

Usable(r, size) == Active(r) /\ (r \in Rooms => row[r].value.size >= size)

(* create_course: its relations exist, lecturer and room are usable.       *)
CreateCourse(p, c) ==
  /\ ~ Exists(c)
  /\ \E v \in CourseFacts, l \in Lecturers, m \in Rooms :
       /\ \A x \in References(v) : Exists(x)
       /\ Usable(l, 0) /\ Usable(m, row[v.cohort].value.size)
       /\ Read(p, Request("insert", c, NoRow, TRUE, v, {}, {l, m}))

(* update_semester: no saved session may end up outside.                   *)
UpdateSemester(p, s) ==
  /\ Exists(s)
  /\ \E v \in ValuesOf(s) :
       /\ \A c \in Courses : HasDraft(c, s) => saved[c].day <= v.size
       /\ Write(p, s, row[s].active, v)

(* update_cohort, update_resource, update_course, update_study_type and    *)
(* update_time_window: relations of a course must exist, a window stays    *)
(* with its study type.                                                    *)
Update(p, r) ==
  /\ Exists(r) /\ r \in (Academic \ Semesters) \cup Resources
  /\ \E v \in IF r \in Windows THEN {row[r].value} ELSE ValuesOf(r) :
       /\ \A x \in References(v) : Exists(x)
       /\ Write(p, r, row[r].active, v)

(* set_lifecycle: nothing is in the way of archiving.                      *)
Archive(p, r) ==
  /\ r \in Academic /\ Exists(r)
  /\ Write(p, r, FALSE, row[r].value)

(* availability_for_course, without the course's own activity and the      *)
(* missing weekly window, which do not block a reactivation.               *)
Available(c) ==
  /\ \A x \in References(row[c].value) : Active(x)
  /\ \E l \in Lecturers \cap eligible[c] : Active(l)
  /\ \E m \in Rooms \cap eligible[c] : Usable(m, row[row[c].value.cohort].value.size)

Reactivate(p, r) ==
  /\ Exists(r) /\ r \in Academic \cup Resources
  /\ r \in Courses => Available(r)
  /\ r \in Windows => Active(row[r].value.type)
  /\ Write(p, r, TRUE, row[r].value)

(* delete_record: only without any usage.                                  *)
Delete(p, r) ==
  /\ r \in Academic /\ Exists(r)
  /\ Dependents(r) = {} /\ ~ InSchedules(r)
  /\ Read(p, Request("delete", r, row[r], FALSE, row[r].value, Links(r), {}))

(* remove_resource: deletes what no active course lists and no session     *)
(* uses, and inactivates everything else.                                  *)
Remove(p, r) ==
  /\ r \in Resources /\ Exists(r)
  /\ IF InSchedules(r) \/ \E c \in Listing(r) : Active(c)
     THEN Write(p, r, FALSE, row[r].value)
     ELSE Read(p, Request("delete", r, row[r], FALSE, row[r].value, Links(r), {}))

(* replace_course_eligibility: whatever is newly chosen is usable.         *)
ReplaceEligibility(p, c) ==
  /\ Exists(c)
  /\ \E chosen \in SUBSET Resources :
       /\ chosen \cap Lecturers # {} /\ chosen \cap Rooms # {}
       /\ \A r \in chosen : Exists(r)
       /\ \A r \in chosen \ eligible[c] : Usable(r, row[row[c].value.cohort].value.size)
       /\ Read(p, Request("link", c, row[c], row[c].active, row[c].value, eligible[c], chosen))

(* No other period of the resource is the same, no other holiday is on     *)
(* this day.                                                               *)
Free(r, v) == \A x \in (IF r \in Periods THEN Periods ELSE Holidays) \ {r} :
                Exists(x) => row[x].value # v

(* create_unavailability: the same period twice is refused by what is read *)
(* here, and by no constraint of the table.                                *)
CreatePeriod(p, u) ==
  /\ ~ Exists(u)
  /\ \E v \in ValuesOf(u) :
       /\ Exists(v.owner) /\ Free(u, v)
       /\ Read(p, Request("insert", u, NoRow, TRUE, v, {}, {}))

(* update_unavailability and update_holiday: a period stays with its       *)
(* resource.                                                               *)
Reschedule(p, r) ==
  /\ r \in Periods \cup Holidays /\ Exists(r)
  /\ \E v \in ValuesOf(r) :
       /\ v.owner = row[r].value.owner /\ Free(r, v)
       /\ Write(p, r, TRUE, v)

(* delete_unavailability and delete_holiday                                *)
Discard(p, r) ==
  /\ r \in Periods \cup Holidays /\ Exists(r)
  /\ Read(p, Request("delete", r, row[r], TRUE, row[r].value, {}, {}))

-----------------------------------------------------------------------------
(* The writing steps.                                                      *)

(* The history of the pending requests: their targets are created anew,    *)
(* come into use, or lose a deleted resource from their eligibility.       *)
Noted(requests, what, records) ==
  [p \in Planners |->
     IF requests[p].kind # "idle" /\ requests[p].target \in records
     THEN [requests[p] EXCEPT !.since = @ \cup {what}] ELSE requests[p]]
Answered(p) == [request EXCEPT ![p] = Idle]

(* The UPDATE or DELETE of a row finds it by its id and, with a            *)
(* version_id_col, by the revision that was read.                          *)
Found(q) ==
  /\ Exists(q.target)
  /\ q.target \in Versioned => row[q.target].revision = q.copy.revision

ForeignKeys(rs) == \A r \in rs : Exists(r)

(* Only attributes that differ from the copy are in the UPDATE; the        *)
(* revision is the copy's plus one.                                        *)
Merged(q) ==
  [active |-> IF q.active = q.copy.active THEN row[q.target].active ELSE q.active,
   value |-> IF q.value = q.copy.value THEN row[q.target].value ELSE q.value,
   revision |-> q.copy.revision + 1]

(* uq_institution_holidays_date                                            *)
DateFree(q) == q.target \in Holidays => Free(q.target, Merged(q).value)

(* update_cohort_with_capacity_impact: the rooms a cohort has outgrown     *)
(* leave the eligibility of its courses, which get a new revision.         *)
Grown(q) == q.target \in Cohorts /\ q.value.size > q.copy.value.size
Outgrown(q, c) ==
  IF Grown(q) /\ Exists(c) /\ row[c].value.cohort = q.target
  THEN {m \in Rooms \cap eligible[c] : row[m].value.size < q.value.size} ELSE {}

(* Mutant of RowsAfter: the courses keep their revision.                   *)
RowsAfterQuietly(q) == [row EXCEPT ![q.target] = Merged(q)]

RowsAfter(q) ==
  [r \in Records |->
     IF r = q.target THEN Merged(q)
     ELSE IF r \in Courses /\ Outgrown(q, r) # {}
     THEN [row[r] EXCEPT !.revision = @ + 1] ELSE row[r]]

CommitWrite(p) ==
  LET q == request[p]
  IN  /\ q.kind = "write"
      /\ Found(q) /\ ForeignKeys(References(q.value)) /\ DateFree(q)
      /\ row' = RowsAfter(q)
      /\ eligible' = [c \in Courses |-> eligible[c] \ Outgrown(q, c)]
      /\ request' = IF q.target \in Courses /\ q.active /\ ~ q.copy.active
                    THEN Noted(Answered(p), "used", eligible[q.target]) ELSE Answered(p)
      /\ writes' = writes + 1
      /\ UNCHANGED <<saved, published>>

(* Of the chosen links only those are inserted that the copy did not have. *)
CommitLink(p) ==
  LET q == request[p]
      inserted == q.chosen \ q.links
  IN  /\ q.kind = "link"
      /\ Found(q) /\ ForeignKeys(inserted)
      /\ row' = [row EXCEPT ![q.target].revision = @ + 1]
      /\ eligible' = [eligible EXCEPT ![q.target] = (@ \cap q.chosen) \cup inserted]
      /\ request' = IF row[q.target].active
                    THEN Noted(Answered(p), "used", inserted) ELSE Answered(p)
      /\ writes' = writes + 1
      /\ UNCHANGED <<saved, published>>

NewRow(value) == [active |-> TRUE, revision |-> 1, value |-> value]

CommitInsert(p) ==
  LET q == request[p]
  IN  /\ q.kind = "insert"
      /\ ~ Exists(q.target)
      /\ ForeignKeys(References(q.value) \cup q.chosen)
      /\ row' = [row EXCEPT ![q.target] = NewRow(q.value)]
      /\ eligible' = [eligible EXCEPT ![q.target] = q.chosen]
      /\ request' = Noted(Noted(Answered(p), "created", {q.target}), "used", q.chosen)
      /\ writes' = writes + 1
      /\ UNCHANGED <<saved, published>>

(* Mutant of Deletable: the database does not enforce foreign keys.        *)
DeletableAsChecked(q) ==
  \A x \in q.periods : Exists(x[1]) /\ row[x[1]].revision = x[2]

(* The foreign keys of everything but the deleted links hold back a        *)
(* deletion, for a semester those of its revisions too; the links of a     *)
(* deleted course go with it.  The periods loaded with a resource must be  *)
(* what they were; the database deletes those added since.                 *)
Deletable(q) ==
  /\ Dependents(q.target) = {} /\ ~ SavedKeys(q.target)
  /\ \A x \in published : x.semester # q.target
  /\ q.target \in Resources => Listing(q.target) \subseteq q.links
  /\ \A x \in q.periods : Exists(x[1]) /\ row[x[1]].revision = x[2]

CommitDelete(p) ==
  LET q == request[p]
  IN  /\ q.kind = "delete"
      /\ Found(q) /\ Deletable(q)
      /\ row' = [r \in Records |->
                   IF r \in {q.target} \cup PeriodsOf(q.target) THEN NoRow ELSE row[r]]
      /\ eligible' = [c \in Courses |-> IF c = q.target THEN {} ELSE eligible[c] \ {q.target}]
      /\ request' = Noted(Answered(p), "unlinked", Links(q.target) \cap Courses)
      /\ writes' = writes + 1
      /\ UNCHANGED <<saved, published>>

(* STALE_REVISION, or a foreign key that fails: the transaction is rolled  *)
(* back.  Deleting an unversioned row that is gone succeeds and does       *)
(* nothing.                                                                *)
Refused(p) ==
  LET q == request[p]
  IN  /\ q # Idle
      /\ \/ q.kind = "insert" /\ (Exists(q.target) \/ ~ ForeignKeys(References(q.value) \cup q.chosen))
         \/ q.kind = "write"
            /\ ~ (Found(q) /\ ForeignKeys(References(q.value)) /\ DateFree(q))
         \/ q.kind = "link" /\ ~ (Found(q) /\ ForeignKeys(q.chosen \ q.links))
         \/ q.kind = "delete" /\ ~ (Found(q) /\ Deletable(q))
      /\ request' = Answered(p)
      /\ UNCHANGED <<row, eligible, saved, published, writes>>

(* create_semester, create_cohort, create_study_type, create_resource,     *)
(* create_time_window and create_holiday: nothing they check can change    *)
(* before their INSERT but the owner of a window, which is a foreign key,  *)
(* and the date of a holiday, which is unique.                             *)
Create(r) ==
  /\ r \notin Courses \cup Periods /\ ~ Exists(r)
  /\ WithinBound
  /\ \E v \in ValuesOf(r) :
       /\ ForeignKeys(References(v)) /\ (r \in Holidays => Free(r, v))
       /\ row' = [row EXCEPT ![r] = NewRow(v)]
  /\ request' = Noted(request, "created", {r})
  /\ writes' = writes + 1
  /\ UNCHANGED <<eligible, saved, published>>

-----------------------------------------------------------------------------
(* The schedules: their handlers claim the semester before they read.  A   *)
(* course has a draft of one session, in one semester at a time.           *)

(* create_manual_draft_session: the captured facts are the current ones.   *)
SaveDraft(c) ==
  /\ Exists(c) /\ saved[c] = NoRow
  /\ \E s \in Semesters, l \in Lecturers, m \in Rooms, d \in Days :
       LET k == row[c].value.cohort
           draft == [semester |-> s, cohort |-> k, type |-> row[c].value.type,
                     until |-> row[s].value.size, day |-> d, lecturer |-> l, room |-> m]
       IN  /\ Exists(s) /\ d <= row[s].value.size
           /\ Active(k) /\ Active(l) /\ Usable(m, row[k].value.size)
           /\ saved' = [saved EXCEPT ![c] = draft]
           /\ request' = Noted(request, "used", Mentions(c, draft))
  /\ UNCHANGED <<row, eligible, published, writes>>

(* update_draft_session: the date stays within the captured semester; a    *)
(* resource that changes is eligible and usable.                           *)
EditDraft(c) ==
  /\ saved[c] # NoRow
  /\ \E l \in Lecturers, m \in Rooms, d \in Days :
       LET draft == [saved[c] EXCEPT !.lecturer = l, !.room = m, !.day = d]
       IN  /\ d <= saved[c].until
           /\ l # saved[c].lecturer => l \in eligible[c] /\ Usable(l, 0)
           /\ m # saved[c].room => m \in eligible[c] /\ Usable(m, row[row[c].value.cohort].value.size)
           /\ saved' = [saved EXCEPT ![c] = draft]
           /\ request' = Noted(request, "used", Mentions(c, draft))
  /\ UNCHANGED <<row, eligible, published, writes>>

ClearDraft(c) ==
  /\ saved[c] # NoRow
  /\ saved' = [saved EXCEPT ![c] = NoRow]
  /\ UNCHANGED <<row, eligible, published, request, writes>>

(* A revision is published: its snapshot has the drafts of the semester,   *)
(* and of its courses what they are now (_build_snapshot).                 *)
Publish(s) ==
  LET Part(c) == Exists(c) /\ (row[c].value.semester = s \/ HasDraft(c, s))
      snapshot ==
        [semester |-> s, until |-> row[s].value.size,
         courses |-> [c \in Courses |->
           IF Part(c)
           THEN [cohort |-> row[c].value.cohort, type |-> row[c].value.type,
                 draft |-> IF HasDraft(c, s) THEN saved[c] ELSE NoRow]
           ELSE NoRow]]
  IN  /\ Exists(s) /\ Cardinality(published) < MaxPublished
      /\ published' = published \cup {snapshot}
      /\ request' = Noted(request, "used", SnapshotMentions(snapshot))
      /\ UNCHANGED <<row, eligible, saved, writes>>

(* _materialize_snapshot replaces all drafts of the semester, unless a     *)
(* captured record is gone or a course has moved.                          *)
Restore(x) ==
  LET listed == {c \in Courses : x.courses[c] # NoRow}
      drafted == {c \in listed : x.courses[c].draft # NoRow}
      Restored(c) == [x.courses[c].draft EXCEPT !.cohort = x.courses[c].cohort,
                                                !.type = x.courses[c].type, !.until = x.until]
  IN  /\ Exists(x.semester)
      /\ \A c \in listed : /\ Exists(c)
                           /\ row[c].value.cohort = x.courses[c].cohort
                           /\ row[c].value.type = x.courses[c].type
      /\ \A c \in drafted : /\ Exists(x.courses[c].draft.lecturer) /\ Exists(x.courses[c].draft.room)
                            /\ saved[c] # NoRow => saved[c].semester = x.semester
      /\ saved' = [c \in Courses |->
                     IF c \in drafted THEN Restored(c)
                     ELSE IF HasDraft(c, x.semester) THEN NoRow ELSE saved[c]]
      /\ request' = Noted(request, "used", UNION {Mentions(c, Restored(c)) : c \in drafted})
      /\ UNCHANGED <<row, eligible, published, writes>>

-----------------------------------------------------------------------------
CatalogInit ==
  /\ row = [r \in Records |-> FirstRows[r]]
  /\ eligible = FirstLinks
  /\ saved = [c \in Courses |-> NoRow]
  /\ published = {}
  /\ request = [p \in Planners |-> Idle]
  /\ writes = 0

CatalogNext ==
  \/ \E p \in Planners :
       \/ \E c \in Courses : CreateCourse(p, c) \/ ReplaceEligibility(p, c)
       \/ \E s \in Semesters : UpdateSemester(p, s)
       \/ \E r \in Records : Update(p, r) \/ Archive(p, r) \/ Reactivate(p, r)
                             \/ Delete(p, r) \/ Remove(p, r)
                             \/ Reschedule(p, r) \/ Discard(p, r)
       \/ \E u \in Periods : CreatePeriod(p, u)
       \/ CommitWrite(p) \/ CommitLink(p) \/ CommitInsert(p) \/ CommitDelete(p)
       \/ Refused(p)
  \/ \E r \in Records : Create(r)
  \/ \E c \in Courses : SaveDraft(c) \/ EditDraft(c) \/ ClearDraft(c)
  \/ \E s \in Semesters : Publish(s)
  \/ \E x \in published : Restore(x)

CatalogSpec == CatalogInit /\ [][CatalogNext]_tables

-----------------------------------------------------------------------------
(* The tables, and the records the pending requests have read.             *)
TablesOK ==
  /\ \A r \in Records : row[r] \in RowsOf(r) \cup {NoRow}
  /\ eligible \in [Courses -> SUBSET Resources]
  /\ saved \in [Courses -> Draft \cup {NoRow}]
  /\ published \in SUBSET Published
  /\ writes \in Nat
  /\ \A p \in Planners : request[p] = Idle
       \/ /\ request[p].target \in Records
          /\ request[p].copy \in RowsOf(request[p].target) \cup {NoRow}
          /\ request[p].value \in ValuesOf(request[p].target)

(* A course, lecturer or room that still has the revision a pending        *)
(* request has read has not changed since, and neither has the eligibility *)
(* of a course but for the deletion of a resource: what the request is     *)
(* about to write replaces nobody's change (version_id_col, the revisions  *)
(* update_cohort_with_capacity_impact gives to courses).                   *)
RevisionTellsChange ==
  \A p \in Planners :
    LET q == request[p]
    IN  /\ q.kind \in {"write", "link", "delete"}
        /\ q.target \in Versioned /\ "created" \notin q.since /\ Found(q)
        => /\ row[q.target] = q.copy
           /\ q.target \in Courses /\ q.kind \in {"link", "delete"} /\ "unlinked" \notin q.since
              => eligible[q.target] = q.links

(* A record is only deleted by the request of a planner, a period also     *)
(* with its resource and, when it was loaded with it, as it was loaded     *)
(* (delete_record, remove_resource).  No saved draft loses what it refers  *)
(* to by key, no publication its semester and no active course a resource  *)
(* that it came to list after the request had looked.  What has no foreign *)
(* key of its own (the study type of a draft, what a snapshot names, the   *)
(* link of a course that was inactive) goes only when it came into use     *)
(* after the request had looked.                                           *)
DeletionSpares ==
  [][\A r \in Records :
       Exists(r) /\ row'[r] = NoRow =>
         \E p \in Planners :
           /\ request[p].kind = "delete" /\ request'[p] = Idle
           /\ request[p].target \in {r, row[r].value.owner}
           /\ \A x \in request[p].periods : x[1] = r => row[r].revision = x[2]
           /\ ~ SavedKeys(r)
           /\ \A x \in published : x.semester # r
           /\ \A c \in Listing(r) : Active(c) => c \in request[p].links
           /\ "used" \notin request[p].since =>
                /\ ~ InSaved(r) /\ ~ InPublished(r)
                /\ \A c \in Listing(r) : ~ Active(c)]_tables
=============================================================================
