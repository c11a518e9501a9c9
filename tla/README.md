# TLA+ models of planner-ressources

planner-ressources plans the courses, exams and resources of a faculty semester. A FastAPI
backend (`src/backend/app`) keeps everything in one SQLite database; a browser client
(`src/client`) is its only user interface. Planners log in; lecturers see a schedule through
review links without an account. This directory holds TLA+ models of the parts whose correctness
depends on the order of steps, the TLC configurations that check them on small instances, and
TLAPS proofs about the schedule lifecycle with the calendar requests beside it, drafts,
optimization operations, the catalogs, review links and their limits, planner accounts, the
scheduling of exams, the search for a semester and the views of what it found.

Paths below are relative to `src/`; `schedule_lifecycle.py` and its like live in
`backend/app/services/`.

## 1. What every model rests on

* **One process, one SQLite database** (`backend/app/db/session.py`). FastAPI runs synchronous
  handlers on a thread pool, so requests interleave at every database access that holds no lock.
* **The writer lock.** SQLite has one writer. Most mutating handlers begin with an UPDATE that
  changes nothing (`_claim_semester`) or with `BEGIN IMMEDIATE`; from there to the commit no
  other writer runs. Such a handler is ONE action. What it read *before* its claim is an action
  of its own: those gaps are where most of the interesting behaviour is.
* **`sessionmaker(autoflush=False)`**: a query does not see unflushed changes of the same
  session, and all changes of a transaction are flushed together in primary key order.
* **Optimistic revisions**: `version_id_col` counts the UPDATEs of a row; handlers compare what
  the browser sends with what they read under the claim.
* **No AUTOINCREMENT**: a new row gets one more than the largest id in its table, so the id of a
  deleted newest row is used again.
* **Crashes**: a transaction is committed or not. Only `optimization_operations.py` and the
  startup credentials of `planner_auth.py` have state whose recovery at start matters.
* A response may be lost. The browser then still holds what it held before.

## 2. Inventory

| Component | State | Operations | Interaction | What is hard |
|---|---|---|---|---|
| Schedule lifecycle (`schedule_lifecycle.py`) | `schedule_revisions` with snapshots, `schedule_revision_events`, the live teaching and exam rows | create, ready, return, abandon, restore, prepare and confirm a publication, edit | guards every schedule mutation; ends review links; materializes drafts and exams | overviews of different ages, a publication prepared without a lock, uniqueness over several rows, restoring old content |
| Draft schedules (`draft_schedule_repository.py`) | `draft_schedules`, `draft_sessions`, `generation_constraint_sets` | generate, create, edit and delete sessions, clear; save and clear a planning period | called by the lifecycle's materialization and by optimization | confirmations that outlive what they showed, reused ids, copies read before the claim |
| Optimization operations (`optimization_operations.py`, `optimization_worker.py`) | durable receipts, in-memory registry, a thread, a solver process and its pipe per operation | start, accept, cancel, deadline, shutdown, recovery | reads the catalogs, saves drafts through the repository | threads, locks, a process that may die, loss of the server between two writes |
| Lecturer review (`lecturer_review.py`) | links, feedback, rate-limit events | issue, revoke, replace, view, calendar, submit | links end with their revision | lazily written expiry, access decided before the claim, retried submissions |
| Planner accounts (`planner_auth.py`, middleware in `main.py`) | accounts, one-time access, sessions, startup credentials | bootstrap, recovery, login, logout, password, administration | authenticates every protected request | passwords verified outside the lock, stale account pages, restarts presenting old credentials |
| Exam scheduling (`exam_scheduling.py`, `exam_optimization.py`) | configurations, active and past exams | configure, generate, place, correct, delete | reads teaching and catalogs; restored with a revision; one EditExams step of the lifecycle model | generation between preparation and claim, exams that pass with the day, exams that end at midnight |
| Planning outcomes (`planning_outcomes.py`) | newest outcome per revision, course and kind | record, read | written by exam generation and by a saved optimization, read by the calendar | out-of-order completions, an unlocked check before the write |
| Conflict-aware generation (`conflict_aware_generation.py`, `semester_optimization.py`, `schedule_generation.py`, OR-Tools) | none; the search runs in the solver process | prepare, search objective by objective, validate a candidate | behind optimization | candidates that lose the optimum, values carried between objectives, deadlines in the middle, the same rules in several implementations |
| Draft validation (`draft_schedule_validation.py`, `resource_rules.py`) | none (pure) | alerts of a schedule | read by the schedule page, publication and the calendar | interval boundaries, inputs each caller loads on its own |
| Academic and resource catalogs (`academic_catalog.py`, `resource_catalog.py`) | semesters, cohorts, study types, windows, courses, lecturers, rooms with revisions; the eligibility of courses | create, update, archive, reactivate, delete or remove, replace an eligibility | inputs of everything; saved drafts and snapshots use the records | handlers that claim nothing, usage counted before a delete, records without a version check |
| Unavailability periods (`resource_catalog.py`), holiday calendar (`holiday_calendar.py`) | periods of a resource, holidays with unique dates, each with a revision | create, edit, remove | inputs of validation and generation; periods go with their resource | stale revisions, a resource deleted while its periods change |
| Calendar workspace (`calendar_workspace.py`) | none | working and published view with findings | reads rows, catalogs, snapshots and outcomes | reads without a lock, findings derived a second time |
| Calendar export | none | iCalendar of a review link | reads the rows | formatting only |
| Browser client | pages, dialogs | sends what a page shows | every other part | stale pages |
| Migrations, scripts, containers | schema, files | offline | | not concurrent |

### The properties that make each component correct

* *Lifecycle*: one working and one published revision at most; an accepted state token saw the
  whole history; a publication is only replaced by another and is exactly what its dialog showed;
  nothing a planner saved under a revision is lost; the event history explains every row.
* *Drafts*: a draft exists exactly when it has sessions, on distinct days; a deletion that is
  accepted removes what its confirmation showed.
* *Optimization*: a result is saved at most once, over the inputs it was computed from, and never
  over sessions nobody agreed to replace; no solver or receipt outlives its operation; an ending
  stands; a computation settles.
* *Review links*: only an active, unexpired link of a current revision gives access; an ended link
  stays ended; at most one active link per revision and lecturer; feedback is stored once; no window
  of time lets more requests through than its limit, and a block lasts.
* *Accounts*: exactly one usable administrator; a session does not outlive its password; blocking
  blocks; access fits the account it is for; a retired startup value stays retired.
* *Exams*: a course has at most one exam of today or later; exams never collide with each other
  and, when placed, with teaching; a configuration generates at most one exam.
* *Search*: what an offer calls proven is best in the whole space; an offer passes the exact check and
  raises no alert once accepted; the few start times that are tried lose nothing.
* *Views*: the page, the dialog, the calendar and the publication tell the same of a semester; a
  calendar shows one revision; the retained outcome should be the newest, and is not (finding 4).
* *Catalogs*: a revision that still matches means that nothing has changed; what is deleted is
  used by nothing.

## 3. Modules

| Module | Models | Specification |
|---|---|---|
| `RevisionStates` | what the lifecycle promises: a register of revision states and frozen contents | abstract |
| `ScheduleLifecycle` | `schedule_lifecycle.py` and its API | detailed, implements `RevisionStates` |
| `ScheduleLifecycleProofs` | theorems about `ScheduleLifecycle` and `SemesterWorkspace` | proofs |
| `DraftSchedule` | `draft_schedule_repository.py` and its API | |
| `DraftScheduleProofs` | theorems about `DraftSchedule` | proofs |
| `OptimizationOperations` | `optimization_operations.py`, the solver process, the lifespan of `main.py` | with fairness |
| `OptimizationAndCatalogProofs` | theorems about `OptimizationOperations` and `Catalogs` | proofs |
| `LecturerReview` | `lecturer_review.py` and its API, over revisions that move as `RevisionStates` says | composes `RevisionStates` |
| `LecturerReviewProofs` | theorems about `LecturerReview` | proofs |
| `PlannerAuth` | `planner_auth.py`, its API, the middleware | |
| `PlannerAuthProofs` | theorems about `PlannerAuth` | proofs |
| `ExamScheduling` | `exam_scheduling.py`, `exam_optimization.py` and their API, with the day, the teaching and the catalogs around them | |
| `ExamSchedulingProofs` | theorems about `ExamScheduling` | proofs |
| `ReviewLimits` | the limits on views, feedback and unknown links of `lecturer_review.py` | |
| `ReviewLimitsProofs` | theorems about `ReviewLimits` | proofs |
| `ScheduleValidation` | `draft_schedule_validation.py`, `resource_rules.py` | operators |
| `TeachingPlacement` | the load of an operation, the candidates, the constraints and the objectives of `semester_optimization.py`, the exact check of `conflict_aware_generation.py` | operators |
| `SemesterSearch` | the search of `optimize_semester` over any space of arrangements, in the solver process | |
| `SemesterSearchProofs` | theorems about `SemesterSearch`, `SemesterPlanning` and `SavedSemester` | proofs |
| `SemesterPlanning` | the search over the arrangements of `TeachingPlacement` | composes the two |
| `PublicationConditions` | what page and publication dialog say of a plan and what a snapshot captures | operators |
| `CalendarWorkspace` | the occurrences and findings of `calendar_workspace.py` | operators |
| `SavedSemester` | an accepted arrangement, edited and overtaken by the catalog | composes `SemesterPlanning` and `CalendarWorkspace` |
| `CalendarReading` | the reads of a calendar request beside the lifecycle | extends `ScheduleLifecycle` |
| `SemesterWorkspace` | the lifecycle with calendar requests beside it | composes the two |
| `PlanningOutcomes` | `planning_outcomes.py` as exam generation calls it, beside the lifecycle | extends `ScheduleLifecycle` |
| `Catalogs` | `academic_catalog.py`, `resource_catalog.py`, `holiday_calendar.py` and their API, with the schedules that use the records | |
| `MC*` | constants and symmetry sets for TLC | |

Each module names the code of an action in the comment above it; `PROJECT.json` maps every
definition to its lines. A definition called "Mutant of X" is a plausible wrong version of `X`: it
is used by no action and exists so that each property can be seen to fail on it.

### ScheduleLifecycle

`rows` is `schedule_revisions` (state, `row_version`, origin, `snapshot_document`), `events` the
history, `live` the mutable teaching and exam rows, `cohort` a catalog fact frozen into snapshots.
`held` is the state token of the overview a planner's browser shows; the digest is taken to be
injective, so a token *is* its material. `preparation` is the publication dialog; preparing reads
lifecycle and teaching rows (`PrepareOverview`) and the exams (`PrepareContent`) at different
moments. `Answered` lets every answer arrive or be lost. `saved` and `heldAt` are history
variables. The revision number and the row's identity agree within a semester.

A row keeps its `snapshot_document` after a restore (013 data-model.md:43 calls it null for a
working revision). The refinement mapping therefore hides the snapshot of a working row.

### DraftSchedule

A course has at most one draft; a session has a day and a room, the room standing for every field
that does not decide identity. `edit_draft_session` loads session and draft before the claim:
`EditRead` and `EditWrite` with the copies in `form`. At the write only changed attributes go
into the UPDATE, and `draft.revision += 1` is computed from the copy (`Merged`); an edit that changes
nothing of its session writes the draft even when the session is gone (`EditDraftOnly`). `dialog` is an
open deletion confirmation with the draft id and revision it shows; the history fields of it
(`seen`, `incarnation`, `overlapped`) say what the planner was shown. Solver results and frozen
drafts are a constant set of plans. `override` has the planning periods saved for the next generation
of a course, `page` what the open pages show of them: `ShowPeriod`, `SavePeriod`, `ClearPeriod`.

### OptimizationOperations

Per operation: the receipt (`phase`), the live object (`registered`, `discarded`, `candidate`),
the run thread as a program counter (`run`), the solver (`worker`, `pipe`), the deadline, and a
cancel request between its look-up and its lock (`cancelling`). `live.lock` is held while the
thread is at "decide" or "check". An apply holds both `live.lock` and the writer lock, so it is one
step. The solver's search is the choice of what it sends. `ProcessEnds` loses everything but
receipts and planning data; `Restart` runs `recover_interrupted_operations`.
`overlooked` is a history variable that marks the operations of the finding on cancellation, so
that `EndingsStand` can say that no *other* ending is written over.

### LecturerReview

`links` has one record per link ever issued. Planner handlers claim first and read the clock
afterwards: one step. A lecturer's request resolves link and clock first (`Arrive`) and then waits
for the claim (`View`, `SubmitNew`, `Replay`, `Refused`, `Unavailable`). Expiry is written by
whichever handler meets it (`Materialized`). The lifecycle handler that ends a revision ends its
links in the same transaction (`MoveRevision`, `LinksAfter`). The clock read at arrival also
decides expiry after the claim (`lecturer_review.py:482,591`), so a request that waits past the
expiry is still served; `AccessOnlyByUsableLinks` is stated for the moment of arrival, as the code
decides it (015 FR-015 asks for no grace period).

### PlannerAuth

A login is `LoginRead` (password verified against the hash read) and `LoginClaim`. A protected
request is `Authenticate`, a handler, and `Touch`, which selects and later writes the session by
row id (`TouchWrite`). `EndSession` deletes by a row id read before; ids are reused, so it can
delete a session that a login has just created - the client then logs in again. `list` is the
account page of a browser: administrator actions are offered by what the page shows and carry the
account revision it shows.

### ExamScheduling

`exams` and `config` are the rows of one semester, `teaching` its draft sessions, `today` the
institution's day. An exam of today or later is *active*: nothing is written when it passes. What
eligibility, capacity, holidays and unavailability allow is one relation, `catalog`. Manual
placement (`CreateManual`), `Correct` and `Delete` claim the semester first and are one step each.
Saving a configuration claims nothing: `SaveRead`, then `SaveWrite` or, when its `version_id_col`
has moved, `SaveRefused`. Generation is three steps: it compares its preparation
(`GeneratePrepared`), computes an arrangement from rows read again without a lock
(`GenerateArrange`), and compares everything a second time under the claim (`GenerateSave`,
`GenerateStale`). The tokens digest the inputs, so a token *is* `CurrentInputs`. `Better` is the
objective of the solver: most exams, then most inside the recommended window; its last term only
orders equally good arrangements. `SwitchRevision` is the lifecycle seen from here: the rows are
frozen and others brought back, while the configurations stay. `torn` is a history variable, see
the observations below.

### Catalogs

No catalog handler claims anything: it loads its record, compares revisions, checks, and takes the
writer lock with its first write. Every handler is therefore a reading step (`UpdateSemester`,
`Update`, `Archive`, `Reactivate`, `Delete`, `Remove`, `CreateCourse`, `ReplaceEligibility`, and
for periods and holidays `CreatePeriod`, `Reschedule`, `Discard`) that leaves what it loaded in
`request`, and one of `CommitWrite`, `CommitLink`, `CommitInsert`, `CommitDelete` or `Refused`. The
queries of one reading step see one state. `row` has the records of all nine tables; a record is its
activity, its revision and the one value other records depend on.
Only what differs from the loaded copy is in the UPDATE (`Merged`); courses, lecturers, rooms,
periods and holidays have a `version_id_col`, holidays a unique date, and the tables have foreign
keys (`Found`, `DateFree`, `ForeignKeys`, `Deletable`), nothing else protects a commit. A resource
is deleted with the periods loaded with it, if they are what they were, and the database deletes
those that were added since. The schedules around the catalogs claim first and are one step each
(`SaveDraft`, `EditDraft`, `ClearDraft`, `Publish`, `Restore`): a course has at most one draft of
one session, and `published` has the snapshots of published revisions (those in review are left
out). The field `since` of a request is history: what happened to its target after it was read.

### ReviewLimits

The events of a link and the row of a source are what the limits count. A request reads the clock
when it arrives (`Arrive`) and is counted when it holds the writer lock, after the source was
admitted (`Admit`), so requests are counted in an order that is not that of their times; `MaxWait`
is the busy timeout of the database, the longest such delay. `Record` keeps the newest attempts of a
source within its window and blocks it; `Cleanup` is the periodic thread of `main.py`, which forgets
a source some time after its last attempt. `RetentionAssumption` says how long that must be at least:
a window and two waits, because the attempt that was seen last may have waited, and so may the next
one; the code keeps 14 minutes for a window of 5.

### The search: TeachingPlacement, SemesterSearch, SemesterPlanning

`SemesterSearch` is the loop over the eight objectives: one action for every message and every end
of a solve, the candidate that is offered, what is said to be proven of it, and the bound on the
units. OR-Tools is any solver that keeps its promise: solutions satisfy the model and improve, an
optimal one is best, a bound bounds. Which arrangements there are and what they are worth is given
by constants. `SemesterPlanning` gives them from `TeachingPlacement`, where `Offered` generates the
candidates with their start times, resources and exclusions, `Arrangements` are the selections the
constraints admit and `Worth` their objectives. The parameters production fixes are fixed:
generated sessions only, unproven results allowed. A time is a number of ticks, a minute
(`Minute`, for the calendar) two of them, so that there are times with seconds.

`Prepared` says what of an input the load guarantees, `Admitted` what a solution of the constraints
is, without saying how it is found. `ScheduleValidation` is the third implementation of the same
rules: the alerts.

### The views: PublicationConditions, CalendarWorkspace, SavedSemester

A plan is a set of teaching sessions and exams with the facts of the catalog. `PageAlerts`,
`DialogAlerts`, `ExamIssues`, `Conditions`, `Captured`, `WorkingContent`, `PublishedContent` and
`Findings` are the four views of it, each from the inputs its code loads. `SavedSemester` accepts a
completed search (`Accept`), lets a planner edit a session (`EditSession`: the form sends a date,
times and a room, and may leave lecturer and units as they are) and the catalog change
(`ChangeCatalog`), and compares the views.

### SemesterWorkspace

`CalendarReading`: a calendar request reads the revisions, the teaching rows, the exam rows and the
revisions again (`OpenWorking`, `ReadTeaching`, `ReadExams`, `Answer`), with every transition in
between; `readOf` is the history of the revisions that were worked on while it read.

### PlanningOutcomes

A generation that saves exams retains its outcome under the claim (`SaveArrangement`), one that
placed nothing completes (`PlaceNothing`), looks (`FindRetained`) and writes (`Retain`) in three
steps. An outcome is the number of its completion; what it says is left out.

## 4. Runs

Every configuration has `CHECK_DEADLOCK FALSE`: the bounds (revisions, history, links, logins,
clock) end every behaviour, and the system itself may wait for a request for ever.

| Run | Instance | What it shows |
|---|---|---|
| `lifecycle` | 2 planners, 2 teaching contents, 2 cohorts (all symmetric), 1 exam content, 2 revisions, 6 events, 1 calendar; `OneWorksBesideIt` | SingleWorkingSinglePublished, TokenPinsHistory, HistoryExplainsRows, SavedContentSurvives, PublishedAsShown, ImplementsRevisionStates with overviews of different ages and lost answers; WorkspaceOfOneRevision |
| `lifecycle_restored_publication` | 1 planner, 2 revisions | violation, finding 1 |
| `planning_outcomes` | 2 generations in flight, 3 completions, 1 revision | violation, finding 4 |
| `drafts_and_operations` | drafts: 1 planner, 2 courses, 2 dates, 2 drafts, 3 revisions, 2 pages, 2 planning periods, `DraftsOrPeriods`; operations: 1 operation, 2 input versions, 1 crash, fairness; `OneAfterTheOther` | DraftsOwnSessions, ConfirmationCurrent; SavedOnceOverItsInputs, FinalizationReplacesNothing, NothingLeftBehind (no solver and no receipt), AnswerNeverLost, EndingsStand, ComputationSettles |
| `draft_identity` | 1 planner, 1 course | violation, finding 2 |
| `optimization_cancellation` | 1 operation, no crash | violation, finding 3 |
| `review_links` | 2 revisions, 1 lecturer, 1 browser, 3 links, 2 comments, clock to 1 | ActiveLinksAreCurrent, EndedLinksStayEnded (which includes that replacements form chains), AccessOnlyByUsableLinks, FeedbackStoredOnce |
| `review_limits` | 4 requests (symmetric), 1 source, limits of 1 to 3, windows of 1 to 3 ticks, clock to 4 | RequestsWithinLimits, UnknownLinksBlock, BlocksLast |
| `planners` | 2 clients, 2 accounts, 2 passwords, 2 startup values (symmetric), 3 logins, clock to 3; `OneBrowserOrOneAccount` | OneUsableAdministrator, AccessFitsItsAccount, SessionsMatchPasswords, FailuresBlock, RetiredStaysRetired, ActsOnWhatIsListed, BlocksHold |
| `exams` | 1 planner, 2 courses sharing a room, 2 revisions (symmetric), 2 days of 3 slots, 2 plans, 2 catalogs, configuration revision up to 3; `OneCourseOrOneRevision` | ExamsNeverCollide, OneActiveExam, PlacedExamsFit, GeneratedFromFresh |
| `planning` | 14 semesters of up to 2 courses, 2 lecturers, 2 rooms, 2 or 3 days of 12 ticks, a unit of 4 and a break of 2; then 1 edit and 1 change of the catalog | OffersAreHonest, OffersAreSafe, PlannedStartsLoseNothing, ViewsAgree |
| `catalogs` | 2 planners (symmetric), a semester, cohort, study type, course, lecturer, room and period, a window and 2 holidays (symmetric) not yet created, 2 days, 2 sizes, 3 commits, 1 snapshot | RevisionTellsChange, DeletionSpares |

**Why these bounds are enough to mean something.** Two revisions are a published one and another that
supersedes it, waits, is abandoned or is restored; six events reach the longest stories that matter
(create, publish, create, publish with its supersession; create, abandon, create, publish, restore).
Two planners are a stale and a current one; the theorems below remove these bounds for every
property of the run. Two drafts in sequence are what a reused row
id needs; two courses show that one draft's steps leave the other alone. One optimization meets
every actor that can touch it: operations share only the registry lock and the planning data, whose
changes by another operation are `ChangeInputs`. Three links make a chain with a middle. One tick
of the clock takes a link or an access past its end; the login run needs three, so that a block
starts, holds and ends. `FailureLimit` is 2 instead of 10: concurrent failures meet at the limit.
Two days and one slot of teaching leave room for an exam before, beside and after another one, in
the past and at midnight; three revisions of a configuration are a save, a use and a return. One exam generation is in flight at a time in `exams`, against manual steps and changes of
everything it reads; any number of generations is what the theorems add. Three commits of the catalogs are a deletion, a
new record with the same id and one more write, against two requests in flight and any number of
steps of the schedules; one snapshot is enough to use a record that no draft uses any more. The comments of a review
browser, the revisions of the exam run, the holidays not yet created and the contents of the lifecycle are interchangeable in the models, so their symmetry sets
are sound; no run that uses one checks liveness.

Some runs join two questions in one graph and name the bound that keeps them apart in a CONSTRAINT.
`OneWorksBesideIt` (`lifecycle`): a calendar is open beside one planner who loses no answer; both
planners race when none is, with two publication dialogs during the first four events. `OneBrowserOrOneAccount` (`planners`): one
browser over two accounts for one tick and two logins, or two browsers over one account for three
ticks. `OneCourseOrOneRevision` (`exams`): one course whose revision is switched, or two courses in
one revision with configurations saved twice. The states beyond a constraint are checked but not
followed, and each half has what its properties need: a calendar needs transitions and edits of one
planner, logins meet at a block and a page goes stale
in one browser. `DraftsOrPeriods` (`drafts_and_operations`, `draft_identity`): drafts, or planning periods; no action
reads both. The steps of `drafts_and_operations` are kept apart in its next-state relation instead:
`OneAfterTheOther` lets the drafts or the optimization move while the other has not begun. What the
other does is already in each of them: to an operation, what planners do with drafts is
`ChangeInputs`; to a draft, what an operation saves is `Regenerate`.

The semesters of `planning` have a day that is three units long, so sessions of one and two units,
with and without the break, meet windows, unavailability that starts or ends inside a unit, exams
before and after teaching, teaching of other courses, holidays and past days; two courses share a
cohort, a lecturer or a room in turn. `PlannedStartsLoseNothing` compares with all arrangements of
sessions that start at any tick, which is every multiple of half the break; the theorem does so
for days of any number of ticks. The elements of a space
are numbers: TLC computes the arrangements and their worth once. One edit and one change of the
catalog, in either order, put every issue on some session or exam: the views are functions of the
plan, so longer sequences only reach more plans.

**Findings** (the runs that expect a violation; `PROJECT.json` quotes the sources):

1. Publishing a restored revision that is older than the current publication ends in an internal
   server error, whenever it is retried: the flush publishes before it supersedes.
2. A confirmed deletion can match a draft created after the one it was opened for.
3. A cancellation between commit and registration of an operation is written over.
4. A generation that placed nothing writes its outcome over a newer one that was retained after it
   had looked (014 spec.md:321, FR-034): g1 completes second and finds the first outcome, g2
   completes third and saves, g1 writes.

**Also observed** (in the models or while writing them; no run of their own):

* Two overlapping edits of a draft leave one revision increment (`draft_schedule_repository.py:761`),
  so a confirmation opened between them matches changed sessions, against 009 research.md:31.
* A planning period that is cleared and saved again has revision 1 again
  (`draft_schedule_repository.py:269`): a page that shows the first one saves over the second one or
  clears it. An optimization that is running notices, its token has the dates.
* A link past its expiry still refuses the issue of a new one: the issuing query does not see the
  expiry that the same request has just set (`lecturer_review.py:147`), against 015 data-model.md:66.
* Neither generation nor manual placement compares a date with today. An exam can be generated for a
  past day: the configuration is consumed and no active exam exists, against 012 spec FR-021.
* `save_exam_configuration` takes no claim. A past exam that is moved to a coming day, or a restored
  revision, between its check and its write leaves a fresh configuration beside an active exam,
  against 012 FR-007; `OneActiveExam` holds nevertheless.
* Manual placement does not ask whether the configuration is consumed; only generation does.
* Restoring a revision brings its exams back but leaves the configurations as they are: consumed
  ones without an exam, fresh ones beside one.
* An arrangement is computed from rows read between two comparisons. Inputs that change and change
  back in between go unnoticed, and the saved exams may collide: `torn` marks exactly these saves.
* Semesters, cohorts, study types and windows have a revision but no `version_id_col`
  (`models/planning.py:265-340,833-872`): of two overlapping edits that expect the same revision
  both succeed, against 007 FR-033 (spec.md:160). `RevisionTellsChange` speaks of the others.
* A semester that is shortened while a draft is saved, or before a draft is edited (an edit compares
  with the captured dates, `draft_schedule_repository.py:678`), leaves a session outside it, against
  007 FR-036 (spec.md:163).
* Removing a lecturer while an inactive course that lists it is reactivated leaves an active course
  without a lecturer, against 008 FR-007 (spec.md:136).
* A record deleted while a draft with it is saved, published and cleared leaves a snapshot that
  names a record that is gone: snapshots hold no foreign keys.
* Replacing an eligibility while the cohort grows can add a room that is too small, against 008
  FR-043 (spec.md:172): the course gets a new revision only if it lists an outgrown room already.
* Two requests that create the same period of unavailability at the same time both succeed: the
  check for duplicates (`resource_catalog.py:440`) has no constraint in the table behind it, against
  008 FR-017 (spec.md:146).
* The delete endpoint does not catch a failed version check (`api/academic_catalog.py:330`): a
  course changed during its deletion ends in an internal server error.

* The schedule page loads the windows of the study type a draft was made with, while the alert looks
  up the type the course has now (`api/draft_schedule.py:515`, `draft_schedule_validation.py:577`):
  after a change of the study type the page reports missing data instead of the windows, against
  I-003 spec.md:261. The publication dialog loads both. `ViewsAgree` speaks of the page only while
  study types stay.
* The calendar of the working revision derives no order of exam and teaching (an exam before the final
  session, or without one, `calendar_workspace.py:877`); the publication dialog and the calendar of the
  publication have it. 014 spec FR-038 counts a current exam issue as needing review.
* The calendar groups sessions by the name of the cohort a course has now, exams by the name kept in
  the exam, while the alerts use the cohort kept in the session, so they differ after a course moved
  to another cohort (014 spec.md:317, FR-030); and it drops the seconds of the times of sessions,
  exams and windows. `ViewsAgree` leaves both out.
* Teaching and exams of one calendar answer may be of different moments of the same revision: edits
  change no `row_version`, so the second signature does not see them (014 research.md:18-19).
* The same gap as in finding 4 lets a generation that placed nothing write its outcome under a
  revision that ended after it had looked (014 research.md:66-69). `StalePlanningOutcomeError` is caught nowhere and ends in an internal server error.
* The attempts of a source are not sorted when requests cross (015 data-model.md:202), and an attempt
  may fall out of a window early; a stored link that has ended does not count as an unknown one.
  `UnknownLinksBlock` speaks of attempts counted in the order of their times.
* The first solution of a later objective need not be as good in it as the candidate already shown,
  so a deadline can offer a worse one; it is as good in everything that is proven.
* Teaching can be generated for past days, and only exams of today or later are protected from it.

The passing runs hold beside these: `ConfirmationCurrent` excludes exactly the confirmations of
finding 2 and of overlapped edits, `ExamsNeverCollide` and `PlacedExamsFit` exactly the torn saves,
`EndingsStand` exactly the cancellation of 3 and a start that fails after a cancellation
(`StartFails`, optimization_operations.py:170), `DeletionSpares` exactly what came into use
after the deletion looked and is protected by no foreign key: the study type copied into a draft,
what a snapshot names, and the link of a course that was inactive. `OutcomesAreLatest` holds of no
part of the code worth a passing run: what remains without the writes of finding 4 is the comparison
in `retain_planning_outcome` itself.

## 5. Fairness

Only `OptimizationOperations` states liveness (`Fairness`, `ComputationSettles`). Weak fairness is
assumed of what the operating system schedules once it is started: the start request after its
commit (registering, then starting the thread or failing), the run thread's steps, the passing of
the deadline, and the restart after the process ended (the container restarts it). Nothing is
assumed of the solver, which may never answer, of planners, or of crashes. An operation that waits
for a decision never times out; the code intends that, so `ComputationSettles` speaks of computing
phases only.

## 6. Proofs

Every theorem holds for all values of the constants that satisfy the named assumptions; the bounds
that make a run finite (`MaxRevisions`, `MaxTime` and their like) are arbitrary naturals in it. TLC
evaluates each assumption in the run of its module. A proof follows one pattern: an inductive
invariant, one lemma per action that says what it does, and the properties from the invariant.

### Lifecycle

`ScheduleLifecycleProofs`, for every set of planners, contents and cohorts, from `BoundsAssumption`
(bounds are naturals).

| Theorem | Statement |
|---|---|
| `TypeInvariant` | `Spec => []TypeInv` |
| `TypeCorrect` | `Spec => []TypeOK` |
| `AtMostOneOfEach` | `Spec => []SingleWorkingSinglePublished` |
| `SavedWorkSurvives` | `Spec => []SavedContentSurvives` |
| `CurrentTokenIsFresh` | `Spec => []TokenPinsHistory` |
| `WhatIsShownIsPublished` | `Spec => PublishedAsShown` |
| `HistoryAlwaysExplains` | `Spec => []HistoryExplainsRows` |
| `Refinement` | `Spec => ImplementsRevisionStates` |
| `PublicationIsNeverLost` | `Spec => PublicationNeverLost` |
| `LifecycleGoesOn` | `WorkspaceSpec => Spec` |
| `WorkspaceIsOfOneRevision` | `WorkspaceSpec => WorkspaceOfOneRevision` |

*The argument.* `TypeOK` alone is not inductive: a publication or restoration materializes a
snapshot that might be NULL. `TypeInv` adds `RowsMatchStates`: a row that is neither absent nor
working has a snapshot. `SingleWorkingSinglePublished` and `SavedContentSurvives` are then
preserved action by action. `TokenPinsHistory` needs a measure: `TokenAge` says that every version
and event sequence of a held token is at most the current one, and that a token read at a shorter
history names an older version of some row; every transition raises the version of the row it
changes, so a token that equals the current one was read after the last transition. The refinement
maps the row states to the register and a working row's retained snapshot to "nothing frozen".
`PublicationNeverLost` is a consequence of the refinement and has no run of its own.

The history is explained transition by transition: each appends one event, or the pair of a
supersession and its publication, to the rows it changes, and `HistoryInv` relates version, state
and last event of a row to the set of its events, whose sizes are computed with the library's facts
about finite sets.

The run checks the composition `SemesterWorkspace`, where calendar requests step beside the
lifecycle. `LifecycleGoesOn` says that the composition implements
`ScheduleLifecycle`, so all theorems above hold in it. A calendar answers only when the versions it
read first are still current: `ReadingInv` says that the versions in a signature never exceed the
current ones, and that a request whose revision is no longer worked on has a signature that some
transition has passed for ever.

### Drafts

`DraftScheduleProofs`, for every set of courses, planners, pages, days and rooms, from
`PlansAssumption` (a plan has at most one session a day), `ValuesAssumption` (the placeholders are
no values), `DatesAssumption` and `NumbersAssumption` (days and bounds are naturals).

| Theorem | Statement |
|---|---|
| `InvHolds` | `DraftSpec => []Invariant` |
| `TypesHold` | `DraftSpec => []DraftTypes` |
| `DraftsOwnTheirSessions` | `DraftSpec => []DraftsOwnSessions` |
| `ConfirmationsAreCurrent` | `DraftSpec => []ConfirmationCurrent` |

*The argument.* A new row gets one more than the largest id, so an id that was never used since a
row was read and is not in the table may come back, but never beside the row it names (the lemmas on
`NextId` and the maximum of a finite set). Seen from one course every step is one of three things:
the draft stays; its sessions change and its revision grows; or it is a new incarnation
(`Follows`). From that, what an open confirmation or page knows stays true: either the draft is of
another incarnation or revision, or it is what was shown, or an overlapped edit is marked.
An edit in flight is the hard case: its copies may be of a draft that is gone, of a recreated one
with the same id, or of an older revision.

### Optimization

`OptimizationAndCatalogProofs`, for any number of operations and inputs side by side and any number of losses
of the process, from `BoundsAssumption` and `NoneAssumption`.

| Theorem | Statement |
|---|---|
| `TypesHold` | `Spec => []TypeOK` |
| `InvHolds` | `Spec => [](TypeOK /\ Inv)` |
| `SavesAreExact` | `Spec => []SavedOnceOverItsInputs` |
| `FinalizationsOnlyFill` | `Spec => []FinalizationReplacesNothing` |
| `NothingIsLeftBehind` | `Spec => []NothingLeftBehind` |
| `AnswersArrive` | `Spec => []AnswerNeverLost` |
| `EndingsAreFinal` | `Spec => EndingsStand` |

*The argument.* `OperationInv` is about one operation: without a process there is nothing in memory
(`NothingInMemory`); before the thread has spawned a solver there is no answer; nobody works on an
ended receipt except a thread that will find itself discarded (`Worked`); the lock is never held by
what is discarded (`LockedIsLive`); and an answer that was sent is in the pipe or in what the thread
has received (`AnswerKept`), which is what lets the thread conclude from a dead process with an
empty pipe that there was none. A step of one operation leaves this of all others unchanged; the
steps of the server change them all at once.

### Catalogs

The second half of `OptimizationAndCatalogProofs`, for any catalogs, any number of planners and of
writes, from `IdsAssumption` (an id belongs to one table, and no row is `NoRow`) and `DataAssumption`
(the catalogs at the start are of newly created rows). It shares no lemma with the first half.

| Theorem | Statement |
|---|---|
| `TablesAreTyped` | `CatalogSpec => []TablesOK` |
| `RevisionsTellChange` | `CatalogSpec => []RevisionTellsChange` |
| `DeletionsSpare` | `CatalogSpec => DeletionSpares` |

*The argument.* `RequestInv` is what a request knows while others write. Let its target not have
been created anew. The revision of its copy is at most the one in the table; where they are equal,
row and copy are equal, and the links of a course are those that were loaded, unless a resource was
deleted; and unless something came to use the target, nothing uses what is to be deleted. A reading
step leaves a request of which all that is true at once (`Fresh`, `ReadsAreFresh`). Of every other
step two facts are enough (`StepKeeps`). `RevisionsRise`: a versioned row gets a higher revision or
stays with its links, or else the requests for it are told in `since`; the hard cases are a cohort
that grows, whose outgrown rooms leave courses nobody asked to change, and a deleted resource, which
leaves the eligibility of courses whose revision stays. `UsesAreTold`: what comes to be mentioned by
a draft or a snapshot, or listed by an active course, is told too, also by a reactivated course and
by a restored revision. That only a deletion removes rows is `OnlyDeletions`; that the periods it
takes along were used by nothing is `OnlyTeachingIsUsed`.

### Review links and their limits

`LecturerReviewProofs`, for any number of links, lecturers, revisions, browsers and feedbacks, from
`NonEmptyAssumption`, `DurationsAssumption` (a link lasts) and `BoundsAssumption`.

| Theorem | Statement |
|---|---|
| `TypesHold` | `Spec => []TypeOK` |
| `InvHolds` | `Spec => [](TypeOK /\ Inv)` |
| `LinksAreCurrent` | `Spec => []ActiveLinksAreCurrent` |
| `EndedLinksStay` | `Spec => EndedLinksStayEnded` |
| `AccessIsUsable` | `Spec => AccessOnlyByUsableLinks` |
| `FeedbackIsStoredOnce` | `Spec => FeedbackStoredOnce` |
| `RevisionsAreCurrent` | `Spec => []Lifecycle!SingleWorkingSinglePublished` |

*The argument.* The handlers do one of three things to the links: they end some of them
(`OnlyEnds`), and besides issue one where none is active (`Issues`) or replace an active one
(`Replaces`). The invariant of the links follows from these three shapes. A request that was refused
a usable link when it arrived still waits for one that has ended or expired (`RequestsInv`).

`ReviewLimitsProofs`, for any finite set of requests, any sources and any limits, windows and
blocks (`RequestsAssumption`, `SourcesAssumption`, `LimitsAssumption`, `RetentionAssumption`):

| Theorem | Statement |
|---|---|
| `RequestsWithinLimitsAlways` | `Spec => []RequestsWithinLimits` |
| `BlocksLastAlways` | `Spec => BlocksLast` |
| `UnknownLinksBlockAlways` | `Spec => []UnknownLinksBlock` |

*The argument.* The rolling windows must hold whatever order requests are counted in, so `LimitsInv`
speaks of every interval of the length of a window and not of the moment of counting. The request
that is counted last in an interval saw all others of that interval when it was counted, because
what the code counts reaches back a whole window and has no upper end; with it there are at most as
many as the limit (`ViewStep`, `CommentStep`). Types alone make `BlocksLast` inductive: a new block
begins when the last is over by the time of the request that sets it, and only blocks that are over
are deleted.

For unknown links the row of a source must still hold every attempt that a window of a request to
come can reach. `StrikesInv` says that the row of a source ends in every run of recorded strikes
that one window can hold, unless the row has been forgotten, in which case the last attempt is
older than a window and two waits. A model checking run with longer waits refuted an earlier, weaker
`RetentionAssumption` (a window and one wait): the cleanup then forgets attempts that a request in
flight still completes. `Kept`, the trimming of a row, is a recursive function; what it returns is
found through the least element of the set of lengths at which it ends (`UpTo`, `LoopEnds`).

### Planner accounts

`PlannerAuthProofs`, for any accounts, browsers, passwords, startup values and restarts, from
`ValuesAssumption` (the placeholders are no values), `LimitsAssumption` (limits and times are
positive) and `BoundsAssumption`.

| Theorem | Statement |
|---|---|
| `InvHolds` | `Spec => [](TypeOK /\ Inv)` |
| `TypesHold` | `Spec => []TypeOK` |
| `OneAdministrator` | `Spec => []OneUsableAdministrator` |
| `SessionsAreCurrent` | `Spec => []SessionsMatchPasswords` |
| `AccessIsRedeemable` | `Spec => []AccessFitsItsAccount` |
| `LimitBlocks` | `Spec => []FailuresBlock` |
| `RetiredStays` | `Spec => RetiredStaysRetired` |
| `BlocksAreKept` | `Spec => BlocksHold` |
| `ActionsAreOnWhatIsListed` | `Spec => ActsOnWhatIsListed` |

*The argument.* `AccountInv` relates an account to its access and its session: whoever has a session
has its password, access fits the state of its account, a block stands exactly at the limit. The
handlers change one account, except a transfer of administration, which changes two; `RowStep` and
`Transferred` say how. Account pages need `ListInv`: an account of the revision a page shows is what
the page shows, except that it may have been set up since, because setup alone does not raise the
revision; an action the page offers is therefore on the account it shows.

### Exams

`ExamSchedulingProofs`, for every set of courses, lecturers, rooms, planners and revisions and every
length of the semester and its days, from `BoundsAssumption`, `DurationAssumption` (durations are
positive), `LecturersAssumption` (there is one) and `DataAssumption` (the given plans, catalogs and
proposals are well typed):

| Theorem | Statement |
|---|---|
| `TypeCorrect` | `Spec => []TypeOK` |
| `OneActiveExamAlways` | `Spec => []OneActiveExam` |
| `ExamsNeverCollideAlways` | `Spec => []ExamsNeverCollide` |
| `GeneratedFromFreshAlways` | `Spec => GeneratedFromFresh` |
| `PlacedExamsFitAlways` | `Spec => PlacedExamsFit` |

*The argument.* The inductive invariant `SafetyInv` adds to the properties what must survive a
detour: the frozen exams of an abandoned revision are single and disjoint as well (`SingleInv`,
`DisjointInv`), and a generation in flight knows something of its preparation (`PendingInv`): it is
not from the future, every selected exam belongs to a course that was eligible then, the selection
is compatible, and it fits the prepared rows unless they had already changed when it was computed.
When the second comparison succeeds the prepared rows are the current ones (`SaveFacts`); time only
makes exams pass, so a course without an active exam then has none now.

### Search

`SemesterSearchProofs`, for any problems, any finite or infinite spaces and any integer values of
the objectives (`ValueAssumption`, `RequiredAssumption`, `NoneAssumption`); for `OffersAreSafeAlways`
any catalogs, drafts, exams and durations, from `TimesAssumption` (a unit lasts), `InputAssumption`
(every input is `Prepared`: finite sets of courses, lecturers and rooms, times and units that are
numbers, known holidays) and `SolutionsAssumption` (the solver keeps its promise: what is in a
space is `Admitted`). `PlannedStartsLoseNothingAlways` also needs its converse, `SpaceAssumption`
(the solver misses no arrangement of what it is given and takes each for what it is worth);
`BestAssumption` is the definition of the constant `Best`, which TLC computes once for each
semester. TLC evaluates all four on every semester and arrangement of the run.

| Theorem | Statement |
|---|---|
| `ProvenIsBestAlways` | `Spec => []ProvenIsBest` |
| `BoundHoldsAlways` | `Spec => []BoundHolds` |
| `OffersAreHonestAlways` | `Spec => []OffersAreHonest` |
| `TypeCorrect` | `Spec => []TypeOK` |
| `OffersAreSafeAlways` | `Spec => []OffersAreSafe` |
| `SearchGoesOn` | `SavedSpec => Spec` |
| `ViewsAgreeAlways` | `SavedSpec => []ViewsAgree` |
| `LeftShiftedRepresentative` | an arrangement of exact sessions has a counterpart among the offered ones of the same quality |
| `PlannedStartsLoseNothingAlways` | `Spec => []PlannedStartsLoseNothing` |

*The argument.* The inductive invariant says that the values proven so far are the best in the order
of the objectives, that the incumbent and the offer are elements of the space that have these
values up to what is said to be proven of them, and that a bound bounds all units. A solve of the
next objective under pinned values extends the order by one; that a candidate of an earlier
objective is offered unchanged keeps its own, shorter, proof.

That offers are safe compares three implementations of the same rules. A candidate of `Offered`
satisfies every rule about one session and about the protected ones (`Candidate`); this needs that
the loop that collects start times ends and stays within the day (`LoopEnds`, `StartsAreTicks`), so
that a session ends after it begins. The constraints add that sessions of different courses are
disjoint and that a course has one session a date (`AdmittedSessions`), which also makes the names of
sessions unique, so that the exact check holds (`AdmittedIsExact`) and an alert can only name a
session that broke a rule (`NothingFound`). The composition with accepted plans leaves the search
alone (`SearchGoesOn`).

That the views agree needs of the saved rows only that they are finitely many, have an id of their
own and refer to what is in the catalog (`RowsKnown`). This is inductive (`SavedInv`, `SavedStepInv`)
with an invariant of the search, that a second objective is only begun with an arrangement on offer
(`OfferThere`): what is accepted has unique places (`AcceptedRows`), an edit keeps id and course
(`EditedRows`), a change of the catalog keeps what is referred to. It rests on `EntriesAssumption`
(what the edit form admits) and `SavedAssumption`: rows have ids of their own, numbers are
numbers, and neither a course nor the room of an exam is deleted under it. That every course has a
period and its holidays can be read is part of it too (`Catalog`), since the search that made the
semester was refused otherwise (`Prepared`). TLC evaluates both on every semester of the run.

The views are compared through one set each, what is `Wrong` with a session: its own issues and
those it shares with each session it meets. The alerts tell exactly this (`AlertsTell`), the
findings of the calendar show exactly this (`CalendarShows`), although one names sessions by id
and the other by kind and id, one has related sessions and the other sets of them, and they load
windows of study types (`LoadedIsEnough`) or profiles (`ProfileIsConstraints`). Exams have
occupants on one side and the common evaluation on the other (`ExamMeetsOccupants`,
`ExamIssueIsWrong`, `WrongIsExamIssue`); publishing keeps only the order of exam and teaching
(`FrozenAgrees`). That remaining units agree is a statement about sums over two sets of records that
name the same sessions differently (`SameSum`), with the sum of the community modules shown not to
depend on the order in which it takes its elements (`AnyOrder`).

That the start times that are tried lose nothing is the claim of `_candidate_start_times` ("Event
closure contains a left-shifted representative of every feasible packing"), and is proved for every
day, duration and catalog. An arrangement is kept in its dates, units, lecturers and rooms and
only its times are chosen anew (`Packed`). Of all choices one has the fewest ticks below its starts
(`Below`). In it no session can start a tick earlier (`MovedEarlier`): each is `Held`, either at a
seed, since what else ends at its start is a period, a protected session or a window's begin
(`PeriodEndsThere`, `OneEarlier`), or at the end of another session of the arrangement
(`LeftShifted`). Then all start at start times (`HeldAtStarts`): take the earliest that does not;
the session before it starts earlier, so at a start time, and these are closed under durations
(`StartsFollow`), as long as they are no later than the `Latest` from which something fits. None of
the five qualities reads a time (`SameQuality`, by a bijection that keeps everything else). The
folds that build the arrangements of a semester course by course and date by date collect exactly
the admitted ones (`CoursePlansAre`, `ArrangementsAre`). What is proven up to the fifth stage is not
beaten by any element of the space (`ProvenIsBest`), so by none of the exact arrangements, and two
qualities of which neither is better are the same (`PreferredOne`).

### Only model-checked

* `ComputationSettles`: TLAPS proves neither liveness under fairness nor ENABLED.

Induction over data is not available with the installed provers. Where a proof needs it for natural
numbers (a maximum, the length of a loop, the cardinality of the sets under a sum or a fold) it takes
the least element of the set of counterexamples instead (`WFMin`).

## 7. Not modelled, and known limits of the models

* The override of a recommended window.
* Single-course generation (`schedule_generation.py`, whose endpoints answer 410 or 409), retained
  alternatives and the other entry points of `conflict_aware_generation.py` that only tests reach; the
  evidence and the blocking reasons of a comparison; alerts about exams (the code has none).
* Of the calendar: totals, facets, labels, and publications of the first snapshot version, which
  have no constraint profile. Of a publication: exams that are enabled and not scheduled, the bounds
  of the semester, and exams that end after midnight.
* Of the catalogs, unique names and reference codes, units and weekly times; exams and constraints
  as users of a record.
* iCalendar formatting, migrations, offline scripts,
  configuration, containers, browser origin checks (stateless).
* A commit that fails in an otherwise healthy database. `_finish` sets `discarded` before the
  commit: if that fails the receipt stays active until the next restart with nobody computing.
* Setup redemption does not raise the account revision. With the buttons the page offers this
  never makes a stale page act on an account in another condition (`ActsOnWhatIsListed`).
* On SQLite `SELECT ... FOR UPDATE` in `exam_scheduling.py` takes no lock; its API takes the claim
  of `claim_active_working_revision` instead, except for saving an exam configuration.

## 8. Plan

Done, in order of importance: lifecycle with its abstraction and proofs; drafts; optimization;
review links; accounts; exams with their proofs; catalogs; limits of lecturer requests with their
proofs; validation, placement and search with its proofs; calendar reads and planning outcomes
beside the lifecycle, the outcomes without a proof (finding 4); the views of a saved semester; proofs of the safety of every component that
keeps state and of every invariant the runs check. Next: unique names and reference codes in
`Catalogs`.
