------------------------- MODULE DraftScheduleProofs -------------------------
(***************************************************************************)
(* Theorems about DraftSchedule, for any courses, planners, days, rooms    *)
(* and plans, any pages and any number of drafts.                          *)
(***************************************************************************)
EXTENDS DraftSchedule, FiniteSetTheorems, WellFoundedInduction, TLAPS

(* No two rows of one id, no two sessions of one draft on one day.         *)
UniqueIn(S) ==
  /\ \A s, t \in S : s.id = t.id => s = t
  /\ \A s, t \in S : s.draft = t.draft /\ s.date = t.date => s = t
Bounded(S) == \E m \in Nat : \A s \in S : s.id <= m
DraftsBounded == \E m \in Nat : \A c \in Courses : HasDraft(c) => drafts[c].id <= m

(* What an open deletion confirmation knows of the draft of its course, as *)
(* long as that is the draft it was opened for.                            *)
DialogInv(p) ==
  dialog[p] # Idle =>
    LET c == dialog[p].course
    IN /\ dialog[p].incarnation <= created
       /\ HasDraft(c) /\ drafts[c].incarnation = dialog[p].incarnation
            /\ ~ dialog[p].overlapped =>
            /\ drafts[c].id = dialog[p].draft
            /\ dialog[p].revision <= drafts[c].revision
            /\ dialog[p].revision = drafts[c].revision => dialog[p].seen = Content(c)

(* The same of the planning period that a page shows.                      *)
PageInv(t) ==
  page[t] # Idle /\ page[t].shown # NoOverride =>
    LET shown == page[t].shown
        now == override[page[t].course]
    IN /\ shown.incarnation <= created /\ 1 <= shown.revision
       /\ now # NoOverride /\ shown.incarnation = now.incarnation =>
            /\ shown.revision <= now.revision
            /\ shown.revision = now.revision => shown.period = now.period
OverrideInv(c) ==
  override[c] # NoOverride => override[c].incarnation <= created /\ 1 <= override[c].revision

(* The inductive invariant: of the rows, of the confirmations and of the   *)
(* pages.                                                                  *)
RowsInv ==
  /\ DraftsOwnSessions
  /\ Bounded(sessions) /\ DraftsBounded
  /\ \A c \in Courses : HasDraft(c) => drafts[c].incarnation <= created

Inv ==
  /\ RowsInv
  /\ \A p \in Planners : DialogInv(p)
  /\ \A t \in Tabs : PageInv(t)
  /\ \A c \in Courses : OverrideInv(c)
-----------------------------------------------------------------------------
(* Row ids.  The next one is larger than every id in the table.            *)
LEMMA LargestOf ==
  ASSUME NEW m \in Nat, NEW S \in SUBSET (0..m), S # {}
  PROVE  Max(S) \in S /\ \A k \in S : k <= Max(S)
<1> DEFINE Bounds == {b \in Nat : \A k \in S : k <= b}
<1>1. PICK b \in Bounds : \A c \in Bounds : ~ (<<c, b>> \in OpToRel(<, Nat))
  <2>1. m \in Bounds /\ Bounds \subseteq Nat OBVIOUS
  <2> HIDE DEF Bounds
  <2> QED BY <2>1, NatLessThanWellFounded, WFMin
<1>2. \A c \in Bounds : ~ (c < b)
  BY <1>1 DEF OpToRel
<1>3. ASSUME b \notin S PROVE FALSE
  <2>1. \A k \in S : k <= b - 1 BY <1>3
  <2>2. b - 1 \in Nat
    <3>1. PICK k \in S : TRUE OBVIOUS
    <3> QED BY <2>1, <3>1
  <2> QED BY <1>2, <2>1, <2>2
<1>4. \E x \in S : \A y \in S : x >= y
  BY <1>3
<1>5. Max(S) \in S /\ \A y \in S : Max(S) >= y
  BY <1>4 DEF Max
<1>6. \A y \in S : y \in Nat
  OBVIOUS
<1> QED BY <1>5, <1>6

LEMMA NextIdIsNew ==
  ASSUME NEW ids \in SUBSET Nat, NEW m \in Nat, \A i \in ids : i <= m
  PROVE  NextId(ids) \in Nat /\ \A i \in ids : i < NextId(ids)
<1>1. CASE ids = {} BY <1>1 DEF NextId
<1>2. CASE ids # {}
  <2>1. ids \in SUBSET (0..m) OBVIOUS
  <2>2. Max(ids) \in ids /\ \A i \in ids : i <= Max(ids)
    BY <1>2, <2>1, LargestOf, Zenon
  <2>3. NextId(ids) = Max(ids) + 1 BY <1>2 DEF NextId
  <2>4. Max(ids) \in Nat BY <2>2
  <2> HIDE DEF Max
  <2> QED BY <2>2, <2>3, <2>4
<1> QED BY <1>1, <1>2

(* The sessions of one plan get different ids, in the order of their days. *)
Earlier(plan, x) == {q \in plan : q.date < x.date}

LEMMA EarlierCounts ==
  ASSUME NEW plan \in SUBSET [date : Dates, room : Rooms], IsFiniteSet(plan),
         NEW x \in plan, NEW y \in plan, x.date < y.date
  PROVE  Cardinality(Earlier(plan, x)) < Cardinality(Earlier(plan, y))
<1>1. \A q \in plan : q.date \in Nat
  BY DatesAssumption
<1>2. Earlier(plan, x) \subseteq Earlier(plan, y)
  BY <1>1 DEF Earlier
<1>3. x \in Earlier(plan, y) /\ x \notin Earlier(plan, x)
  BY <1>1 DEF Earlier
<1>4. Earlier(plan, y) \in SUBSET plan
  BY DEF Earlier
<1>5. IsFiniteSet(Earlier(plan, y))
  BY <1>4, FS_Subset, Zenon
<1>6. Earlier(plan, x) \in SUBSET Earlier(plan, y) /\ Earlier(plan, x) # Earlier(plan, y)
  BY <1>2, <1>3
<1>7. Cardinality(Earlier(plan, x)) <= Cardinality(Earlier(plan, y))
      /\ Cardinality(Earlier(plan, x)) # Cardinality(Earlier(plan, y))
  BY <1>5, <1>6, FS_Subset
<1>8. IsFiniteSet(Earlier(plan, x))
  BY <1>5, <1>6, FS_Subset, Zenon
<1> QED BY <1>5, <1>7, <1>8, FS_CardinalityType

LEMMA EarlierType ==
  ASSUME NEW plan, IsFiniteSet(plan), NEW x \in plan
  PROVE  /\ Cardinality(Earlier(plan, x)) \in Nat
         /\ Cardinality(Earlier(plan, x)) <= Cardinality(plan)
         /\ Cardinality(plan) \in Nat
BY FS_Subset, FS_CardinalityType DEF Earlier

Regular(plan) ==
  /\ plan \subseteq [date : Dates, room : Rooms] /\ IsFiniteSet(plan)
  /\ \A x, y \in plan : x.date = y.date => x = y

NewRow(plan, d, R, x) ==
  [id |-> NextId({s.id : s \in R}) + Cardinality(Earlier(plan, x)),
   draft |-> d, date |-> x.date, room |-> x.room]

(* The rows of a plan beside the remaining ones.                           *)
LEMMA AddedRows ==
  ASSUME NEW R \in SUBSET Session, UniqueIn(R), Bounded(R), NEW plan, Regular(plan), NEW d \in Nat,
         \A x \in plan, s \in R : s.draft = d => s.date # x.date
  PROVE  /\ R \cup Rows(plan, d, R) \subseteq Session
         /\ UniqueIn(R \cup Rows(plan, d, R)) /\ Bounded(R \cup Rows(plan, d, R))
         /\ \A r \in Rows(plan, d, R) : r.draft = d
         /\ (Rows(plan, d, R) = {}) = (plan = {})
<1> DEFINE ids == {s.id : s \in R}
           first == NextId(ids)
           New == Rows(plan, d, R)
<1>1. PICK m \in Nat : \A s \in R : s.id <= m
  BY DEF Bounded
<1>2. first \in Nat /\ \A i \in ids : i < first
  <2>1. ids \in SUBSET Nat /\ \A i \in ids : i <= m BY <1>1 DEF Session
  <2> HIDE DEF ids
  <2> QED BY <2>1, NextIdIsNew
<1>3. New = {NewRow(plan, d, R, x) : x \in plan}
  BY DEF Rows, NewRow, Earlier
<1>4. \A x \in plan :
        /\ NewRow(plan, d, R, x).id = first + Cardinality(Earlier(plan, x))
        /\ NewRow(plan, d, R, x).draft = d
        /\ NewRow(plan, d, R, x).date = x.date
        /\ NewRow(plan, d, R, x) \in Session
  <2> HIDE DEF first
  <2> TAKE x \in plan
  <2>1. x.date \in Dates /\ x.room \in Rooms BY DEF Regular
  <2>2. NewRow(plan, d, R, x) = [id |-> first + Cardinality(Earlier(plan, x)),
                                 draft |-> d, date |-> x.date, room |-> x.room]
    BY DEF NewRow, first
  <2>3. first + Cardinality(Earlier(plan, x)) \in Nat BY <1>2, EarlierType DEF Regular
  <2> QED BY <2>1, <2>2, <2>3 DEF Session
<1> HIDE DEF New
<1>5. \A s \in R, r \in New : s.id < r.id /\ (s.draft = r.draft => s.date # r.date)
  <2> TAKE s \in R, r \in New
  <2>1. PICK x \in plan : r = NewRow(plan, d, R, x) BY <1>3
  <2>2. s.id \in Nat /\ s.id < first
    <3>1. s.id \in ids /\ s.id \in Nat BY DEF Session
    <3> HIDE DEF ids, first
    <3> QED BY <1>2, <3>1
  <2>3. Cardinality(Earlier(plan, x)) \in Nat BY EarlierType DEF Regular
  <2> HIDE DEF first
  <2> QED BY <1>2, <1>4, <2>1, <2>2, <2>3
<1>6. \A x, y \in plan : x # y =>
        NewRow(plan, d, R, x).id # NewRow(plan, d, R, y).id
  <2> HIDE DEF first
  <2> TAKE x, y \in plan
  <2> HAVE x # y
  <2>1. x.date \in Nat /\ y.date \in Nat /\ x.date # y.date
    BY DatesAssumption DEF Regular
  <2>2. Cardinality(Earlier(plan, x)) \in Nat /\ Cardinality(Earlier(plan, y)) \in Nat
    BY EarlierType DEF Regular
  <2>3. CASE x.date < y.date
    <3>1. Cardinality(Earlier(plan, x)) < Cardinality(Earlier(plan, y))
      BY <2>3, EarlierCounts DEF Regular
    <3> QED BY <1>2, <1>4, <2>2, <3>1
  <2>4. CASE y.date < x.date
    <3>1. Cardinality(Earlier(plan, y)) < Cardinality(Earlier(plan, x))
      BY <2>4, EarlierCounts DEF Regular
    <3> QED BY <1>2, <1>4, <2>2, <3>1
  <2> QED BY <2>1, <2>3, <2>4
<1>7. \A q, r \in New : (q.id = r.id \/ q.date = r.date) => q = r
  <2> TAKE q, r \in New
  <2>1. PICK x \in plan : q = NewRow(plan, d, R, x) BY <1>3
  <2>2. PICK y \in plan : r = NewRow(plan, d, R, y) BY <1>3
  <2>0. q.date = x.date /\ r.date = y.date BY <1>4, <2>1, <2>2
  <2>3. q.date = r.date => x = y BY <2>0 DEF Regular
  <2>4. q.id = r.id => x = y BY <1>6, <2>1, <2>2
  <2> QED BY <2>1, <2>2, <2>3, <2>4
<1>8. New \subseteq Session /\ \A r \in New : r.draft = d
  BY <1>3, <1>4
<1>9. UniqueIn(R \cup New)
  <2>1. \A s \in R \cup New : s.id \in Nat BY <1>8 DEF Session
  <2> QED BY <1>5, <1>7, <2>1 DEF UniqueIn
<1>10. Bounded(R \cup New)
  <2> DEFINE b == m + first + Cardinality(plan)
  <2>1. b \in Nat /\ m <= b
    <3> HIDE DEF first
    <3> QED BY <1>2, FS_CardinalityType DEF Regular
  <2>2. \A r \in New : r.id <= b
    <3> TAKE r \in New
    <3>1. PICK x \in plan : r = NewRow(plan, d, R, x) BY <1>3
    <3>2. Cardinality(Earlier(plan, x)) <= Cardinality(plan)
          /\ Cardinality(Earlier(plan, x)) \in Nat /\ Cardinality(plan) \in Nat
      BY EarlierType DEF Regular
    <3> HIDE DEF first
    <3> QED BY <1>2, <1>4, <3>1, <3>2
  <2>3. \A s \in R : s.id <= b
    <3> HIDE DEF b
    <3> QED BY <1>1, <2>1 DEF Session
  <2> HIDE DEF b
  <2> QED BY <2>1, <2>2, <2>3 DEF Bounded
<1>11. (New = {}) = (plan = {})
  BY <1>3
<1> QED BY <1>8, <1>9, <1>10, <1>11 DEF New
-----------------------------------------------------------------------------
(* What a step leaves of the draft of a course: nothing, a new draft, or   *)
(* the same draft, with another revision wherever its sessions change.     *)
Follows(c) ==
  drafts'[c] # NoDraft =>
    \/ created < drafts'[c].incarnation
    \/ /\ HasDraft(c)
       /\ drafts'[c].incarnation = drafts[c].incarnation /\ drafts'[c].id = drafts[c].id
       /\ drafts[c].revision <= drafts'[c].revision
       /\ drafts[c].revision = drafts'[c].revision => Content(c)' = Content(c)

RowTypes ==
  /\ drafts \in [Courses -> Draft \cup {NoDraft}]
  /\ sessions \subseteq Session
  /\ created \in Nat

(* The draft that is written: the old one with the next revision, or a new *)
(* one.                                                                    *)
Written(c, d) ==
  \/ HasDraft(c) /\ d = drafts[c].id /\ drafts' = Bump(c) /\ created' = created
  \/ /\ ~ HasDraft(c) /\ d = NextId(DraftIds)
     /\ drafts' = [drafts EXCEPT ![c] = NewDraft(d)] /\ created' = created + 1

LEMMA DraftsHaveTypes ==
  ASSUME RowTypes, NEW c \in Courses, HasDraft(c)
  PROVE  /\ drafts[c] \in Draft /\ drafts[c].id \in Nat /\ drafts[c].revision \in Nat
         /\ drafts[c].incarnation \in Nat
BY DEF RowTypes, HasDraft, Draft

LEMMA NewDraftId ==
  ASSUME RowTypes, RowsInv
  PROVE  /\ NextId(DraftIds) \in Nat
         /\ \A c \in Courses : HasDraft(c) => drafts[c].id < NextId(DraftIds)
<1>1. PICK m \in Nat : \A c \in Courses : HasDraft(c) => drafts[c].id <= m
  BY DEF RowsInv, DraftsBounded
<1>2. DraftIds \in SUBSET Nat /\ \A i \in DraftIds : i <= m
  BY <1>1, DraftsHaveTypes DEF DraftIds
<1>3. \A c \in Courses : HasDraft(c) => drafts[c].id \in DraftIds
  BY DEF DraftIds
<1> HIDE DEF DraftIds
<1> QED BY <1>2, <1>3, NextIdIsNew

LEMMA RevisionOnly ==
  ASSUME RowTypes, NEW c \in Courses, HasDraft(c), NEW v \in Nat
  PROVE  \E n \in Draft :
           /\ [drafts EXCEPT ![c].revision = v] = [drafts EXCEPT ![c] = n]
           /\ n.id = drafts[c].id /\ n.incarnation = drafts[c].incarnation /\ n.revision = v
<1>1. PICK i \in Nat, r \in Nat, k \in Nat :
        drafts[c] = [id |-> i, revision |-> r, incarnation |-> k]
  BY DraftsHaveTypes DEF Draft
<1> DEFINE n == [drafts[c] EXCEPT !.revision = v]
<1>2. [drafts EXCEPT ![c].revision = v] = [drafts EXCEPT ![c] = n]
  OBVIOUS
<1>3. n = [id |-> i, revision |-> v, incarnation |-> k]
  BY <1>1
<1>4. n \in Draft /\ n.id = i /\ n.incarnation = k /\ n.revision = v
  BY <1>3 DEF Draft
<1> HIDE DEF n
<1> QED BY <1>1, <1>2, <1>4

(* What the draft of c is after the step.                                  *)
WrittenAs(c, d, n) ==
  /\ drafts' = [drafts EXCEPT ![c] = n]
  /\ n.id = d /\ n.incarnation <= created'
  /\ \/ created < n.incarnation
     \/ /\ HasDraft(c) /\ n.incarnation = drafts[c].incarnation /\ n.id = drafts[c].id
        /\ drafts[c].revision < n.revision

LEMMA WrittenDraft ==
  ASSUME RowTypes, RowsInv, NEW c \in Courses, NEW d, Written(c, d)
  PROVE  /\ d \in Nat /\ created' \in Nat /\ created <= created'
         /\ \E n \in Draft : WrittenAs(c, d, n)
         /\ \A b \in Courses \ {c} : HasDraft(b) => drafts[b].id # d
         /\ HasDraft(c) => drafts[c].id = d
<1>0. created \in Nat
  BY DEF RowTypes
<1>1. CASE HasDraft(c)
  <2>1. d = drafts[c].id /\ created' = created /\ drafts' = [drafts EXCEPT ![c].revision = @ + 1]
    BY <1>1 DEF Written, Bump
  <2>2. drafts[c].id \in Nat /\ drafts[c].revision \in Nat /\ drafts[c].incarnation \in Nat
    BY <1>1, DraftsHaveTypes
  <2> DEFINE v == drafts[c].revision + 1
  <2>3. drafts' = [drafts EXCEPT ![c].revision = v] /\ v \in Nat
    BY <2>1, <2>2
  <2>4. PICK n \in Draft :
          /\ [drafts EXCEPT ![c].revision = v] = [drafts EXCEPT ![c] = n]
          /\ n.id = drafts[c].id /\ n.incarnation = drafts[c].incarnation /\ n.revision = v
    <3> HIDE DEF v
    <3> QED BY <1>1, <2>3, RevisionOnly
  <2>5. drafts[c].incarnation <= created
    BY <1>1 DEF RowsInv
  <2>6. drafts[c].revision < n.revision
    BY <2>2, <2>4
  <2>7. WrittenAs(c, d, n)
    <3>1. drafts' = [drafts EXCEPT ![c] = n] BY <2>3, <2>4
    <3> HIDE DEF v
    <3> QED BY <3>1, <1>1, <2>1, <2>4, <2>5, <2>6 DEF WrittenAs
  <2>8. \A b \in Courses \ {c} : HasDraft(b) => drafts[b].id # d
    BY <1>1, <2>1 DEF RowsInv, DraftsOwnSessions
  <2> QED BY <1>0, <2>1, <2>2, <2>7, <2>8
<1>2. CASE ~ HasDraft(c)
  <2>1. /\ d = NextId(DraftIds) /\ created' = created + 1
        /\ drafts' = [drafts EXCEPT ![c] = NewDraft(d)]
    BY <1>2 DEF Written
  <2>2. d \in Nat /\ \A b \in Courses : HasDraft(b) => drafts[b].id < d
    BY <2>1, NewDraftId
  <2>3. NewDraft(d) \in Draft /\ NewDraft(d).id = d /\ NewDraft(d).incarnation = created + 1
    BY <1>0, <2>2 DEF NewDraft, Draft
  <2>4. \A b \in Courses : HasDraft(b) => drafts[b].id # d
    BY <2>2, DraftsHaveTypes
  <2>5. WrittenAs(c, d, NewDraft(d))
    BY <1>0, <2>1, <2>3 DEF WrittenAs
  <2> QED BY <1>0, <1>2, <2>1, <2>2, <2>3, <2>4, <2>5
<1> QED BY <1>1, <1>2

(* A plan is inserted into a draft, beside the sessions R that stay.       *)
LEMMA Inserted ==
  ASSUME RowTypes, RowsInv, NEW c \in Courses, NEW d, Written(c, d),
         NEW R \in SUBSET sessions, \A s \in sessions \ R : s.draft = d,
         NEW plan, Regular(plan), plan # {},
         \A x \in plan, s \in R : s.draft = d => s.date # x.date,
         sessions' = R \cup Rows(plan, d, R)
  PROVE  RowTypes' /\ RowsInv' /\ \A b \in Courses : Follows(b)
<1>1. /\ d \in Nat /\ created' \in Nat /\ created \in Nat /\ created <= created'
      /\ \A b \in Courses \ {c} : HasDraft(b) => drafts[b].id # d
      /\ HasDraft(c) => drafts[c].id = d
  BY WrittenDraft DEF RowTypes
<1>2. PICK n \in Draft : WrittenAs(c, d, n)
  BY WrittenDraft
<1> USE DEF WrittenAs
<1>3. R \in SUBSET Session /\ UniqueIn(R) /\ Bounded(R)
  BY DEF RowTypes, RowsInv, DraftsOwnSessions, UniqueIn, Bounded
<1>4. /\ sessions' \subseteq Session /\ UniqueIn(sessions') /\ Bounded(sessions')
      /\ \A r \in Rows(plan, d, R) : r.draft = d
      /\ Rows(plan, d, R) # {}
  <2>1. /\ R \cup Rows(plan, d, R) \subseteq Session
        /\ UniqueIn(R \cup Rows(plan, d, R)) /\ Bounded(R \cup Rows(plan, d, R))
        /\ \A r \in Rows(plan, d, R) : r.draft = d
        /\ (Rows(plan, d, R) = {}) = (plan = {})
    BY <1>1, <1>3, AddedRows
  <2>2. UniqueIn(sessions') /\ Bounded(sessions')
    BY <2>1
  <2> QED BY <2>1, <2>2
<1>5. drafts'[c] = n /\ n # NoDraft /\ \A b \in Courses \ {c} : drafts'[b] = drafts[b]
  BY <1>2, ValuesAssumption DEF RowTypes
<1>6. RowTypes'
  BY <1>1, <1>2, <1>4 DEF RowTypes
<1>7. \A b \in Courses \ {c} : HasDraft(b) => SessionsOf(drafts[b].id)' = SessionsOf(drafts[b].id)
  <2> TAKE b \in Courses \ {c}
  <2> HAVE HasDraft(b)
  <2>1. drafts'[b].id = drafts[b].id /\ drafts[b].id # d BY <1>1, <1>5
  <2> QED BY <1>4, <2>1 DEF SessionsOf
<1>8. \A b \in Courses \ {c} : HasDraft(b) => Content(b)' = Content(b)
  BY <1>5, <1>7 DEF Content, SessionsOf
<1>9. \A b \in Courses : HasDraft(b)' => Content(b)' # {}
  <2>1. Content(c)' # {} BY <1>2, <1>4, <1>5 DEF Content, SessionsOf
  <2>2. \A b \in Courses \ {c} : HasDraft(b) => Content(b) # {} BY DEF RowsInv, DraftsOwnSessions
  <2> QED BY <1>5, <1>8, <2>1, <2>2 DEF HasDraft
<1>10. \A s \in sessions' : s.draft \in DraftIds'
  <2> TAKE s \in sessions'
  <2>1. CASE s.draft = d BY <1>2, <1>5, <2>1 DEF DraftIds, HasDraft
  <2>2. CASE s.draft # d
    <3>1. s \in sessions BY <1>4, <2>2
    <3>2. PICK b \in Courses : HasDraft(b) /\ drafts[b].id = s.draft
      BY <3>1 DEF RowsInv, DraftsOwnSessions, DraftIds
    <3>3. b # c BY <1>1, <2>2, <3>2
    <3> QED BY <1>5, <3>2, <3>3 DEF DraftIds, HasDraft
  <2> QED BY <2>1, <2>2
<1>11. \A a, b \in Courses : HasDraft(a)' /\ HasDraft(b)' /\ drafts'[a].id = drafts'[b].id => a = b
  <2>1. \A b \in Courses \ {c} : HasDraft(b)' => HasDraft(b) /\ drafts'[b].id # drafts'[c].id
    BY <1>1, <1>2, <1>5 DEF HasDraft
  <2>2. \A a, b \in Courses \ {c} :
          HasDraft(a)' /\ HasDraft(b)' /\ drafts'[a].id = drafts'[b].id => a = b
    BY <1>5, <2>1 DEF RowsInv, DraftsOwnSessions
  <2> QED BY <2>1, <2>2
<1>12. DraftsOwnSessions'
  BY <1>4, <1>9, <1>10, <1>11 DEF DraftsOwnSessions, UniqueIn
<1>13. DraftsBounded'
  <2>1. PICK m \in Nat : \A b \in Courses : HasDraft(b) => drafts[b].id <= m
    BY DEF RowsInv, DraftsBounded
  <2>2. m + d \in Nat BY <1>1
  <2>3. \A b \in Courses : HasDraft(b)' => drafts'[b].id <= m + d
    BY <1>1, <1>2, <1>5, <2>1, DraftsHaveTypes DEF HasDraft
  <2> QED BY <2>2, <2>3 DEF DraftsBounded
<1>14. \A b \in Courses : HasDraft(b)' => drafts'[b].incarnation <= created'
  <2>1. \A b \in Courses \ {c} : HasDraft(b) =>
          drafts[b].incarnation <= created /\ drafts[b].incarnation \in Nat
    BY DraftsHaveTypes DEF RowsInv
  <2> QED BY <1>1, <1>2, <1>5, <2>1 DEF HasDraft
<1>15. RowsInv'
  BY <1>4, <1>12, <1>13, <1>14 DEF RowsInv, Bounded
<1>16. Follows(c)
  <2>1. HasDraft(c) => drafts[c].revision \in Nat BY DraftsHaveTypes
  <2>2. n.revision \in Nat BY DEF Draft
  <2> QED BY <1>2, <1>5, <2>1, <2>2 DEF Follows
<1>17. \A b \in Courses \ {c} : Follows(b)
  BY <1>5, <1>8, DraftsHaveTypes DEF Follows, HasDraft
<1> QED BY <1>6, <1>15, <1>16, <1>17

(* The draft of a course goes, with its sessions.                          *)
LEMMA Dropped ==
  ASSUME RowTypes, RowsInv, NEW c \in Courses, HasDraft(c), DropDraft(c), created' = created
  PROVE  RowTypes' /\ RowsInv' /\ \A b \in Courses : Follows(b)
<1>1. /\ sessions' = sessions \ Content(c)
      /\ drafts'[c] = NoDraft /\ \A b \in Courses \ {c} : drafts'[b] = drafts[b]
  BY DEF DropDraft, RowTypes
<1>2. RowTypes'
  BY DEF DropDraft, RowTypes
<1>3. \A b \in Courses \ {c} : HasDraft(b) => Content(b)' = Content(b)
  <2> TAKE b \in Courses \ {c}
  <2> HAVE HasDraft(b)
  <2>1. drafts'[b].id = drafts[b].id /\ drafts[b].id # drafts[c].id
    BY <1>1 DEF RowsInv, DraftsOwnSessions
  <2> QED BY <1>1, <2>1 DEF Content, SessionsOf
<1>4. \A b \in Courses : HasDraft(b)' => b # c /\ HasDraft(b) /\ drafts'[b] = drafts[b]
  BY <1>1 DEF HasDraft
<1>5. \A s \in sessions' : s.draft \in DraftIds'
  <2> TAKE s \in sessions'
  <2>1. s.draft # drafts[c].id BY <1>1 DEF Content, SessionsOf
  <2>2. PICK b \in Courses : HasDraft(b) /\ drafts[b].id = s.draft
    BY <1>1 DEF RowsInv, DraftsOwnSessions, DraftIds
  <2> QED BY <1>1, <2>1, <2>2 DEF DraftIds, HasDraft
<1>6. DraftsOwnSessions'
  <2>1. \A b \in Courses : HasDraft(b)' => Content(b)' # {}
    BY <1>3, <1>4 DEF RowsInv, DraftsOwnSessions
  <2>2. \A a, b \in Courses : HasDraft(a)' /\ HasDraft(b)' /\ drafts'[a].id = drafts'[b].id => a = b
    BY <1>4 DEF RowsInv, DraftsOwnSessions
  <2>3. UniqueIn(sessions')
    BY <1>1 DEF RowsInv, DraftsOwnSessions, UniqueIn
  <2> QED BY <1>5, <2>1, <2>2, <2>3 DEF DraftsOwnSessions, UniqueIn
<1>7. RowsInv'
  <2>1. Bounded(sessions') BY <1>1 DEF RowsInv, Bounded
  <2>2. DraftsBounded' BY <1>4 DEF RowsInv, DraftsBounded
  <2>3. \A b \in Courses : HasDraft(b)' => drafts'[b].incarnation <= created'
    BY <1>4 DEF RowsInv
  <2> QED BY <1>6, <2>1, <2>2, <2>3 DEF RowsInv, Bounded
<1>8. \A b \in Courses : Follows(b)
  BY <1>1, <1>3, DraftsHaveTypes DEF Follows, HasDraft
<1> QED BY <1>2, <1>7, <1>8

(* The drafts keep their ids, those of the sessions are left as they were  *)
(* but for the sessions of one draft, of which one remains.                *)
LEMMA SameDrafts ==
  ASSUME RowTypes, RowsInv, created' = created, NEW c \in Courses, HasDraft(c),
         NEW n \in Draft, drafts' = [drafts EXCEPT ![c] = n],
         n.id = drafts[c].id, n.incarnation = drafts[c].incarnation,
         sessions' \subseteq Session, UniqueIn(sessions'), Bounded(sessions'),
         \A s \in sessions' : \E t \in sessions : t.draft = s.draft,
         \A t \in sessions : \E s \in sessions' : s.draft = t.draft
  PROVE  RowTypes' /\ RowsInv'
<1>1. drafts'[c] = n /\ \A b \in Courses \ {c} : drafts'[b] = drafts[b]
  BY DEF RowTypes
<1>2. RowTypes'
  BY DEF RowTypes
<1>3. \A b \in Courses : /\ HasDraft(b)' = HasDraft(b)
                         /\ HasDraft(b) => /\ drafts'[b].id = drafts[b].id
                                           /\ drafts'[b].incarnation = drafts[b].incarnation
  BY <1>1, ValuesAssumption DEF HasDraft
<1>4. DraftIds' = DraftIds
  BY <1>3 DEF DraftIds
<1>5. \A s \in sessions' : s.draft \in DraftIds'
  <2> HIDE DEF DraftIds
  <2> QED BY <1>4 DEF RowsInv, DraftsOwnSessions
<1>6. \A b \in Courses : HasDraft(b)' => Content(b)' # {}
  <2> TAKE b \in Courses
  <2> HAVE HasDraft(b)'
  <2>1. PICK t \in sessions : t.draft = drafts[b].id
    BY <1>3 DEF RowsInv, DraftsOwnSessions, Content, SessionsOf
  <2>2. PICK s \in sessions' : s.draft = drafts'[b].id
    BY <1>3, <2>1
  <2> QED BY <2>2 DEF Content, SessionsOf
<1>7. \A a, b \in Courses : HasDraft(a)' /\ HasDraft(b)' /\ drafts'[a].id = drafts'[b].id => a = b
  BY <1>3 DEF RowsInv, DraftsOwnSessions
<1>8. DraftsOwnSessions'
  BY <1>5, <1>6, <1>7 DEF DraftsOwnSessions, UniqueIn
<1>9. DraftsBounded' /\ \A b \in Courses : HasDraft(b)' => drafts'[b].incarnation <= created'
  BY <1>3 DEF RowsInv, DraftsBounded
<1> QED BY <1>2, <1>8, <1>9 DEF RowsInv, Bounded

(* One session goes, not the last one of its draft.                        *)
LEMMA OneRemoved ==
  ASSUME RowTypes, RowsInv, NEW c \in Courses, HasDraft(c), NEW s \in Content(c), Content(c) # {s},
         sessions' = sessions \ {s}, drafts' = Bump(c), created' = created
  PROVE  RowTypes' /\ RowsInv' /\ \A b \in Courses : Follows(b)
<1>1. PICK n \in Draft : WrittenAs(c, drafts[c].id, n)
  BY WrittenDraft DEF Written
<1>2. /\ drafts' = [drafts EXCEPT ![c] = n] /\ n.id = drafts[c].id
      /\ n.incarnation = drafts[c].incarnation /\ drafts[c].revision < n.revision
  <2>1. n.incarnation \in Nat /\ created \in Nat BY DEF Draft, RowTypes
  <2> QED BY <1>1, <2>1 DEF WrittenAs
<1>3. s \in sessions /\ s.draft = drafts[c].id
  BY DEF Content, SessionsOf
<1>4. \A t \in sessions : \E r \in sessions' : r.draft = t.draft
  <2>1. PICK r \in Content(c) : r # s BY DEF RowsInv, DraftsOwnSessions
  <2>2. r \in sessions' /\ r.draft = s.draft BY <1>3, <2>1 DEF Content, SessionsOf
  <2> QED BY <2>2
<1>5. sessions' \subseteq Session /\ UniqueIn(sessions') /\ Bounded(sessions')
  BY DEF RowTypes, RowsInv, DraftsOwnSessions, UniqueIn, Bounded
<1>6. RowTypes' /\ RowsInv'
  BY <1>2, <1>4, <1>5, SameDrafts
<1>7. drafts'[c] = n /\ \A b \in Courses \ {c} : drafts'[b] = drafts[b]
  BY <1>2 DEF RowTypes
<1>8. Follows(c)
  <2>1. drafts[c].revision \in Nat /\ n.revision \in Nat BY DraftsHaveTypes DEF Draft
  <2> QED BY <1>2, <1>7, <2>1 DEF Follows
<1>9. \A b \in Courses \ {c} : Follows(b)
  <2> TAKE b \in Courses \ {c}
  <2> SUFFICES ASSUME HasDraft(b) PROVE Content(b)' = Content(b)
    BY <1>7, DraftsHaveTypes DEF Follows, HasDraft
  <2>1. drafts'[b].id = drafts[b].id /\ drafts[b].id # drafts[c].id
    BY <1>7 DEF RowsInv, DraftsOwnSessions
  <2> QED BY <1>3, <2>1 DEF Content, SessionsOf
<1> QED BY <1>6, <1>8, <1>9

(* A snapshot replaces every draft of the semester.                        *)
LEMMA Restored ==
  ASSUME RowTypes, NEW c \in Courses, NEW plan, Regular(plan), Materialize(c, plan)
  PROVE  RowTypes' /\ RowsInv' /\ \A b \in Courses : Follows(b)
<1>1. /\ drafts' = [k \in Courses |-> IF k = c /\ plan # {} THEN NewDraft(1) ELSE NoDraft]
      /\ sessions' = Rows(plan, 1, {})
      /\ created' = IF plan # {} THEN created + 1 ELSE created
      /\ created \in Nat
  BY DEF Materialize, RowTypes
<1>2. /\ sessions' \subseteq Session /\ UniqueIn(sessions') /\ Bounded(sessions')
      /\ \A r \in sessions' : r.draft = 1
      /\ (sessions' = {}) = (plan = {})
  <2>1. {} \in SUBSET Session /\ UniqueIn({}) /\ Bounded({}) BY DEF UniqueIn, Bounded
  <2>2. {} \cup Rows(plan, 1, {}) = sessions' BY <1>1
  <2>3. /\ {} \cup Rows(plan, 1, {}) \subseteq Session
        /\ UniqueIn({} \cup Rows(plan, 1, {})) /\ Bounded({} \cup Rows(plan, 1, {}))
        /\ \A r \in Rows(plan, 1, {}) : r.draft = 1
        /\ (Rows(plan, 1, {}) = {}) = (plan = {})
    BY <2>1, AddedRows
  <2> QED BY <1>1, <2>2, <2>3
<1>3. /\ NewDraft(1) \in Draft /\ NewDraft(1).id = 1 /\ NewDraft(1).incarnation = created + 1
      /\ NewDraft(1) # NoDraft
  BY <1>1, ValuesAssumption DEF NewDraft, Draft
<1>4. \A b \in Courses : /\ HasDraft(b)' = (b = c /\ plan # {})
                         /\ b = c /\ plan # {} => drafts'[b] = NewDraft(1)
  BY <1>1, <1>3 DEF HasDraft
<1>5. RowTypes'
  BY <1>1, <1>2, <1>3 DEF RowTypes
<1>6. DraftsOwnSessions'
  <2>1. \A b \in Courses : HasDraft(b)' => Content(b)' # {}
    BY <1>2, <1>3, <1>4 DEF Content, SessionsOf
  <2>2. \A s \in sessions' : s.draft \in DraftIds'
    BY <1>2, <1>3, <1>4 DEF DraftIds
  <2> QED BY <1>2, <1>4, <2>1, <2>2 DEF DraftsOwnSessions, UniqueIn
<1>7. RowsInv'
  <2> DEFINE new == NewDraft(1)
  <2>0. \A b \in Courses : HasDraft(b)' =>
          drafts'[b].id <= 1 /\ drafts'[b].incarnation <= created'
    <3>1. \A b \in Courses : HasDraft(b)' => drafts'[b] = new /\ plan # {}
      BY <1>4
    <3>2. plan # {} => created' = created + 1
      BY <1>1
    <3>3. new.id <= 1 /\ new.incarnation <= created + 1
      BY <1>1, <1>3
    <3> HIDE DEF new
    <3> QED BY <3>1, <3>2, <3>3
  <2>1. DraftsBounded' BY <2>0 DEF DraftsBounded
  <2>2. \A b \in Courses : HasDraft(b)' => drafts'[b].incarnation <= created'
    BY <2>0
  <2> QED BY <1>2, <1>6, <2>1, <2>2 DEF RowsInv, Bounded
<1>8. \A b \in Courses : Follows(b)
  BY <1>1, <1>3, <1>4 DEF Follows, HasDraft
<1> QED BY <1>5, <1>7, <1>8

(* The edit that is written: the row keeps its id and its draft.           *)
LEMMA MergedRow ==
  ASSUME NEW f \in Form, NEW current \in Session
  PROVE  /\ Merged(f, current) \in Session
         /\ Merged(f, current).id = current.id /\ Merged(f, current).draft = current.draft
<1>1. PICK i \in Nat, d \in Nat, x \in Dates, r \in Rooms :
        current = [id |-> i, draft |-> d, date |-> x, room |-> r]
  BY DEF Session
<1>2. PICK k \in Courses, g \in Session, v \in Nat, y \in Dates, q \in Rooms :
        f = [course |-> k, session |-> g, revision |-> v, date |-> y, room |-> q]
  BY DEF Form
<1> DEFINE date == IF y # g.date THEN y ELSE x
           room == IF q # g.room THEN q ELSE r
<1>3. date \in Dates /\ room \in Rooms
  OBVIOUS
<1>4. Merged(f, current) = [current EXCEPT !.date = date, !.room = room]
  BY <1>1, <1>2 DEF Merged
<1> HIDE DEF date, room
<1>5. Merged(f, current) = [id |-> i, draft |-> d, date |-> date, room |-> room]
  BY <1>1, <1>3, <1>4
<1> QED BY <1>1, <1>3, <1>5 DEF Session

(* An edit of a session of any course and the draft whose revision it      *)
(* writes, as EditWrite picks them.                                        *)
Edits(f, c, current) ==
  /\ HasDraft(c) /\ drafts[c].id = f.session.draft
  /\ current.id = f.session.id
  /\ \A s \in SessionsOf(current.draft) \ {current} : s.date # Merged(f, current).date
  /\ sessions' = (sessions \ {current}) \cup {Merged(f, current)}
  /\ drafts' = [drafts EXCEPT ![c].revision = f.revision + 1]
  /\ created' = created

LEMMA Edited ==
  ASSUME RowTypes, RowsInv, NEW f \in Form, NEW c \in Courses, NEW current \in sessions,
         Edits(f, c, current)
  PROVE  /\ RowTypes' /\ RowsInv'
         /\ ~ Overlaps(c, f, current) => Follows(c)
         /\ \A b \in Courses \ {c} : HasDraft(b) /\ drafts[b].id # current.draft => Follows(b)
         /\ \A b \in Courses \ {c} : drafts'[b] = drafts[b]
         /\ /\ HasDraft(c)' /\ drafts'[c].id = drafts[c].id
            /\ drafts'[c].incarnation = drafts[c].incarnation
<1> DEFINE m == Merged(f, current)
           v == f.revision + 1
<1>1. current \in Session /\ f.revision \in Nat /\ v \in Nat
  BY DEF RowTypes, Form
<1>2. m \in Session /\ m.id = current.id /\ m.draft = current.draft
  BY <1>1, MergedRow
<1>3. drafts' = [drafts EXCEPT ![c].revision = v]
  BY DEF Edits
<1>4. HasDraft(c) /\ created' = created
  BY DEF Edits
<1>5. PICK n \in Draft :
        /\ [drafts EXCEPT ![c].revision = v] = [drafts EXCEPT ![c] = n]
        /\ n.id = drafts[c].id /\ n.incarnation = drafts[c].incarnation /\ n.revision = v
  <2> HIDE DEF v
  <2> QED BY <1>1, <1>4, RevisionOnly
<1>6. drafts' = [drafts EXCEPT ![c] = n]
  BY <1>3, <1>5
<1>7. sessions' = (sessions \ {current}) \cup {m}
  BY DEF Edits
<1>8. \A s \in sessions \ {current} : s.id # m.id /\ (s.draft = m.draft => s.date # m.date)
  <2>1. \A s \in sessions \ {current} : s.id # m.id
    <3> HIDE DEF m
    <3> QED BY <1>2 DEF RowsInv, DraftsOwnSessions
  <2>2. \A s \in sessions \ {current} : s.draft = current.draft => s.date # m.date
    BY DEF Edits, SessionsOf
  <2> HIDE DEF m
  <2> QED BY <1>2, <2>1, <2>2
<1> HIDE DEF m, v
<1>9. sessions' \subseteq Session /\ UniqueIn(sessions') /\ Bounded(sessions')
  <2>1. sessions' \subseteq Session BY <1>2, <1>7 DEF RowTypes
  <2>2. UniqueIn(sessions') BY <1>7, <1>8 DEF RowsInv, DraftsOwnSessions, UniqueIn
  <2>3. Bounded(sessions') BY <1>2, <1>7 DEF RowsInv, Bounded
  <2> QED BY <2>1, <2>2, <2>3
<1>10. RowTypes' /\ RowsInv'
  <2>1. \A s \in sessions' : \E t \in sessions : t.draft = s.draft BY <1>2, <1>7
  <2>2. \A t \in sessions : \E s \in sessions' : s.draft = t.draft BY <1>2, <1>7
  <2> QED BY <1>4, <1>5, <1>6, <1>9, <2>1, <2>2, SameDrafts
<1>11. drafts'[c] = n /\ \A b \in Courses \ {c} : drafts'[b] = drafts[b]
  BY <1>6 DEF RowTypes
<1>12. ~ Overlaps(c, f, current) => Follows(c)
  <2>1. drafts[c].revision \in Nat BY <1>4, DraftsHaveTypes
  <2>2. v = f.revision + 1 BY DEF v
  <2> QED BY <1>1, <1>4, <1>5, <1>11, <2>1, <2>2 DEF Overlaps, Follows
<1>13. \A b \in Courses \ {c} : HasDraft(b) /\ drafts[b].id # current.draft => Follows(b)
  <2> TAKE b \in Courses \ {c}
  <2> HAVE HasDraft(b) /\ drafts[b].id # current.draft
  <2>1. Content(b)' = Content(b) BY <1>2, <1>7, <1>11 DEF Content, SessionsOf
  <2> QED BY <1>11, <2>1, DraftsHaveTypes DEF Follows
<1>14. HasDraft(c)'
  BY <1>11, ValuesAssumption DEF HasDraft
<1> QED BY <1>5, <1>10, <1>11, <1>12, <1>13, <1>14
-----------------------------------------------------------------------------
(* A confirmation stays right where its draft follows.                     *)
LEMMA DialogFollows ==
  ASSUME RowTypes, RowTypes', NEW p \in Planners, dialog[p] \in Dialog, DialogInv(p),
         created <= created', dialog'[p] = dialog[p], Follows(dialog[p].course)
  PROVE  DialogInv(p)'
<1> DEFINE c == dialog[p].course
<1>1. /\ c \in Courses /\ dialog[p].revision \in Nat /\ dialog[p].incarnation \in Nat
      /\ created \in Nat /\ created' \in Nat /\ dialog[p] # Idle
  BY ValuesAssumption DEF Dialog, RowTypes
<1>2. dialog[p].incarnation <= created
  BY <1>1 DEF DialogInv
<1>3. ASSUME HasDraft(c)', drafts'[c].incarnation = dialog[p].incarnation, ~ dialog[p].overlapped
      PROVE  /\ drafts'[c].id = dialog[p].draft
             /\ dialog[p].revision <= drafts'[c].revision
             /\ dialog[p].revision = drafts'[c].revision => dialog[p].seen = Content(c)'
  <2>1. /\ HasDraft(c) /\ drafts'[c].incarnation = drafts[c].incarnation
        /\ drafts'[c].id = drafts[c].id /\ drafts[c].revision <= drafts'[c].revision
        /\ drafts[c].revision = drafts'[c].revision => Content(c)' = Content(c)
    BY <1>1, <1>2, <1>3 DEF Follows, HasDraft
  <2>2. /\ drafts[c].id = dialog[p].draft
        /\ dialog[p].revision <= drafts[c].revision
        /\ dialog[p].revision = drafts[c].revision => dialog[p].seen = Content(c)
    BY <1>1, <1>3, <2>1 DEF DialogInv
  <2>3. drafts[c].revision \in Nat /\ drafts'[c].revision \in Nat
    <3>1. drafts'[c] \in Draft BY <1>1, <1>3 DEF RowTypes, HasDraft
    <3> QED BY <1>1, <2>1, <3>1, DraftsHaveTypes DEF Draft
  <2> HIDE DEF c
  <2> QED BY <1>1, <2>1, <2>2, <2>3
<1>4. dialog[p].incarnation <= created'
  BY <1>1, <1>2
<1> QED BY <1>3, <1>4 DEF DialogInv

(* A confirmation of another draft, or of one whose edits overlapped.      *)
LEMMA DialogOfAnother ==
  ASSUME NEW p \in Planners, dialog'[p] # Idle => dialog'[p].incarnation <= created',
         dialog'[p] # Idle =>
           ~ /\ drafts'[dialog'[p].course].incarnation = dialog'[p].incarnation
             /\ ~ dialog'[p].overlapped
  PROVE  DialogInv(p)'
<1> SUFFICES ASSUME dialog'[p] # Idle PROVE DialogInv(p)'
  BY DEF DialogInv
<1> DEFINE c == dialog'[p].course
<1>1. ~ (drafts'[c].incarnation = dialog'[p].incarnation /\ ~ dialog'[p].overlapped)
  OBVIOUS
<1>2. dialog'[p].incarnation <= created'
  OBVIOUS
<1> QED BY <1>1, <1>2, Zenon DEF DialogInv

MarkedDialog(q, c, f, current) ==
  IF /\ dialog[q] # Idle
     /\ dialog[q].draft \in {f.session.draft, current.draft}
     /\ Overlaps(c, f, current)
  THEN [dialog[q] EXCEPT !.overlapped = TRUE] ELSE dialog[q]

LEMMA MarkedTypes ==
  ASSUME NEW d \in Dialog
  PROVE  /\ [d EXCEPT !.overlapped = TRUE] \in Dialog /\ [d EXCEPT !.overlapped = TRUE].overlapped
         /\ [d EXCEPT !.overlapped = TRUE].incarnation = d.incarnation
BY DEF Dialog

LEMMA EditedDialogs ==
  ASSUME RowTypes, RowsInv, NEW f \in Form, NEW c \in Courses, NEW current \in sessions,
         Edits(f, c, current), NEW p \in Planners, dialog[p] \in Dialog \cup {Idle}, DialogInv(p),
         dialog'[p] = MarkedDialog(p, c, f, current)
  PROVE  dialog'[p] \in Dialog \cup {Idle} /\ DialogInv(p)'
<1>1. created' = created /\ created \in Nat /\ HasDraft(c) /\ drafts[c].id = f.session.draft
  BY DEF Edits, RowTypes
<1>2. /\ RowTypes' /\ RowsInv'
      /\ ~ Overlaps(c, f, current) => Follows(c)
      /\ \A b \in Courses \ {c} : HasDraft(b) /\ drafts[b].id # current.draft => Follows(b)
      /\ \A b \in Courses \ {c} : drafts'[b] = drafts[b]
      /\ HasDraft(c)' /\ drafts'[c].id = drafts[c].id
      /\ drafts'[c].incarnation = drafts[c].incarnation
  BY Edited
<1>3. CASE dialog[p] = Idle
  <2>1. dialog'[p] = Idle BY <1>3 DEF MarkedDialog
  <2> QED BY <2>1 DEF DialogInv
<1>4. CASE dialog[p] # Idle /\ dialog'[p] = [dialog[p] EXCEPT !.overlapped = TRUE]
  <2>1. dialog[p] \in Dialog BY <1>4
  <2>2. /\ dialog'[p] \in Dialog /\ dialog'[p].overlapped
        /\ dialog'[p].incarnation = dialog[p].incarnation
    BY <1>4, <2>1, MarkedTypes
  <2>3. dialog[p].incarnation <= created BY <1>4 DEF DialogInv
  <2>4. dialog'[p].incarnation <= created' BY <1>1, <2>2, <2>3
  <2> QED BY <2>2, <2>4, DialogOfAnother
<1>5. CASE /\ dialog[p] # Idle /\ dialog'[p] = dialog[p]
           /\ ~ (dialog[p].draft \in {f.session.draft, current.draft} /\ Overlaps(c, f, current))
  <2> DEFINE b == dialog[p].course
  <2>1. dialog[p] \in Dialog /\ b \in Courses BY <1>5 DEF Dialog
  <2>2. dialog[p].incarnation <= created BY <1>5 DEF DialogInv
  <2>3. CASE Follows(b)
    BY <1>1, <1>2, <1>5, <2>1, <2>3, DialogFollows
  <2>4. CASE ~ Follows(b)
    <3>1. /\ HasDraft(b) /\ drafts[b].id \in {f.session.draft, current.draft}
          /\ Overlaps(c, f, current) /\ drafts'[b].incarnation = drafts[b].incarnation
      <4>1. CASE b = c
        BY <1>1, <1>2, <2>4, <4>1
      <4>2. CASE b # c
        <5>1. drafts'[b] = drafts[b] BY <1>2, <2>1, <4>2
        <5>2. HasDraft(b) BY <2>4, <5>1 DEF Follows, HasDraft
        <5>3. drafts[b].id = current.draft
          BY <1>2, <2>1, <2>4, <4>2, <5>2
        <5>4. Overlaps(c, f, current)
          BY <1>1, <2>1, <4>2, <5>2, <5>3 DEF Overlaps, RowsInv, DraftsOwnSessions
        <5> QED BY <5>1, <5>2, <5>3, <5>4
      <4> QED BY <4>1, <4>2
    <3>2. dialog[p].draft # drafts[b].id BY <1>5, <3>1
    <3>3. drafts[b].incarnation # dialog[p].incarnation \/ dialog[p].overlapped
      BY <1>5, <3>1, <3>2 DEF DialogInv
    <3> HIDE DEF b
    <3>4. ~ (drafts'[b].incarnation = dialog'[p].incarnation /\ ~ dialog'[p].overlapped)
      BY <1>5, <3>1, <3>3, Zenon
    <3>5. dialog'[p].incarnation <= created'
      BY <1>1, <1>5, <2>2
    <3>6. b = dialog'[p].course BY <1>5 DEF b
    <3>7. ~ /\ drafts'[dialog'[p].course].incarnation = dialog'[p].incarnation
            /\ ~ dialog'[p].overlapped
      BY <3>4, <3>6, Zenon
    <3>8. DialogInv(p)' BY <3>5, <3>7, DialogOfAnother, Zenon
    <3> QED BY <1>5, <2>1, <3>8
  <2> QED BY <1>5, <2>1, <2>3, <2>4
<1> QED BY <1>3, <1>4, <1>5 DEF MarkedDialog

(* The other steps: each confirmation stays, or is closed.                 *)
DialogsStay == \A p \in Planners : dialog'[p] \in {dialog[p], Idle}

LEMMA DialogsFollow ==
  ASSUME DraftTypes, RowTypes', \A p \in Planners : DialogInv(p), DialogsStay,
         created <= created', \A c \in Courses : Follows(c)
  PROVE  \A p \in Planners : DialogInv(p)'
<1> TAKE p \in Planners
<1>1. CASE dialog'[p] = Idle
  BY <1>1 DEF DialogInv
<1>2. CASE dialog'[p] # Idle
  <2>1. dialog'[p] = dialog[p] /\ dialog[p] \in Dialog BY <1>2 DEF DialogsStay, DraftTypes
  <2>2. dialog[p].course \in Courses BY <2>1 DEF Dialog
  <2>3. RowTypes BY DEF DraftTypes, RowTypes
  <2> QED BY <2>1, <2>2, <2>3, DialogFollows
<1> QED BY <1>1, <1>2
-----------------------------------------------------------------------------
(* Planning periods: what a page stores.                                   *)
PeriodTypes ==
  /\ override \in [Courses -> Override \cup {NoOverride}]
  /\ page \in [Tabs -> Page \cup {Idle}]

PeriodsInv ==
  /\ \A t \in Tabs : PageInv(t)
  /\ \A c \in Courses : OverrideInv(c)

(* A period that succeeds the one of the course.                           *)
Succeeds(value, c) ==
  value # NoOverride =>
    /\ value.incarnation <= created' /\ 1 <= value.revision
    /\ \/ created < value.incarnation
       \/ /\ override[c] # NoOverride /\ value.incarnation = override[c].incarnation
          /\ override[c].revision <= value.revision
          /\ override[c].revision = value.revision => value.period = override[c].period

LEMMA PeriodStored ==
  ASSUME PeriodTypes, PeriodsInv, created \in Nat, created' \in Nat, created <= created',
         NEW t \in Tabs, page[t] # Idle, NEW c \in Courses, c = page[t].course,
         NEW value \in Override \cup {NoOverride}, Store(t, c, value), Succeeds(value, c)
  PROVE  PeriodTypes' /\ PeriodsInv'
<1>1. page[t] \in Page
  BY DEF PeriodTypes
<1>2. PICK shown \in Override \cup {NoOverride} : page[t] = [course |-> c, shown |-> shown]
  BY <1>1 DEF Page
<1>3. page' = [page EXCEPT ![t].shown = value] /\ override' = [override EXCEPT ![c] = value]
  BY DEF Store
<1> DEFINE new == [page[t] EXCEPT !.shown = value]
<1>4. page' = [page EXCEPT ![t] = new]
  BY <1>3
<1>5. new = [course |-> c, shown |-> value]
  BY <1>2
<1>6. new \in Page /\ new.course = c /\ new.shown = value /\ new # Idle
  BY <1>5, ValuesAssumption DEF Page
<1> HIDE DEF new
<1>7. PeriodTypes'
  BY <1>3, <1>4, <1>6 DEF PeriodTypes
<1>8. /\ override'[c] = value /\ \A b \in Courses \ {c} : override'[b] = override[b]
      /\ page'[t] = new /\ \A u \in Tabs \ {t} : page'[u] = page[u]
  BY <1>3, <1>4 DEF PeriodTypes
<1>9. \A b \in Courses : OverrideInv(b)'
  <2>1. OverrideInv(c)' BY <1>8 DEF OverrideInv, Succeeds
  <2>2. \A b \in Courses \ {c} : override[b] # NoOverride => override[b].incarnation \in Nat
    BY DEF PeriodTypes, Override
  <2>3. \A b \in Courses \ {c} : OverrideInv(b)' BY <1>8, <2>2 DEF OverrideInv, PeriodsInv
  <2> QED BY <2>1, <2>3
<1>10. PageInv(t)'
  <2>1. value # NoOverride => value.revision \in Nat
    BY DEF Override
  <2> QED BY <1>6, <1>8, <2>1 DEF PageInv, Succeeds
<1>11. \A u \in Tabs \ {t} : PageInv(u)'
  <2> TAKE u \in Tabs \ {t}
  <2> SUFFICES ASSUME page[u] # Idle, page[u].shown # NoOverride PROVE PageInv(u)'
    BY <1>8 DEF PageInv
  <2>1. PICK old \in Override, b \in Courses : page[u] = [course |-> b, shown |-> old]
    BY DEF PeriodTypes, Page
  <2>2. /\ page'[u] = page[u] /\ page[u].course = b /\ page[u].shown = old
        /\ old.incarnation \in Nat /\ old.revision \in Nat
    BY <1>8, <2>1 DEF Override
  <2>3. /\ old.incarnation <= created /\ 1 <= old.revision
        /\ override[b] # NoOverride /\ old.incarnation = override[b].incarnation =>
             /\ old.revision <= override[b].revision
             /\ old.revision = override[b].revision => old.period = override[b].period
    BY <2>2 DEF PeriodsInv, PageInv
  <2>4. CASE b # c
    <3>1. override'[b] = override[b] BY <1>8, <2>4
    <3> QED BY <2>2, <2>3, <3>1 DEF PageInv
  <2>5. CASE b = c
    <3>1. override'[b] = value BY <1>8, <2>5
    <3>2. value # NoOverride => value.revision \in Nat /\ value.incarnation \in Nat
      BY DEF Override
    <3>3. override[c] # NoOverride => override[c].revision \in Nat
      BY DEF PeriodTypes, Override
    <3>4. old.incarnation <= created' BY <2>2, <2>3
    <3>5. value # NoOverride /\ old.incarnation = value.incarnation =>
            /\ old.revision <= value.revision
            /\ old.revision = value.revision => old.period = value.period
      BY <2>2, <2>3, <2>5, <3>2, <3>3 DEF Succeeds
    <3> QED BY <2>2, <2>3, <3>1, <3>4, <3>5 DEF PageInv
  <2> QED BY <2>4, <2>5
<1> QED BY <1>7, <1>9, <1>10, <1>11 DEF PeriodsInv
-----------------------------------------------------------------------------
Invariant == DraftTypes /\ Inv

LEMMA InvariantParts ==
  ASSUME Invariant
  PROVE  /\ RowTypes /\ RowsInv /\ PeriodTypes /\ PeriodsInv /\ DraftTypes
         /\ \A p \in Planners : DialogInv(p)
BY DEF Invariant, DraftTypes, Inv, RowTypes, PeriodTypes, PeriodsInv

(* A step leaves the drafts, and their sessions, as they are.              *)
LEMMA RowsStay ==
  ASSUME RowTypes, RowsInv, UNCHANGED <<drafts, sessions>>, created' \in Nat, created <= created'
  PROVE  RowTypes' /\ RowsInv' /\ \A c \in Courses : Follows(c)
<1>1. RowTypes'
  BY DEF RowTypes
<1>2. \A c \in Courses : Follows(c)
  BY DraftsHaveTypes DEF Follows, HasDraft, Content, SessionsOf
<1>3. DraftsOwnSessions' /\ Bounded(sessions)' /\ DraftsBounded'
  BY DEF RowsInv, DraftsOwnSessions, Bounded, DraftsBounded, HasDraft, Content, SessionsOf, DraftIds
<1>4. \A c \in Courses : HasDraft(c)' => drafts'[c].incarnation <= created'
  <2>1. created \in Nat BY DEF RowTypes
  <2> QED BY <2>1, DraftsHaveTypes DEF RowsInv, HasDraft
<1> QED BY <1>1, <1>2, <1>3, <1>4 DEF RowsInv

LEMMA PeriodsStay ==
  ASSUME PeriodTypes, PeriodsInv, UNCHANGED periods, created \in Nat, created' \in Nat,
         created <= created'
  PROVE  PeriodTypes' /\ PeriodsInv'
<1>1. override' = override /\ page' = page
  BY DEF periods
<1>2. \A c \in Courses : override[c] # NoOverride => override[c].incarnation \in Nat
  BY DEF PeriodTypes, Override
<1>3. \A t \in Tabs :
        page[t] # Idle /\ page[t].shown # NoOverride => page[t].shown.incarnation \in Nat
  <2> SUFFICES ASSUME NEW t \in Tabs, page[t] # Idle, page[t].shown # NoOverride
               PROVE page[t].shown.incarnation \in Nat
    OBVIOUS
  <2>1. page[t].shown \in Override BY DEF PeriodTypes, Page
  <2> QED BY <2>1 DEF Override
<1>4. \A c \in Courses : OverrideInv(c)'
  BY <1>1, <1>2 DEF PeriodsInv, OverrideInv
<1>5. \A t \in Tabs : PageInv(t)'
  <2> TAKE t \in Tabs
  <2>1. PageInv(t) BY DEF PeriodsInv
  <2> SUFFICES ASSUME page[t] # Idle, page[t].shown # NoOverride PROVE PageInv(t)'
    BY <1>1 DEF PageInv
  <2>2. page[t].shown.incarnation <= created'
    BY <1>3, <2>1 DEF PageInv
  <2> QED BY <1>1, <2>1, <2>2 DEF PageInv
<1>6. PeriodTypes'
  BY <1>1 DEF PeriodTypes
<1> QED BY <1>4, <1>5, <1>6 DEF PeriodsInv

(* What a handler of the drafts owes: the rows, and dialogs that stay.     *)
LEMMA DraftStep ==
  ASSUME Invariant, UNCHANGED periods, RowTypes', RowsInv', \A c \in Courses : Follows(c),
         created <= created', DialogsStay, dialog' \in [Planners -> Dialog \cup {Idle}],
         form' \in [Planners -> Form \cup {Idle}]
  PROVE  Invariant'
<1>1. \A p \in Planners : DialogInv(p)'
  BY DialogsFollow, InvariantParts
<1>2. created \in Nat /\ created' \in Nat
  BY InvariantParts DEF RowTypes
<1>3. PeriodTypes' /\ PeriodsInv'
  BY <1>2, InvariantParts, PeriodsStay
<1> QED BY <1>1, <1>3 DEF Invariant, Inv, DraftTypes, RowTypes, PeriodTypes, PeriodsInv

LEMMA CreateManualKeeps ==
  ASSUME Invariant, NEW c \in Courses, NEW date \in Dates, NEW room \in Rooms,
         CreateManual(c, date, room)
  PROVE  Invariant'
<1> DEFINE d == IF HasDraft(c) THEN drafts[c].id ELSE NextId(DraftIds)
           plan == {[date |-> date, room |-> room]}
<1>1. RowTypes /\ RowsInv
  BY InvariantParts
<1>2. Regular(plan) /\ plan # {}
  <2>1. IsFiniteSet(plan)
    <3> DEFINE x == [date |-> date, room |-> room]
    <3> HIDE DEF x
    <3>1. IsFiniteSet({x}) BY FS_Singleton
    <3> QED BY <3>1 DEF x
  <2>2. plan \subseteq [date : Dates, room : Rooms] /\ \A x, y \in plan : x = y OBVIOUS
  <2> QED BY <2>1, <2>2 DEF Regular
<1>3. /\ sessions' = sessions \cup Rows(plan, d, sessions)
      /\ HasDraft(c) => \A s \in Content(c) : s.date # date
      /\ UNCHANGED <<form, dialog, periods>>
  BY DEF CreateManual
<1>4. Written(c, d)
  BY DEF CreateManual, Written
<1>5. \A x \in plan, s \in sessions : s.draft = d => s.date # x.date
  <2> SUFFICES ASSUME NEW s \in sessions, s.draft = d PROVE s.date # date
    OBVIOUS
  <2>1. CASE HasDraft(c) BY <1>3, <2>1 DEF Content, SessionsOf
  <2>2. CASE ~ HasDraft(c)
    <3>1. PICK b \in Courses : HasDraft(b) /\ drafts[b].id = s.draft
      BY <1>1 DEF RowsInv, DraftsOwnSessions, DraftIds
    <3>2. drafts[b].id < d /\ drafts[b].id \in Nat
      BY <1>1, <2>2, <3>1, NewDraftId, DraftsHaveTypes
    <3> HIDE DEF d
    <3> QED BY <3>1, <3>2
  <2> QED BY <2>1, <2>2
<1> HIDE DEF d, plan
<1>6. RowTypes' /\ RowsInv' /\ \A b \in Courses : Follows(b)
  <2>1. sessions \in SUBSET sessions /\ \A s \in sessions \ sessions : s.draft = d OBVIOUS
  <2> QED BY <1>1, <1>2, <1>3, <1>4, <1>5, <2>1, Inserted
<1>7. created <= created'
  BY <1>1, <1>4, WrittenDraft
<1> QED BY <1>3, <1>6, <1>7, DraftStep DEF DialogsStay, Invariant, DraftTypes

LEMMA RegenerateKeeps ==
  ASSUME Invariant, NEW c \in Courses, NEW plan \in Plans, Regenerate(c, plan)
  PROVE  Invariant'
<1> DEFINE d == IF HasDraft(c) THEN drafts[c].id ELSE NextId(DraftIds)
           old == IF HasDraft(c) THEN Content(c) ELSE {}
           R == sessions \ old
<1>1. RowTypes /\ RowsInv
  BY InvariantParts
<1>2. Regular(plan)
  BY PlansAssumption DEF Regular
<1>3. sessions' = R \cup Rows(plan, d, R) /\ UNCHANGED <<form, dialog, periods>>
  BY DEF Regenerate
<1>4. CASE plan = {}
  <2>1. HasDraft(c) /\ created' = created /\ drafts' = [drafts EXCEPT ![c] = NoDraft]
    BY <1>4 DEF Regenerate
  <2>2. Rows(plan, d, R) = {} BY <1>4 DEF Rows
  <2>3. DropDraft(c) BY <1>3, <2>1, <2>2 DEF DropDraft
  <2>4. RowTypes' /\ RowsInv' /\ \A b \in Courses : Follows(b)
    BY <1>1, <2>1, <2>3, Dropped
  <2>5. created <= created' BY <1>1, <2>1 DEF RowTypes
  <2> QED BY <1>3, <2>4, <2>5, DraftStep DEF DialogsStay, Invariant, DraftTypes
<1>5. CASE plan # {}
  <2>1. Written(c, d)
    BY <1>5 DEF Regenerate, Written
  <2>2. \A s \in R : s.draft # d
    <3> TAKE s \in R
    <3>1. CASE HasDraft(c) BY <3>1 DEF Content, SessionsOf
    <3>2. CASE ~ HasDraft(c)
      <4>1. PICK b \in Courses : HasDraft(b) /\ drafts[b].id = s.draft
        BY <1>1 DEF RowsInv, DraftsOwnSessions, DraftIds
      <4>2. drafts[b].id < d /\ drafts[b].id \in Nat
        BY <1>1, <3>2, <4>1, NewDraftId, DraftsHaveTypes
      <4> HIDE DEF d
      <4> QED BY <4>1, <4>2
    <3> QED BY <3>1, <3>2
  <2>3. R \in SUBSET sessions /\ \A s \in sessions \ R : s.draft = d
    BY DEF Content, SessionsOf
  <2> HIDE DEF R, d
  <2>4. RowTypes' /\ RowsInv' /\ \A b \in Courses : Follows(b)
    BY <1>1, <1>2, <1>3, <1>5, <2>1, <2>2, <2>3, Inserted
  <2>5. created <= created' BY <1>1, <2>1, WrittenDraft
  <2> QED BY <1>3, <2>4, <2>5, DraftStep DEF DialogsStay, Invariant, DraftTypes
<1> QED BY <1>4, <1>5

LEMMA MaterializeKeeps ==
  ASSUME Invariant, NEW c \in Courses, NEW plan \in Plans, Materialize(c, plan)
  PROVE  Invariant'
<1>1. RowTypes
  BY InvariantParts
<1>2. Regular(plan)
  BY PlansAssumption DEF Regular
<1>3. RowTypes' /\ RowsInv' /\ \A b \in Courses : Follows(b)
  BY <1>1, <1>2, Restored
<1>4. created <= created' /\ UNCHANGED <<form, dialog, periods>>
  BY <1>1 DEF Materialize, RowTypes
<1> QED BY <1>3, <1>4, DraftStep DEF DialogsStay, Invariant, DraftTypes

(* The dialog of p closes, the others stay.                                *)
LEMMA DialogCloses ==
  ASSUME Invariant, NEW p \in Planners, dialog' = [dialog EXCEPT ![p] = Idle]
  PROVE  DialogsStay /\ dialog' \in [Planners -> Dialog \cup {Idle}]
BY DEF Invariant, DraftTypes, DialogsStay

LEMMA DeleteSessionKeeps ==
  ASSUME Invariant, NEW p \in Planners, DeleteSession(p)
  PROVE  Invariant'
<1> DEFINE c == dialog[p].course
<1>1. RowTypes /\ RowsInv
  BY InvariantParts
<1>2. c \in Courses /\ HasDraft(c)
  <2>1. dialog[p] \in Dialog BY DEF DeleteSession, TokenMatches, Invariant, DraftTypes
  <2> QED BY <2>1 DEF Dialog, DeleteSession, TokenMatches
<1>3. created' = created /\ created <= created' /\ UNCHANGED <<form, periods>>
  BY <1>1 DEF DeleteSession, RowTypes
<1>4. PICK s \in Content(c) :
        \/ Content(c) = {s} /\ DropDraft(c)
        \/ Content(c) # {s} /\ sessions' = sessions \ {s} /\ drafts' = Bump(c)
  BY DEF DeleteSession
<1> HIDE DEF c
<1>5. RowTypes' /\ RowsInv' /\ \A b \in Courses : Follows(b)
  BY <1>1, <1>2, <1>3, <1>4, Dropped, OneRemoved
<1>6. DialogsStay /\ dialog' \in [Planners -> Dialog \cup {Idle}]
  BY DialogCloses DEF DeleteSession
<1> QED BY <1>3, <1>5, <1>6, DraftStep DEF Invariant, DraftTypes

LEMMA ClearDraftKeeps ==
  ASSUME Invariant, NEW p \in Planners, ClearDraft(p)
  PROVE  Invariant'
<1> DEFINE c == dialog[p].course
<1>1. RowTypes /\ RowsInv
  BY InvariantParts
<1>2. c \in Courses /\ HasDraft(c)
  <2>1. dialog[p] \in Dialog BY DEF ClearDraft, TokenMatches, Invariant, DraftTypes
  <2> QED BY <2>1 DEF Dialog, ClearDraft, TokenMatches
<1>3. created' = created /\ created <= created' /\ UNCHANGED <<form, periods>> /\ DropDraft(c)
  BY <1>1 DEF ClearDraft, RowTypes
<1> HIDE DEF c
<1>4. RowTypes' /\ RowsInv' /\ \A b \in Courses : Follows(b)
  BY <1>1, <1>2, <1>3, Dropped
<1>5. DialogsStay /\ dialog' \in [Planners -> Dialog \cup {Idle}]
  BY DialogCloses DEF ClearDraft
<1> QED BY <1>3, <1>4, <1>5, DraftStep DEF Invariant, DraftTypes

LEMMA EditWriteKeeps ==
  ASSUME Invariant, NEW p \in Planners, EditWrite(p)
  PROVE  Invariant'
<1> DEFINE f == form[p]
<1>1. RowTypes /\ RowsInv /\ created \in Nat
  BY InvariantParts DEF RowTypes
<1>2. f \in Form
  BY DEF EditWrite, Invariant, DraftTypes
<1>3. PICK c \in Courses, current \in sessions :
        /\ HasDraft(c) /\ drafts[c].id = f.session.draft
        /\ current.id = f.session.id
        /\ \A s \in SessionsOf(current.draft) \ {current} : s.date # Merged(f, current).date
        /\ sessions' = (sessions \ {current}) \cup {Merged(f, current)}
        /\ drafts' = [drafts EXCEPT ![c].revision = f.revision + 1]
        /\ dialog' = [q \in Planners |-> MarkedDialog(q, c, f, current)]
  BY DEF EditWrite, MarkedDialog
<1>4. created' = created /\ UNCHANGED periods /\ form' = [form EXCEPT ![p] = Idle]
  BY DEF EditWrite
<1> HIDE DEF f
<1>5. Edits(f, c, current)
  BY <1>3, <1>4 DEF Edits
<1>6. RowTypes' /\ RowsInv'
  BY <1>1, <1>2, <1>5, Edited
<1>7. \A q \in Planners : dialog'[q] \in Dialog \cup {Idle} /\ DialogInv(q)'
  <2> TAKE q \in Planners
  <2>1. dialog[q] \in Dialog \cup {Idle} /\ DialogInv(q) BY InvariantParts DEF DraftTypes
  <2>2. dialog'[q] = MarkedDialog(q, c, f, current) BY <1>3
  <2> QED BY <1>1, <1>2, <1>5, <2>1, <2>2, EditedDialogs
<1>8. PeriodTypes' /\ PeriodsInv'
  BY <1>1, <1>4, InvariantParts, PeriodsStay
<1>9. form' \in [Planners -> Form \cup {Idle}]
  BY <1>4 DEF Invariant, DraftTypes
<1>10. dialog' \in [Planners -> Dialog \cup {Idle}]
  BY <1>3, <1>7
<1> QED BY <1>6, <1>7, <1>8, <1>9, <1>10
        DEF Invariant, Inv, DraftTypes, RowTypes, PeriodTypes, PeriodsInv

LEMMA EditDraftOnlyKeeps ==
  ASSUME Invariant, NEW p \in Planners, EditDraftOnly(p)
  PROVE  Invariant'
<1> DEFINE f == form[p]
           v == f.revision + 1
           d == f.session.draft
           Marked(q) == IF dialog[q] # Idle /\ dialog[q].draft = d
                        THEN [dialog[q] EXCEPT !.overlapped = TRUE] ELSE dialog[q]
<1>1. RowTypes /\ RowsInv /\ created \in Nat
  BY InvariantParts DEF RowTypes
<1>2. v \in Nat
  <2>1. f \in Form BY DEF EditDraftOnly, Invariant, DraftTypes
  <2> QED BY <2>1 DEF Form
<1>3. PICK c \in Courses :
        /\ HasDraft(c) /\ drafts[c].id = d
        /\ drafts' = [drafts EXCEPT ![c].revision = v]
        /\ dialog' = [q \in Planners |-> Marked(q)]
  BY DEF EditDraftOnly
<1>4. /\ created' = created /\ sessions' = sessions /\ UNCHANGED periods
      /\ form' = [form EXCEPT ![p] = Idle]
  BY DEF EditDraftOnly
<1> HIDE DEF f, v, d
<1>5. PICK n \in Draft :
        /\ [drafts EXCEPT ![c].revision = v] = [drafts EXCEPT ![c] = n]
        /\ n.id = drafts[c].id /\ n.incarnation = drafts[c].incarnation /\ n.revision = v
  BY <1>1, <1>2, <1>3, RevisionOnly
<1>6. drafts' = [drafts EXCEPT ![c] = n]
  BY <1>3, <1>5
<1>7. sessions' \subseteq Session /\ UniqueIn(sessions') /\ Bounded(sessions')
  BY <1>1, <1>4 DEF RowTypes, RowsInv, DraftsOwnSessions, UniqueIn, Bounded
<1>8. RowTypes' /\ RowsInv'
  BY <1>1, <1>3, <1>4, <1>5, <1>6, <1>7, SameDrafts
<1>9. drafts'[c] = n /\ \A b \in Courses \ {c} : drafts'[b] = drafts[b]
  BY <1>1, <1>6 DEF RowTypes
<1>10. \A q \in Planners : dialog'[q] \in Dialog \cup {Idle} /\ DialogInv(q)'
  <2> TAKE q \in Planners
  <2>1. dialog[q] \in Dialog \cup {Idle} /\ DialogInv(q) BY InvariantParts DEF DraftTypes
  <2>2. dialog'[q] = Marked(q) BY <1>3
  <2>3. CASE dialog[q] = Idle
    <3>1. dialog'[q] = Idle BY <2>2, <2>3
    <3> QED BY <3>1 DEF DialogInv
  <2>4. CASE dialog[q] # Idle /\ dialog[q].draft = d
    <3>1. dialog'[q] = [dialog[q] EXCEPT !.overlapped = TRUE] BY <2>2, <2>4
    <3>2. dialog[q] \in Dialog BY <2>1, <2>4
    <3>3. /\ dialog'[q] \in Dialog /\ dialog'[q].overlapped
          /\ dialog'[q].incarnation = dialog[q].incarnation
      BY <3>1, <3>2, MarkedTypes
    <3>4. dialog'[q].incarnation <= created'
      BY <1>4, <2>1, <2>4, <3>3 DEF DialogInv
    <3> QED BY <3>3, <3>4, DialogOfAnother
  <2>5. CASE dialog[q] # Idle /\ dialog[q].draft # d
    <3>1. dialog'[q] = dialog[q] /\ dialog[q] \in Dialog BY <2>1, <2>2, <2>5
    <3>2. dialog[q].course \in Courses BY <3>1 DEF Dialog
    <3>3. CASE dialog[q].course = c
      <4>1. drafts[c].incarnation # dialog[q].incarnation \/ dialog[q].overlapped
        BY <1>3, <2>1, <2>5, <3>3 DEF DialogInv
      <4>2. drafts'[c].incarnation = drafts[c].incarnation BY <1>5, <1>9
      <4>3. ~ /\ drafts'[dialog'[q].course].incarnation = dialog'[q].incarnation
              /\ ~ dialog'[q].overlapped
        BY <3>1, <3>3, <4>1, <4>2, Zenon
      <4>4. dialog'[q].incarnation <= created' BY <1>4, <2>1, <2>5, <3>1 DEF DialogInv
      <4>5. DialogInv(q)' BY <4>3, <4>4, DialogOfAnother, Zenon
      <4> QED BY <3>1, <4>5
    <3>4. CASE dialog[q].course # c
      <4>1. drafts'[dialog[q].course] = drafts[dialog[q].course] BY <1>9, <3>2, <3>4
      <4>2. Follows(dialog[q].course)
        <5>1. ASSUME NEW b \in Courses, drafts'[b] = drafts[b] PROVE Follows(b)
          <6>1. Content(b)' = Content(b) BY <1>4, <5>1 DEF Content, SessionsOf
          <6> QED BY <1>1, <5>1, <6>1, DraftsHaveTypes DEF Follows, HasDraft
        <5> QED BY <3>2, <4>1, <5>1
      <4>3. created <= created' BY <1>1, <1>4
      <4> QED BY <1>1, <1>8, <2>1, <3>1, <4>2, <4>3, DialogFollows
    <3> QED BY <3>3, <3>4
  <2> QED BY <2>3, <2>4, <2>5
<1>11. PeriodTypes' /\ PeriodsInv'
  BY <1>1, <1>4, InvariantParts, PeriodsStay
<1>12. form' \in [Planners -> Form \cup {Idle}]
  BY <1>4 DEF Invariant, DraftTypes
<1>13. dialog' \in [Planners -> Dialog \cup {Idle}]
  BY <1>3, <1>10
<1> QED BY <1>8, <1>10, <1>11, <1>12, <1>13
        DEF Invariant, Inv, DraftTypes, RowTypes, PeriodTypes, PeriodsInv

(* The steps that touch forms only.                                        *)
LEMMA FormStep ==
  ASSUME Invariant, UNCHANGED <<drafts, sessions, dialog, created, periods>>,
         form' \in [Planners -> Form \cup {Idle}]
  PROVE  Invariant'
<1>1. RowTypes /\ RowsInv /\ created \in Nat
  BY InvariantParts DEF RowTypes
<1>2. RowTypes' /\ RowsInv' /\ (\A c \in Courses : Follows(c)) /\ created <= created'
  BY <1>1, RowsStay
<1>3. DialogsStay /\ dialog' \in [Planners -> Dialog \cup {Idle}]
  BY DEF DialogsStay, Invariant, DraftTypes
<1> QED BY <1>2, <1>3, DraftStep

LEMMA EditReadKeeps ==
  ASSUME Invariant, NEW p \in Planners, NEW c \in Courses, NEW s \in sessions,
         NEW date \in Dates, NEW room \in Rooms, EditRead(p, c, s, date, room)
  PROVE  Invariant'
<1>1. drafts[c].revision \in Nat
  BY InvariantParts, DraftsHaveTypes DEF EditRead
<1>2. s \in Session
  BY DEF Invariant, DraftTypes
<1>3. [course |-> c, session |-> s, revision |-> drafts[c].revision, date |-> date, room |-> room]
        \in Form
  BY <1>1, <1>2 DEF Form
<1>4. form' \in [Planners -> Form \cup {Idle}]
  BY <1>3 DEF EditRead, Invariant, DraftTypes
<1> QED BY <1>4, FormStep DEF EditRead

LEMMA EditEndsKeeps ==
  ASSUME Invariant, NEW p \in Planners, EditRefused(p) \/ EditFlushFails(p)
  PROVE  Invariant'
<1>1. form' = [form EXCEPT ![p] = Idle] /\ UNCHANGED <<drafts, sessions, dialog, created, periods>>
  BY DEF EditRefused, EditFlushFails
<1> QED BY <1>1, FormStep DEF Invariant, DraftTypes

LEMMA CloseDialogKeeps ==
  ASSUME Invariant, NEW p \in Planners, CloseDialog(p)
  PROVE  Invariant'
<1>1. RowTypes /\ RowsInv /\ created \in Nat
  BY InvariantParts DEF RowTypes
<1>2. RowTypes' /\ RowsInv' /\ (\A c \in Courses : Follows(c)) /\ created <= created'
  BY <1>1, RowsStay DEF CloseDialog
<1>3. DialogsStay /\ dialog' \in [Planners -> Dialog \cup {Idle}]
  BY DialogCloses DEF CloseDialog
<1> QED BY <1>2, <1>3, DraftStep DEF CloseDialog, Invariant, DraftTypes

LEMMA OpenDialogKeeps ==
  ASSUME Invariant, NEW p \in Planners, NEW c \in Courses,
         NEW target \in {s.id : s \in sessions} \cup {Everything}, OpenDialog(p, c, target)
  PROVE  Invariant'
<1> DEFINE new == [course |-> c, draft |-> drafts[c].id, revision |-> drafts[c].revision,
                   target |-> target, seen |-> Content(c),
                   incarnation |-> drafts[c].incarnation, overlapped |-> FALSE]
<1>1. RowTypes /\ RowsInv /\ created \in Nat
  BY InvariantParts DEF RowTypes
<1>2. RowTypes' /\ RowsInv' /\ (\A b \in Courses : Follows(b)) /\ created <= created'
  BY <1>1, RowsStay DEF OpenDialog
<1>3. HasDraft(c) /\ dialog' = [dialog EXCEPT ![p] = new]
      /\ UNCHANGED <<drafts, sessions, form, created, periods>>
  BY DEF OpenDialog
<1>4. new \in Dialog
  <2>1. target \in Nat BY <1>1 DEF RowTypes, Session, Everything
  <2>2. Content(c) \in SUBSET Session BY <1>1 DEF RowTypes, Content, SessionsOf
  <2> QED BY <1>1, <1>3, <2>1, <2>2, DraftsHaveTypes DEF Dialog
<1>5. dialog'[p] = new /\ dialog' \in [Planners -> Dialog \cup {Idle}]
      /\ \A q \in Planners \ {p} : dialog'[q] = dialog[q]
  <2> HIDE DEF new
  <2> QED BY <1>3, <1>4 DEF Invariant, DraftTypes
<1>6. DialogInv(p)'
  <2>1. drafts[c].incarnation <= created BY <1>1, <1>3 DEF RowsInv
  <2>2. drafts[c].revision \in Nat BY <1>1, <1>3, DraftsHaveTypes
  <2>3. Content(c)' = Content(c) BY <1>3 DEF Content, SessionsOf
  <2>4. /\ new.course = c /\ new.incarnation = drafts[c].incarnation /\ new.draft = drafts[c].id
        /\ new.revision = drafts[c].revision /\ new.seen = Content(c)
    OBVIOUS
  <2> HIDE DEF new
  <2> QED BY <1>3, <1>5, <2>1, <2>2, <2>3, <2>4 DEF DialogInv
<1>7. \A q \in Planners \ {p} : DialogInv(q)'
  <2> TAKE q \in Planners \ {p}
  <2>1. CASE dialog[q] = Idle BY <1>5, <2>1 DEF DialogInv
  <2>2. CASE dialog[q] # Idle
    <3>1. dialog[q] \in Dialog /\ DialogInv(q) BY <2>2 DEF Invariant, DraftTypes, Inv
    <3>2. dialog[q].course \in Courses BY <3>1 DEF Dialog
    <3> HIDE DEF new
    <3> QED BY <1>1, <1>2, <1>5, <3>1, <3>2, DialogFollows
  <2> QED BY <2>1, <2>2
<1>8. PeriodTypes' /\ PeriodsInv'
  BY <1>1, <1>3, InvariantParts, PeriodsStay
<1>9. form' \in [Planners -> Form \cup {Idle}]
  BY <1>3 DEF Invariant, DraftTypes
<1> HIDE DEF new
<1> QED BY <1>2, <1>5, <1>6, <1>7, <1>8, <1>9
        DEF Invariant, Inv, DraftTypes, RowTypes, PeriodTypes, PeriodsInv

(* The steps of the pages.                                                 *)
LEMMA PeriodStep ==
  ASSUME Invariant, UNCHANGED <<drafts, sessions, form, dialog>>, created' \in Nat,
         created <= created', PeriodTypes', PeriodsInv'
  PROVE  Invariant'
<1>1. RowTypes /\ RowsInv
  BY InvariantParts
<1>2. RowTypes' /\ RowsInv' /\ \A c \in Courses : Follows(c)
  BY <1>1, RowsStay
<1>3. DialogsStay /\ DraftTypes
  BY DEF DialogsStay, Invariant
<1>4. \A p \in Planners : DialogInv(p)'
  BY <1>2, <1>3, DialogsFollow, InvariantParts
<1> QED BY <1>2, <1>3, <1>4 DEF Invariant, Inv, DraftTypes, RowTypes, PeriodTypes, PeriodsInv

LEMMA ShowPeriodKeeps ==
  ASSUME Invariant, NEW t \in Tabs, NEW c \in Courses, ShowPeriod(t, c)
  PROVE  Invariant'
<1> DEFINE new == [course |-> c, shown |-> override[c]]
<1>1. PeriodTypes /\ PeriodsInv /\ created \in Nat
  BY InvariantParts DEF RowTypes
<1>2. /\ page' = [page EXCEPT ![t] = new]
      /\ UNCHANGED <<drafts, sessions, form, dialog, override, created>>
  BY DEF ShowPeriod
<1>3. override[c] \in Override \cup {NoOverride}
  BY <1>1 DEF PeriodTypes
<1>4. new \in Page /\ new.course = c /\ new.shown = override[c]
  BY <1>3 DEF Page
<1> HIDE DEF new
<1>5. PeriodTypes' /\ page'[t] = new /\ \A u \in Tabs \ {t} : page'[u] = page[u]
  BY <1>1, <1>2, <1>4 DEF PeriodTypes
<1>6. PageInv(t)'
  <2>1. override[c] # NoOverride => override[c].revision \in Nat BY <1>3 DEF Override
  <2> QED BY <1>1, <1>2, <1>4, <1>5, <2>1 DEF PageInv, PeriodsInv, OverrideInv
<1>7. \A u \in Tabs \ {t} : PageInv(u)'
  BY <1>1, <1>2, <1>5 DEF PageInv, PeriodsInv
<1>8. \A b \in Courses : OverrideInv(b)'
  BY <1>1, <1>2 DEF PeriodsInv, OverrideInv
<1>9. PeriodsInv' /\ created <= created'
  BY <1>1, <1>2, <1>6, <1>7, <1>8 DEF PeriodsInv
<1> QED BY <1>1, <1>2, <1>5, <1>9, PeriodStep

LEMMA AnotherPeriod ==
  ASSUME NEW old \in Override, NEW period \in PlanningPeriods, NEW v \in Nat
  PROVE  [old EXCEPT !.period = period, !.revision = v]
           = [revision |-> v, period |-> period, incarnation |-> old.incarnation]
<1>1. PICK r \in Nat, q \in PlanningPeriods, k \in Nat :
        old = [revision |-> r, period |-> q, incarnation |-> k]
  BY DEF Override
<1>2. [old EXCEPT !.period = period] = [revision |-> r, period |-> period, incarnation |-> k]
  BY <1>1
<1> DEFINE x == [old EXCEPT !.period = period]
<1>3. [x EXCEPT !.revision = v] = [revision |-> v, period |-> period, incarnation |-> k]
  <2> HIDE DEF x
  <2>1. x = [revision |-> r, period |-> period, incarnation |-> k]
    BY <1>2 DEF x
  <2> QED BY <2>1
<1>4. [old EXCEPT !.period = period, !.revision = v]
        = [x EXCEPT !.revision = v]
  OBVIOUS
<1> HIDE DEF x
<1> QED BY <1>1, <1>3, <1>4

LEMMA SavePeriodKeeps ==
  ASSUME Invariant, NEW t \in Tabs, NEW period \in PlanningPeriods, SavePeriod(t, period)
  PROVE  Invariant'
<1> DEFINE c == page[t].course
           old == override[c]
<1>1. PeriodTypes /\ PeriodsInv /\ created \in Nat
  BY InvariantParts DEF RowTypes
<1>2. page[t] # Idle /\ c \in Courses
  <2>1. page[t] \in Page BY <1>1 DEF SavePeriod, PageMatches, PeriodTypes
  <2> QED BY <2>1, ValuesAssumption DEF Page
<1>3. old \in Override \cup {NoOverride}
  BY <1>1, <1>2 DEF PeriodTypes
<1>4. SUFFICES \E value \in Override \cup {NoOverride} :
                 /\ Store(t, c, value) /\ Succeeds(value, c)
                 /\ created' \in Nat /\ created <= created'
  <2> PICK value \in Override \cup {NoOverride} :
             /\ Store(t, c, value) /\ Succeeds(value, c)
             /\ created' \in Nat /\ created <= created'
    BY <1>4
  <2>1. PeriodTypes' /\ PeriodsInv' BY <1>1, <1>2, PeriodStored
  <2> QED BY <2>1, PeriodStep DEF Store
<1>5. CASE old = NoOverride
  <2> DEFINE value == [revision |-> 1, period |-> period, incarnation |-> created + 1]
  <2>1. Store(t, c, value) /\ created' = created + 1
    BY <1>5 DEF SavePeriod
  <2>2. value \in Override BY <1>1 DEF Override
  <2>3. Succeeds(value, c)
    <3>1. value.incarnation = created + 1 /\ value.revision = 1 OBVIOUS
    <3> HIDE DEF value
    <3> QED BY <1>1, <2>1, <3>1 DEF Succeeds
  <2> HIDE DEF value
  <2> QED BY <1>1, <2>1, <2>2, <2>3
<1>6. CASE old # NoOverride /\ old.period = period
  <2>1. Store(t, c, old) /\ created' = created
    BY <1>6 DEF SavePeriod
  <2>2. old.incarnation \in Nat /\ old.revision \in Nat BY <1>3, <1>6 DEF Override
  <2>3. Succeeds(old, c)
    BY <1>1, <1>2, <1>6, <2>1, <2>2 DEF Succeeds, PeriodsInv, OverrideInv
  <2> HIDE DEF old, c
  <2> QED BY <1>1, <1>3, <2>1, <2>3
<1>7. CASE old # NoOverride /\ old.period # period
  <2>1. PICK r \in Nat, q \in PlanningPeriods, k \in Nat :
          old = [revision |-> r, period |-> q, incarnation |-> k]
    BY <1>3, <1>7 DEF Override
  <2> DEFINE value == [revision |-> r + 1, period |-> period, incarnation |-> k]
  <2>2. [old EXCEPT !.period = period, !.revision = NextRevision(old)] = value
    <3>1. PICK v \in Nat : v = r + 1 OBVIOUS
    <3>2. NextRevision(old) = v BY <2>1, <3>1 DEF NextRevision
    <3> HIDE DEF old
    <3>3. [old EXCEPT !.period = period, !.revision = v]
            = [revision |-> v, period |-> period, incarnation |-> old.incarnation]
      BY <1>3, <1>7, AnotherPeriod
    <3>4. old.incarnation = k BY <2>1
    <3> QED BY <3>1, <3>2, <3>3, <3>4
  <2>3. Store(t, c, [old EXCEPT !.period = period, !.revision = NextRevision(old)])
        /\ created' = created
    BY <1>7 DEF SavePeriod
  <2>4. value \in Override BY <2>1 DEF Override
  <2>5. k <= created BY <1>1, <1>2, <1>7, <2>1 DEF PeriodsInv, OverrideInv
  <2>6. Succeeds(value, c)
    <3>1. value.incarnation = k /\ value.revision = r + 1 /\ value.period = period OBVIOUS
    <3>2. old.revision = r /\ old.incarnation = k BY <2>1
    <3> HIDE DEF value
    <3> QED BY <1>1, <1>7, <2>1, <2>3, <2>5, <3>1, <3>2 DEF Succeeds
  <2>7. Store(t, c, value) BY <2>2, <2>3
  <2> HIDE DEF value, old, c
  <2> QED BY <1>1, <2>3, <2>4, <2>6, <2>7
<1> QED BY <1>5, <1>6, <1>7

LEMMA ClearPeriodKeeps ==
  ASSUME Invariant, NEW t \in Tabs, ClearPeriod(t)
  PROVE  Invariant'
<1> DEFINE c == page[t].course
<1>1. PeriodTypes /\ PeriodsInv /\ created \in Nat
  BY InvariantParts DEF RowTypes
<1>2. page[t] # Idle /\ c \in Courses
  <2>1. page[t] \in Page BY <1>1 DEF ClearPeriod, PageMatches, PeriodTypes
  <2> QED BY <2>1, ValuesAssumption DEF Page
<1>3. Store(t, c, NoOverride) /\ created' = created
  BY DEF ClearPeriod
<1>4. Succeeds(NoOverride, c)
  BY DEF Succeeds
<1>5. PeriodTypes' /\ PeriodsInv'
  BY <1>1, <1>2, <1>3, <1>4, PeriodStored
<1> QED BY <1>1, <1>3, <1>5, PeriodStep DEF Store
-----------------------------------------------------------------------------
(* Nothing is drafted and no dialog or page is open at first.              *)
LEMMA InitHolds == DraftInit => Invariant
<1> SUFFICES ASSUME DraftInit PROVE Invariant
  OBVIOUS
<1>1. DraftTypes
  BY DEF DraftInit, DraftTypes
<1>2. \A c \in Courses : ~ HasDraft(c)
  BY DEF DraftInit, HasDraft
<1>3. RowsInv
  BY <1>2 DEF DraftInit, RowsInv, DraftsOwnSessions, Bounded, DraftsBounded
<1>4. Inv
  BY <1>3 DEF DraftInit, Inv, DialogInv, PageInv, OverrideInv
<1> QED BY <1>1, <1>4 DEF Invariant

LEMMA StutterKeeps ==
  ASSUME Invariant, UNCHANGED draftVars
  PROVE  Invariant'
<1>1. form' \in [Planners -> Form \cup {Idle}]
  BY DEF draftVars, Invariant, DraftTypes
<1> QED BY <1>1, FormStep DEF draftVars, periods

LEMMA NextKeeps == Invariant /\ [DraftNext]_draftVars => Invariant'
<1> SUFFICES ASSUME Invariant, [DraftNext]_draftVars PROVE Invariant'
  OBVIOUS
<1>1. ASSUME NEW c \in Courses, NEW date \in Dates, NEW room \in Rooms, CreateManual(c, date, room)
      PROVE  Invariant'
  BY <1>1, CreateManualKeeps
<1>2. ASSUME NEW p \in Planners, NEW c \in Courses, NEW s \in sessions,
             NEW date \in Dates, NEW room \in Rooms, EditRead(p, c, s, date, room)
      PROVE  Invariant'
  BY <1>2, EditReadKeeps
<1>3. ASSUME NEW p \in Planners,
             EditWrite(p) \/ EditDraftOnly(p) \/ EditRefused(p) \/ EditFlushFails(p)
               \/ CloseDialog(p) \/ DeleteSession(p) \/ ClearDraft(p)
      PROVE  Invariant'
  <2>1. CASE EditWrite(p) BY <2>1, EditWriteKeeps
  <2>2. CASE EditRefused(p) \/ EditFlushFails(p) BY <2>2, EditEndsKeeps
  <2>3. CASE CloseDialog(p) BY <2>3, CloseDialogKeeps
  <2>4. CASE DeleteSession(p) BY <2>4, DeleteSessionKeeps
  <2>5. CASE ClearDraft(p) BY <2>5, ClearDraftKeeps
  <2>6. CASE EditDraftOnly(p) BY <2>6, EditDraftOnlyKeeps
  <2> QED BY <1>3, <2>1, <2>2, <2>3, <2>4, <2>5, <2>6
<1>4. ASSUME NEW p \in Planners, NEW c \in Courses,
             NEW target \in {s.id : s \in sessions} \cup {Everything}, OpenDialog(p, c, target)
      PROVE  Invariant'
  BY <1>4, OpenDialogKeeps
<1>5. ASSUME NEW c \in Courses, NEW plan \in Plans, Regenerate(c, plan) \/ Materialize(c, plan)
      PROVE  Invariant'
  BY <1>5, RegenerateKeeps, MaterializeKeeps
<1>6. ASSUME NEW t \in Tabs, NEW c \in Courses, ShowPeriod(t, c)
      PROVE  Invariant'
  BY <1>6, ShowPeriodKeeps
<1>7. ASSUME NEW t \in Tabs, NEW period \in PlanningPeriods, SavePeriod(t, period)
      PROVE  Invariant'
  BY <1>7, SavePeriodKeeps
<1>8. ASSUME NEW t \in Tabs, ClearPeriod(t)
      PROVE  Invariant'
  BY <1>8, ClearPeriodKeeps
<1>9. CASE UNCHANGED draftVars
  BY <1>9, StutterKeeps
<1> QED BY <1>1, <1>2, <1>3, <1>4, <1>5, <1>6, <1>7, <1>8, <1>9 DEF DraftNext

(* Every variable keeps its type, and the parts of Inv hold in every       *)
(* reachable state.                                                        *)
THEOREM InvHolds == DraftSpec => []Invariant
BY InitHolds, NextKeeps, PTL DEF DraftSpec

(* The variables keep the types of their columns, requests and pages.      *)
THEOREM TypesHold == DraftSpec => []DraftTypes
<1>1. Invariant => DraftTypes
  BY DEF Invariant
<1> QED BY <1>1, InvHolds, PTL

(* No draft without a session, no session without its draft, no id twice   *)
(* in a table and no two sessions of a draft on one day: whatever ids      *)
(* SQLite gives out again, and whatever a stale edit writes.               *)
THEOREM DraftsOwnTheirSessions == DraftSpec => []DraftsOwnSessions
<1>1. Invariant => DraftsOwnSessions
  BY DEF Invariant, Inv, RowsInv
<1> QED BY <1>1, InvHolds, PTL

(* A deletion that _claim_draft_revision lets pass, and a period that a    *)
(* page saves or clears, act on what the planner saw.                      *)
THEOREM ConfirmationsAreCurrent == DraftSpec => []ConfirmationCurrent
<1>1. ASSUME Invariant PROVE ConfirmationCurrent
  <2>1. ASSUME NEW p \in Planners, TokenMatches(p), ~ dialog[p].overlapped,
               dialog[p].incarnation = drafts[dialog[p].course].incarnation
        PROVE  dialog[p].seen = Content(dialog[p].course)
    BY <1>1, <2>1 DEF Invariant, Inv, DialogInv, TokenMatches
  <2>2. ASSUME NEW t \in Tabs, PageMatches(t), page[t].shown # NoOverride,
               page[t].shown.incarnation = override[page[t].course].incarnation
        PROVE  page[t].shown.period = override[page[t].course].period
    <3>1. page[t].shown \in Override
      BY <1>1, <2>2 DEF Invariant, DraftTypes, PageMatches, Page
    <3>2. page[t].shown.revision \in Nat /\ 1 <= page[t].shown.revision
      BY <1>1, <2>2, <3>1 DEF Invariant, Inv, PageInv, PageMatches, Override
    <3>3. override[page[t].course] # NoOverride
      BY <2>2, <3>2 DEF PageMatches, RevisionOf
    <3>4. page[t].shown.revision = override[page[t].course].revision
      BY <2>2, <3>3 DEF PageMatches, RevisionOf
    <3> QED BY <1>1, <2>2, <3>3, <3>4 DEF Invariant, Inv, PageInv, PageMatches
  <2> QED BY <2>1, <2>2 DEF ConfirmationCurrent
<1>2. Invariant => ConfirmationCurrent
  BY <1>1
<1> QED BY <1>2, InvHolds, PTL
=============================================================================
