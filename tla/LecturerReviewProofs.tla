------------------------ MODULE LecturerReviewProofs ------------------------
(***************************************************************************)
(* Theorems about LecturerReview, for any revisions, lecturers, browsers   *)
(* and numbers of links, and any time.                                     *)
(*                                                                         *)
(* Every step does one of three things to the links: some active ones end, *)
(* or besides a new one is issued, or besides one is replaced by a new one *)
(* (OnlyEnds, Issues, Replaces).  The invariant follows from that alone.   *)
(***************************************************************************)
EXTENDS LecturerReview, TLAPS

(* The ids are given out in order, and only a replaced link names another. *)
LinksInOrder == \A k, l \in Links : k < l /\ l \in Issued => k \in Issued
OnlyReplacedNames ==
  \A l \in Links : links[l].status # "replaced" => links[l].replacedBy = NoLink

(* A request waits unanswered for a link that exists; one that was not     *)
(* usable when it arrived has ended since, or expired before.              *)
RequestsInv ==
  \A b \in Browsers :
    request[b] # Idle =>
      /\ outcome[b] = "none"
      /\ request[b].link \in Issued
      /\ ~ request[b].usable /\ request[b].link \in Active =>
           links[request[b].link].expires <= request[b].now

(* One feedback is stored under a link and a submission.                   *)
FeedbackOnce ==
  \A f, g \in feedback : f.link = g.link /\ f.submission = g.submission => f = g

(* The inductive invariant.                                                *)
LinksInv ==
  /\ ActiveLinksAreCurrent /\ ReplacementsFormChains
  /\ LinksInOrder /\ OnlyReplacedNames
Inv == LinksInv /\ RequestsInv /\ FeedbackOnce
-----------------------------------------------------------------------------
(* What a step does to one link that it neither issues nor replaces.       *)
Endings == {"expired", "revoked", "revision_ended"}
KeptOrEnded(l) ==
  \/ links'[l] = links[l]
  \/ l \in Active /\ \E ending \in Endings : links'[l] = Ended(links[l], ending)

(* What a step does to all links.                                          *)
OnlyEnds == \A l \in Links : KeptOrEnded(l)

IsNew(n, r, lecturer) ==
  /\ n \in Links /\ Fresh(n)
  /\ links'[n].status = "active" /\ links'[n].replacedBy = NoLink
  /\ links'[n].revision = r /\ links'[n].lecturer = lecturer

Issues ==
  \E n \in Links, r \in Revisions, lecturer \in Lecturers :
    /\ IsNew(n, r, lecturer)
    /\ Reviewable(r) /\ Pair(r, lecturer) \cap Active = {}
    /\ \A l \in Links \ {n} : KeptOrEnded(l)

Replaces ==
  \E n, old \in Links :
    /\ links[old].status \in {"active", "revoked"}
    /\ Reviewable(links[old].revision)
    /\ IsNew(n, links[old].revision, links[old].lecturer)
    /\ links'[old] = Replaced(links[old], n)
    /\ \A l \in Links \ {n, old} : KeptOrEnded(l)
    /\ \A l \in Links \ {n, old} : SamePair(l, old) => links'[l].status # "active"

LEMMA LinkFields ==
  ASSUME TypeOK, NEW l \in Links
  PROVE  /\ links[l] \in Link /\ links[l].status \in Statuses
         /\ links[l].revision \in Revisions /\ links[l].lecturer \in Lecturers
         /\ links[l].expires \in Nat /\ links[l].replacedBy \in Links \cup {NoLink}
BY DEF TypeOK, Link

(* Links with new values of these shapes are links.                        *)
LEMMA LinkShapes ==
  ASSUME TypeOK, NEW l \in Links
  PROVE  /\ \A ending \in Endings : Ended(links[l], ending) \in Link
         /\ \A n \in Links : Replaced(links[l], n) \in Link
         /\ \A r \in Revisions, lecturer \in Lecturers, d \in Durations :
              NewLink(r, lecturer, d) \in Link
<1>1. \A d \in Durations : clock + d \in Nat
  BY DurationsAssumption DEF TypeOK
<1> QED BY <1>1, LinkFields DEF Ended, Replaced, NewLink, Link, Statuses, Endings

(* Marking due links as expired.                                           *)
LEMMA MaterializedType ==
  ASSUME TypeOK, NEW scope, NEW now
  PROVE  /\ Materialized(scope, now) \in [Links -> Link]
         /\ \A l \in Links :
              Materialized(scope, now)[l]
                = IF l \in scope /\ DueAt(l, now) THEN Ended(links[l], "expired") ELSE links[l]
<1>1. \A l \in Links :
        (IF l \in scope /\ DueAt(l, now) THEN Ended(links[l], "expired") ELSE links[l]) \in Link
  BY LinkFields, LinkShapes DEF Endings
<1> QED BY <1>1 DEF Materialized

LEMMA FreshIsNotIssued ==
  ASSUME TypeOK, NEW n \in Links, Fresh(n)
  PROVE  n \notin Issued /\ n \notin Active /\ \A l \in Links : l < n => l \in Issued
BY DEF Fresh, Issued, Active

LEMMA MoveEnds ==
  ASSUME TypeOK, NEW r \in Revisions, MoveRevision(r)
  PROVE  links' \in [Links -> Link] /\ OnlyEnds
<1>1. \A l \in Links : Ended(links[l], "revision_ended") \in Link /\ links[l] \in Link
  BY LinkFields, LinkShapes DEF Endings
<1>2. links' \in [Links -> Link]
  BY <1>1 DEF MoveRevision, LinksAfter
<1> QED BY <1>2 DEF MoveRevision, LinksAfter, OnlyEnds, KeptOrEnded, Endings

LEMMA MaterializedEnds ==
  ASSUME TypeOK, NEW scope, NEW now, links' = Materialized(scope, now)
  PROVE  links' \in [Links -> Link] /\ OnlyEnds
BY MaterializedType DEF OnlyEnds, KeptOrEnded, Endings, DueAt

LEMMA RevokeEnds ==
  ASSUME TypeOK, NEW l \in Links, Revoke(l)
  PROVE  links' \in [Links -> Link] /\ OnlyEnds
<1> DEFINE marked == Materialized(OfRevision(links[l].revision), clock)
<1>1. marked \in [Links -> Link] /\ Ended(links[l], "revoked") \in Link
  BY MaterializedType, LinkShapes DEF Endings
<1>2. \A k \in Links :
        marked[k] = links[k] \/ (k \in Active /\ marked[k] = Ended(links[k], "expired"))
  BY MaterializedType DEF DueAt
<1>3. links' = [marked EXCEPT ![l] = Ended(links[l], "revoked")]
  BY DEF Revoke
<1>4. l \in Active
  BY DEF Revoke
<1> HIDE DEF marked
<1> QED BY <1>1, <1>2, <1>3, <1>4 DEF OnlyEnds, KeptOrEnded, Endings

LEMMA IssueIssues ==
  ASSUME TypeOK, NEW r \in Revisions, NEW lecturer \in Lecturers, NEW d \in Durations,
         Issue(r, lecturer, d)
  PROVE  links' \in [Links -> Link] /\ Issues
<1> DEFINE marked == Materialized(OfRevision(r), clock)
<1>1. PICK n \in Links :
        Fresh(n) /\ links' = [marked EXCEPT ![n] = NewLink(r, lecturer, d)]
  BY DEF Issue
<1>2. marked \in [Links -> Link] /\ NewLink(r, lecturer, d) \in Link
  BY MaterializedType, LinkShapes
<1>3. \A k \in Links :
        marked[k] = links[k] \/ (k \in Active /\ marked[k] = Ended(links[k], "expired"))
  BY MaterializedType DEF DueAt
<1>4. Reviewable(r) /\ Pair(r, lecturer) \cap Active = {}
  BY DEF Issue, IssueAllowed, Reviewable, PUBLIC_STATES, Lifecycle!WORKING_STATES
<1> HIDE DEF marked
<1>5. links' \in [Links -> Link]
  BY <1>1, <1>2
<1>6. IsNew(n, r, lecturer)
  BY <1>1, <1>2 DEF IsNew, NewLink
<1>7. \A k \in Links \ {n} : KeptOrEnded(k)
  BY <1>1, <1>2, <1>3 DEF KeptOrEnded, Endings
<1> QED BY <1>4, <1>5, <1>6, <1>7 DEF Issues

LEMMA ReplaceReplaces ==
  ASSUME TypeOK, NEW l \in Links, NEW d \in Durations, Replace(l, d)
  PROVE  links' \in [Links -> Link] /\ Replaces
<1> DEFINE marked == Materialized(OfRevision(links[l].revision), clock)
           new == NewLink(links[l].revision, links[l].lecturer, d)
<1>1. PICK n \in Links :
        Fresh(n) /\ links' = [marked EXCEPT ![l] = Replaced(links[l], n), ![n] = new]
  BY DEF Replace
<1>2. marked \in [Links -> Link] /\ new \in Link /\ Replaced(links[l], n) \in Link
  BY MaterializedType, LinkShapes, LinkFields
<1>3. \A k \in Links :
        marked[k] = links[k] \/ (k \in Active /\ marked[k] = Ended(links[k], "expired"))
  BY MaterializedType DEF DueAt
<1>4. links[l].status \in {"active", "revoked"} /\ Reviewable(links[l].revision) /\ n # l
  BY <1>1 DEF Replace, Replaceable, Active, Fresh
<1>5. /\ new.status = "active" /\ new.replacedBy = NoLink
      /\ new.revision = links[l].revision /\ new.lecturer = links[l].lecturer
  BY DEF NewLink
<1>6. ASSUME NEW k \in Links \ {n, l}, SamePair(k, l) PROVE marked[k].status # "active"
  <2>1. CASE k \in Active
    <3>1. k \in OfRevision(links[l].revision) /\ Due(k)
      BY <1>6, <2>1 DEF Replace, Replaceable, OfRevision, SamePair, Issued, Active
    <3>2. marked[k] = Ended(links[k], "expired")
      BY <3>1, MaterializedType DEF Due
    <3> QED BY <3>2 DEF Ended
  <2>2. CASE k \notin Active
    BY <2>2, MaterializedType DEF DueAt, Active
  <2> QED BY <2>1, <2>2
<1> HIDE DEF marked, new
<1>7. /\ links' \in [Links -> Link]
      /\ links'[n] = new /\ links'[l] = Replaced(links[l], n)
      /\ \A k \in Links \ {n, l} : links'[k] = marked[k]
  BY <1>1, <1>2, <1>4
<1>8. IsNew(n, links[l].revision, links[l].lecturer)
  BY <1>1, <1>5, <1>7 DEF IsNew
<1>9. \A k \in Links \ {n, l} : KeptOrEnded(k)
  BY <1>3, <1>7 DEF KeptOrEnded, Endings
<1> QED BY <1>4, <1>6, <1>7, <1>8, <1>9 DEF Replaces

(* What a step does to the links; all but the planners' writes and a       *)
(* materialized expiry leave them as they are.                             *)
LEMMA LinksStep ==
  ASSUME TypeOK, [Next]_vars
  PROVE  links' \in [Links -> Link] /\ (OnlyEnds \/ Issues \/ Replaces)
<1> DEFINE Goal == links' \in [Links -> Link] /\ (OnlyEnds \/ Issues \/ Replaces)
<1>1. CASE UNCHANGED links
  BY <1>1 DEF TypeOK, OnlyEnds, KeptOrEnded
<1>2. ASSUME NEW r \in Revisions, MoveRevision(r) \/ ReadOverview(r) PROVE Goal
  BY <1>2, MoveEnds, MaterializedEnds DEF ReadOverview
<1>3. ASSUME NEW r \in Revisions, NEW lecturer \in Lecturers, NEW d \in Durations,
             Issue(r, lecturer, d)
      PROVE  Goal
  BY <1>3, IssueIssues
<1>4. ASSUME NEW l \in Links, Revoke(l) PROVE Goal
  BY <1>4, RevokeEnds
<1>5. ASSUME NEW l \in Links, NEW d \in Durations, Replace(l, d) PROVE Goal
  BY <1>5, ReplaceReplaces
<1>6. ASSUME NEW b \in Browsers, Unavailable(b), ~ UNCHANGED links PROVE Goal
  BY <1>6, MaterializedEnds DEF Unavailable
<1> QED
  BY <1>1, <1>2, <1>3, <1>4, <1>5, <1>6
     DEF Next, vars, Tick, Arrive, View, Replay, Refused, SubmitNew

(* The revisions move as their own specification says, or not at all.      *)
LEMMA RevisionsStep ==
  ASSUME [Next]_vars
  PROVE  UNCHANGED lifecycle \/ \E r \in Revisions : MoveRevision(r)
BY DEF Next, vars, lifecycle, Tick, ReadOverview, Issue, Revoke, Replace, Arrive, Unavailable,
       View, Replay, Refused, SubmitNew

LEMMA LifecycleTypeStep ==
  ASSUME Lifecycle!TypeOK, NEW r \in Revisions, Lifecycle!Step(r)
  PROVE  Lifecycle!TypeOK'
BY DEF Lifecycle!TypeOK, Lifecycle!Step, Lifecycle!Start, Lifecycle!MarkReady,
       Lifecycle!ReturnToDraft, Lifecycle!Restore, Lifecycle!Abandon, Lifecycle!Publish,
       Lifecycle!State, Lifecycle!WORKING_STATES

LEMMA TypeAtFirst == Init => TypeOK
<1> SUFFICES ASSUME Init PROVE TypeOK OBVIOUS
<1>1. Lifecycle!TypeOK
  BY DEF Init, Lifecycle!Init, Lifecycle!TypeOK, Lifecycle!State
<1>2. (CHOOSE r \in Revisions : TRUE) \in Revisions /\ (CHOOSE x \in Lecturers : TRUE) \in Lecturers
  BY NonEmptyAssumption
<1>3. links \in [Links -> Link]
  BY <1>2 DEF Init, Link, Statuses
<1> QED BY <1>1, <1>3 DEF Init, TypeOK

LEMMA TypeStep == TypeOK /\ [Next]_vars => TypeOK'
<1> SUFFICES ASSUME TypeOK, [Next]_vars PROVE TypeOK'
  OBVIOUS
<1>1. links' \in [Links -> Link]
  BY LinksStep
<1>2. Lifecycle!TypeOK'
  <2>1. CASE UNCHANGED lifecycle
    BY <2>1 DEF lifecycle, TypeOK, Lifecycle!TypeOK
  <2>2. ASSUME NEW r \in Revisions, MoveRevision(r) PROVE Lifecycle!TypeOK'
    BY <2>2, LifecycleTypeStep DEF MoveRevision, TypeOK
  <2> QED BY <2>1, <2>2, RevisionsStep
<1>3. clock' \in Nat
  <2>1. CASE Tick
    BY <2>1 DEF Tick, TypeOK
  <2>2. CASE ~ Tick
    <3>1. clock' = clock
      BY <2>2 DEF Next, vars, MoveRevision, ReadOverview, Issue, Revoke, Replace, Arrive,
                  Unavailable, View, Replay, Refused, SubmitNew
    <3> QED BY <3>1 DEF TypeOK
  <2> QED BY <2>1, <2>2
<1>4. /\ request' \in [Browsers -> Request \cup {Idle}]
      /\ outcome' \in [Browsers -> {"none", "accepted", "unavailable", "refused"}]
  <2>1. ASSUME NEW b \in Browsers, NEW l \in Links, NEW submission \in Submissions,
               NEW comment \in Comments \cup {NoComment}, Arrive(b, l, submission, comment)
        PROVE  /\ request' \in [Browsers -> Request \cup {Idle}]
               /\ outcome' \in [Browsers -> {"none", "accepted", "unavailable", "refused"}]
    <3>1. Usable(l) \in BOOLEAN
      BY DEF Usable, Due, DueAt
    <3>2. [link |-> l, now |-> clock, usable |-> Usable(l),
           submission |-> submission, comment |-> comment] \in Request
      BY <3>1 DEF Request, TypeOK
    <3> QED BY <2>1, <3>2 DEF Arrive, TypeOK
  <2>2. ASSUME NEW b \in Browsers,
               Unavailable(b) \/ View(b) \/ Replay(b) \/ Refused(b) \/ SubmitNew(b)
        PROVE  /\ request' \in [Browsers -> Request \cup {Idle}]
               /\ outcome' \in [Browsers -> {"none", "accepted", "unavailable", "refused"}]
    BY <2>2 DEF Unavailable, View, Replay, Refused, SubmitNew, Respond, TypeOK
  <2>3. CASE UNCHANGED <<request, outcome>>
    BY <2>3 DEF TypeOK
  <2> QED BY <2>1, <2>2, <2>3
             DEF Next, vars, lecturers, Tick, MoveRevision, ReadOverview, Issue, Revoke, Replace
<1>5. feedback' \subseteq Feedback
  <2>1. ASSUME NEW b \in Browsers, SubmitNew(b) PROVE feedback' \subseteq Feedback
    <3>1. request[b] \in Request /\ request[b].comment \in Comments
      BY <2>1 DEF SubmitNew, Admitted, TypeOK, Request
    <3>2. Submitted(b) \in Feedback
      BY <3>1 DEF Submitted, Feedback, Request
    <3> QED BY <2>1, <3>2 DEF SubmitNew, TypeOK
  <2>2. CASE UNCHANGED feedback
    BY <2>2 DEF TypeOK
  <2> QED BY <2>1, <2>2
             DEF Next, vars, lecturers, Tick, MoveRevision, ReadOverview, Issue, Revoke, Replace,
                 Arrive, Unavailable, View, Replay, Refused
<1> QED BY <1>1, <1>2, <1>3, <1>4, <1>5 DEF TypeOK

(* Every variable keeps its type.                                          *)
THEOREM TypesHold == Spec => []TypeOK
BY TypeAtFirst, TypeStep, PTL DEF Spec
-----------------------------------------------------------------------------
(* An issued link stays issued for whom and until when it was; it is not   *)
(* active again once it ended, and only a revoked one is still replaced.   *)
LEMMA IssuedLinkStep ==
  ASSUME TypeOK, [Next]_vars, NEW l \in Issued
  PROVE  /\ l \in Links /\ l \in Issued'
         /\ links'[l].revision = links[l].revision /\ links'[l].lecturer = links[l].lecturer
         /\ links'[l].expires = links[l].expires
         /\ links'[l].status = "active" => l \in Active /\ links'[l] = links[l]
         /\ links[l].status # "active" =>
              \/ links'[l] = links[l]
              \/ links[l].status = "revoked" /\ links'[l].status = "replaced"
<1>1. l \in Links /\ links[l].status # "absent"
  BY DEF Issued
<1> DEFINE IsReplaced ==
             /\ links[l].status \in {"active", "revoked"}
             /\ \E n \in Links : links'[l] = Replaced(links[l], n)
<1>2. KeptOrEnded(l) \/ IsReplaced
  BY <1>1, LinksStep DEF OnlyEnds, Issues, Replaces, IsNew, Fresh
<1>3. CASE KeptOrEnded(l)
  BY <1>1, <1>3 DEF KeptOrEnded, Ended, Endings, Issued, Active
<1>4. CASE IsReplaced
  BY <1>1, <1>4 DEF Replaced, Issued, Active
<1> QED BY <1>2, <1>3, <1>4

(* A link that stays active stays reviewable: what makes a revision        *)
(* unreviewable ends its links in the same step.                           *)
LEMMA ActiveStaysReviewable ==
  ASSUME TypeOK, ActiveLinksAreCurrent, [Next]_vars, NEW l \in Active,
         links'[l].status = "active"
  PROVE  Reviewable(links[l].revision)'
<1>1. Reviewable(links[l].revision) /\ l \in Links /\ links'[l].revision = links[l].revision
  BY IssuedLinkStep DEF ActiveLinksAreCurrent, Active, Issued
<1>2. CASE UNCHANGED lifecycle
  BY <1>1, <1>2 DEF lifecycle, Reviewable
<1>3. ASSUME NEW r \in Revisions, MoveRevision(r) PROVE Reviewable(links[l].revision)'
  <2> DEFINE q == links[l].revision
  <2>1. q \in Revisions /\ links'[l].revision = q
    BY <1>1, LinkFields
  <2>2. revision'[q] \notin {"abandoned", "superseded"}
    BY <1>1, <1>3 DEF MoveRevision, LinksAfter, Ended
  <2> HIDE DEF q
  <2>3. revision'[q] \in PUBLIC_STATES \cup {"abandoned", "superseded"}
    <3>1. /\ Lifecycle!Step(r) /\ revision \in [Revisions -> Lifecycle!State]
          /\ revision[q] \in PUBLIC_STATES
      BY <1>1, <1>3 DEF MoveRevision, TypeOK, Lifecycle!TypeOK, Reviewable, q
    <3> QED
      BY <2>1, <3>1
         DEF PUBLIC_STATES, Lifecycle!Step, Lifecycle!Start, Lifecycle!MarkReady,
             Lifecycle!ReturnToDraft, Lifecycle!Restore, Lifecycle!Abandon, Lifecycle!Publish,
             Lifecycle!WORKING_STATES
  <2> QED BY <2>1, <2>2, <2>3 DEF Reviewable
<1> QED BY <1>2, <1>3, RevisionsStep

(* Links are issued while the revisions stay as they are.                  *)
LEMMA NewLinkStep ==
  ASSUME TypeOK, [Next]_vars, NEW n \in Links, NEW r, NEW lecturer, IsNew(n, r, lecturer)
  PROVE  revision' = revision /\ n \notin Issued
<1>1. n \notin Issued /\ n \notin Active /\ ~ KeptOrEnded(n)
  BY DEF IsNew, Fresh, Issued, Active, KeptOrEnded
<1>2. ~ \E q \in Revisions : MoveRevision(q)
  BY <1>1, MoveEnds DEF OnlyEnds
<1> QED BY <1>1, <1>2, RevisionsStep DEF lifecycle

(* The links that are active after a step were so before, or are new and   *)
(* without another of their pair.                                          *)
NewAlone(n) ==
  /\ revision'[links'[n].revision] \in PUBLIC_STATES
  /\ \A k \in Active \ {n} :
       links'[k].status = "active" =>
         links[k].revision # links'[n].revision \/ links[k].lecturer # links'[n].lecturer

LEMMA ActiveAfter ==
  ASSUME TypeOK, [Next]_vars
  PROVE  \/ \A l \in Links : links'[l].status = "active" => l \in Active
         \/ \E n \in Links :
              NewAlone(n) /\ \A l \in Links \ {n} : links'[l].status = "active" => l \in Active
<1>1. ASSUME NEW l \in Links, KeptOrEnded(l), links'[l].status = "active" PROVE l \in Active
  BY <1>1 DEF KeptOrEnded, Ended, Endings, Active
<1>2. CASE OnlyEnds
  BY <1>1, <1>2 DEF OnlyEnds
<1>3. CASE Issues
  <2>1. PICK n \in Links, r \in Revisions, lecturer \in Lecturers :
          /\ IsNew(n, r, lecturer)
          /\ Reviewable(r) /\ Pair(r, lecturer) \cap Active = {}
          /\ \A l \in Links \ {n} : KeptOrEnded(l)
    BY <1>3 DEF Issues
  <2>2. revision' = revision /\ links'[n].revision = r /\ links'[n].lecturer = lecturer
    BY <2>1, NewLinkStep DEF IsNew
  <2>3. NewAlone(n)
    BY <2>1, <2>2 DEF NewAlone, Reviewable, Pair, OfRevision, Issued, Active
  <2> QED BY <1>1, <2>1, <2>3
<1>4. CASE Replaces
  <2>1. PICK n \in Links, old \in Links :
          /\ Reviewable(links[old].revision)
          /\ IsNew(n, links[old].revision, links[old].lecturer)
          /\ links'[old] = Replaced(links[old], n)
          /\ \A l \in Links \ {n, old} : KeptOrEnded(l)
          /\ \A l \in Links \ {n, old} : SamePair(l, old) => links'[l].status # "active"
    BY <1>4 DEF Replaces
  <2>2. /\ revision' = revision
        /\ links'[n].revision = links[old].revision /\ links'[n].lecturer = links[old].lecturer
    BY <2>1, NewLinkStep DEF IsNew
  <2>3. links'[old].status # "active"
    BY <2>1 DEF Replaced
  <2>4. NewAlone(n)
    BY <2>1, <2>2, <2>3 DEF NewAlone, Reviewable, SamePair, Active
  <2> QED BY <1>1, <2>1, <2>3, <2>4
<1> QED BY <1>2, <1>3, <1>4, LinksStep

LEMMA ActiveStep == TypeOK /\ LinksInv /\ [Next]_vars => ActiveLinksAreCurrent'
<1> SUFFICES ASSUME TypeOK, LinksInv, [Next]_vars PROVE ActiveLinksAreCurrent'
  OBVIOUS
<1>1. \A l \in Active :
        links'[l].status = "active" =>
          links'[l] = links[l] /\ revision'[links'[l].revision] \in PUBLIC_STATES
  <2> SUFFICES ASSUME NEW l \in Active, links'[l].status = "active"
               PROVE  links'[l] = links[l] /\ revision'[links'[l].revision] \in PUBLIC_STATES
    OBVIOUS
  <2>1. links'[l] = links[l]
    BY IssuedLinkStep DEF Active, Issued
  <2>2. Reviewable(links[l].revision)'
    BY ActiveStaysReviewable DEF LinksInv
  <2> QED BY <2>1, <2>2 DEF Reviewable
<1>2. \A k, l \in Active : SamePair(k, l) => k = l
  BY DEF LinksInv, ActiveLinksAreCurrent
<1>3. ASSUME NEW l \in Links, links'[l].status = "active"
      PROVE  revision'[links'[l].revision] \in PUBLIC_STATES
  BY <1>1, <1>3, ActiveAfter DEF NewAlone
<1>4. ASSUME NEW k \in Links, links'[k].status = "active",
             NEW l \in Links, links'[l].status = "active",
             links'[k].revision = links'[l].revision, links'[k].lecturer = links'[l].lecturer
      PROVE  k = l
  BY <1>1, <1>2, <1>4, ActiveAfter DEF NewAlone, SamePair
<1> QED BY <1>3, <1>4 DEF ActiveLinksAreCurrent, Active, SamePair, Reviewable

(* Of the links, a step lets at most one name a successor: a new link.     *)
Named(old, n) ==
  /\ n \in Links /\ n \notin Issued /\ old \in Issued
  /\ \A k \in Links : k < n => k \in Issued
  /\ links'[old].status = "replaced" /\ links'[old].replacedBy = n
  /\ links'[n].status = "active"
  /\ links'[n].revision = links[old].revision /\ links'[n].lecturer = links[old].lecturer

LEMMA NamesStep ==
  ASSUME TypeOK, LinksInv, [Next]_vars
  PROVE  \E old \in Links \cup {NoLink} :
           /\ \A k \in Links \ {old} :
                /\ links'[k].replacedBy = links[k].replacedBy
                /\ (links'[k].status = "replaced") = (links[k].status = "replaced")
           /\ old \in Links => \E n \in Links : Named(old, n)
<1> DEFINE Same(k) == /\ links'[k].replacedBy = links[k].replacedBy
                      /\ (links'[k].status = "replaced") = (links[k].status = "replaced")
<1>1. ASSUME NEW k \in Links, KeptOrEnded(k) PROVE Same(k)
  BY <1>1 DEF KeptOrEnded, Ended, Endings, Active, LinksInv, OnlyReplacedNames
<1>2. ASSUME NEW k \in Links, NEW r, NEW lecturer, IsNew(k, r, lecturer) PROVE Same(k)
  BY <1>2 DEF IsNew, Fresh, LinksInv, OnlyReplacedNames
<1>3. NoLink \notin Links
  BY BoundsAssumption DEF NoLink, Links
<1>4. CASE OnlyEnds \/ Issues
  <2>1. \A k \in Links : Same(k)
    BY <1>1, <1>2, <1>4 DEF OnlyEnds, Issues
  <2> QED BY <1>3, <2>1
<1>5. CASE Replaces
  <2>1. PICK n \in Links, old \in Links :
          /\ links[old].status \in {"active", "revoked"}
          /\ IsNew(n, links[old].revision, links[old].lecturer)
          /\ links'[old] = Replaced(links[old], n)
          /\ \A l \in Links \ {n, old} : KeptOrEnded(l)
    BY <1>5 DEF Replaces
  <2>2. \A k \in Links \ {old} : Same(k)
    BY <1>1, <1>2, <2>1
  <2>3. n \notin Issued /\ \A k \in Links : k < n => k \in Issued
    BY <2>1, FreshIsNotIssued DEF IsNew
  <2>4. Named(old, n)
    BY <2>1, <2>3 DEF Named, IsNew, Replaced, Issued
  <2> QED BY <2>2, <2>4
<1> QED BY <1>4, <1>5, LinksStep

LEMMA ChainsStep ==
  TypeOK /\ LinksInv /\ [Next]_vars => ReplacementsFormChains' /\ OnlyReplacedNames'
<1> SUFFICES ASSUME TypeOK, LinksInv, [Next]_vars
             PROVE  ReplacementsFormChains' /\ OnlyReplacedNames'
  OBVIOUS
<1>1. PICK old \in Links \cup {NoLink} :
        /\ \A k \in Links \ {old} :
             /\ links'[k].replacedBy = links[k].replacedBy
             /\ (links'[k].status = "replaced") = (links[k].status = "replaced")
        /\ old \in Links => \E n \in Links : Named(old, n)
  BY NamesStep
<1>2. NoLink \notin Links /\ Links \subseteq Nat
  BY BoundsAssumption DEF NoLink, Links
<1>3. \A l \in Issued :
        /\ l \in Links /\ l \in Issued'
        /\ links'[l].revision = links[l].revision /\ links'[l].lecturer = links[l].lecturer
  BY IssuedLinkStep
<1>4. \A k \in Links : links[k].replacedBy \in Links => links[k].replacedBy \in Issued
  BY <1>2 DEF LinksInv, ReplacementsFormChains, OnlyReplacedNames
<1> DEFINE Chained(l) ==
             LET successor == links'[l].replacedBy IN
             /\ successor > l
             /\ successor \in Issued'
             /\ links'[l].revision = links'[successor].revision
             /\ links'[l].lecturer = links'[successor].lecturer
             /\ \A k \in Links : links'[k].replacedBy = successor => k = l
<1>5. ASSUME NEW l \in Links, l # old, links'[l].status = "replaced" PROVE Chained(l)
  <2> DEFINE successor == links[l].replacedBy
  <2>1. /\ links[l].status = "replaced" /\ links'[l].replacedBy = successor
        /\ successor > l /\ successor \in Issued /\ SamePair(l, successor)
        /\ \A k \in Links : links[k].replacedBy = successor => k = l
    BY <1>1, <1>5 DEF LinksInv, ReplacementsFormChains
  <2>2. l \in Issued
    BY <2>1 DEF Issued
  <2>3. \A k \in Links : links'[k].replacedBy = successor => k = l
    <3>1. \A k \in Links \ {old} : links'[k].replacedBy = successor => k = l
      BY <1>1, <2>1
    <3>2. old \in Links => links'[old].replacedBy \notin Issued
      BY <1>1 DEF Named
    <3> QED BY <2>1, <3>1, <3>2
  <2> QED BY <1>3, <2>1, <2>2, <2>3 DEF SamePair
<1>6. ASSUME old \in Links PROVE Chained(old)
  <2>1. PICK n \in Links : Named(old, n)
    BY <1>1, <1>6
  <2>2. n > old
    <3>1. old \in Issued /\ n \notin Issued /\ old \in Nat /\ n \in Nat
      BY <1>2, <2>1, <1>6 DEF Named
    <3>2. ~ (n < old)
      BY <1>6, <3>1 DEF LinksInv, LinksInOrder
    <3> QED BY <3>1, <3>2
  <2>3. n \in Issued' /\ links'[old].replacedBy = n
    BY <2>1 DEF Named, Issued
  <2>4. links'[n].revision = links'[old].revision /\ links'[n].lecturer = links'[old].lecturer
    BY <1>3, <2>1 DEF Named
  <2>5. \A k \in Links : links'[k].replacedBy = n => k = old
    BY <1>1, <1>4, <2>1 DEF Named
  <2> QED BY <2>2, <2>3, <2>4, <2>5
<1>7. ReplacementsFormChains'
  <2> HIDE DEF Chained
  <2>1. \A l \in Links : links'[l].status = "replaced" => Chained(l)
    BY <1>5, <1>6
  <2> QED BY <2>1 DEF Chained, ReplacementsFormChains, SamePair
<1>8. OnlyReplacedNames'
  <2> SUFFICES ASSUME NEW l \in Links, links'[l].status # "replaced"
               PROVE  links'[l].replacedBy = NoLink
    BY DEF OnlyReplacedNames
  <2>1. CASE l = old
    BY <1>1, <2>1 DEF Named
  <2>2. CASE l # old
    BY <1>1, <2>2 DEF LinksInv, OnlyReplacedNames
  <2> QED BY <2>1, <2>2
<1> QED BY <1>7, <1>8

LEMMA OrderStep == TypeOK /\ LinksInv /\ [Next]_vars => LinksInOrder'
<1> SUFFICES ASSUME TypeOK, LinksInv, [Next]_vars PROVE LinksInOrder'
  OBVIOUS
<1>1. ASSUME NEW l \in Issued' \ Issued PROVE \A k \in Links : k < l => k \in Issued
  <2>1. l \in Links /\ ~ KeptOrEnded(l)
    BY DEF Issued, KeptOrEnded, Active
  <2>2. links[l].status = "absent"
    BY <1>1, <2>1 DEF Issued
  <2>3. Fresh(l)
    BY <2>1, <2>2, LinksStep DEF OnlyEnds, Issues, Replaces, IsNew
  <2> QED BY <2>3 DEF Fresh
<1>2. \A k \in Issued : k \in Issued'
  BY IssuedLinkStep
<1>3. \A k, l \in Links : k < l /\ l \in Issued => k \in Issued
  BY DEF LinksInv, LinksInOrder
<1> QED BY <1>1, <1>2, <1>3 DEF LinksInOrder

LEMMA LinksInvStep == TypeOK /\ LinksInv /\ [Next]_vars => LinksInv'
BY ActiveStep, ChainsStep, OrderStep DEF LinksInv
-----------------------------------------------------------------------------
(* What a step does to a browser's request and to the feedback.            *)
LEMMA RequestsStep == TypeOK /\ LinksInv /\ RequestsInv /\ [Next]_vars => RequestsInv'
<1> SUFFICES ASSUME TypeOK, LinksInv, RequestsInv, [Next]_vars, NEW b \in Browsers,
                    request'[b] # Idle
             PROVE  /\ outcome'[b] = "none"
                    /\ request'[b].link \in Issued'
                    /\ ~ request'[b].usable /\ request'[b].link \in Active' =>
                         links'[request'[b].link].expires <= request'[b].now
  BY DEF RequestsInv
<1>1. CASE request'[b] = request[b] /\ outcome'[b] = outcome[b]
  <2>1. /\ outcome[b] = "none" /\ request[b].link \in Issued
        /\ ~ request[b].usable /\ request[b].link \in Active =>
             links[request[b].link].expires <= request[b].now
    BY <1>1 DEF RequestsInv
  <2>2. /\ request[b].link \in Issued'
        /\ links'[request[b].link].expires = links[request[b].link].expires
        /\ request[b].link \in Active' => request[b].link \in Active
    BY <2>1, IssuedLinkStep DEF Active
  <2> QED BY <1>1, <2>1, <2>2
<1>2. ASSUME NEW l \in Links, NEW submission \in Submissions,
             NEW comment \in Comments \cup {NoComment}, Arrive(b, l, submission, comment)
      PROVE  /\ outcome'[b] = "none"
             /\ request'[b].link = l /\ request'[b].now = clock /\ request'[b].usable = Usable(l)
             /\ links' = links /\ l \in Issued
  BY <1>2 DEF Arrive, TypeOK
<1>3. ASSUME NEW l \in Links, ~ Usable(l), l \in Active PROVE links[l].expires <= clock
  <2>1. Reviewable(links[l].revision)
    BY <1>3 DEF LinksInv, ActiveLinksAreCurrent
  <2>2. clock \in Nat /\ links[l].expires \in Nat
    BY LinkFields DEF TypeOK
  <2> QED BY <1>3, <2>1, <2>2 DEF Usable, Due, DueAt
<1>4. CASE \E l \in Links, submission \in Submissions, comment \in Comments \cup {NoComment} :
             Arrive(b, l, submission, comment)
  BY <1>2, <1>3, <1>4 DEF Issued, Active
<1>5. ASSUME NEW c \in Browsers,
             Unavailable(c) \/ View(c) \/ Replay(c) \/ Refused(c) \/ SubmitNew(c)
      PROVE  request'[b] = request[b] /\ outcome'[b] = outcome[b]
  BY <1>5 DEF Unavailable, View, Replay, Refused, SubmitNew, Respond, TypeOK
<1>6. ASSUME NEW c \in Browsers, c # b, NEW l \in Links, NEW submission \in Submissions,
             NEW comment \in Comments \cup {NoComment}, Arrive(c, l, submission, comment)
      PROVE  request'[b] = request[b] /\ outcome'[b] = outcome[b]
  BY <1>6 DEF Arrive, TypeOK
<1>7. CASE UNCHANGED <<request, outcome>>
  BY <1>1, <1>7
<1> QED BY <1>1, <1>4, <1>5, <1>6, <1>7
           DEF Next, vars, lecturers, Tick, MoveRevision, ReadOverview, Issue, Revoke, Replace

LEMMA FeedbackStep == TypeOK /\ FeedbackOnce /\ [Next]_vars => FeedbackOnce'
<1> SUFFICES ASSUME TypeOK, FeedbackOnce, [Next]_vars PROVE FeedbackOnce'
  OBVIOUS
<1>1. CASE UNCHANGED feedback
  BY <1>1 DEF FeedbackOnce
<1>2. ASSUME NEW b \in Browsers, SubmitNew(b) PROVE FeedbackOnce'
  BY <1>2 DEF SubmitNew, Stored, Submitted, FeedbackOnce
<1> QED BY <1>1, <1>2
           DEF Next, vars, lecturers, Tick, MoveRevision, ReadOverview, Issue, Revoke, Replace,
               Arrive, Unavailable, View, Replay, Refused

(* A request answered with accepted was admitted, as a view or a feedback  *)
(* that is stored now, or repeated one that was.                           *)
LEMMA AcceptedStep ==
  ASSUME TypeOK, RequestsInv, [Next]_vars, NEW b \in Browsers,
         request[b] # Idle, outcome'[b] = "accepted"
  PROVE  Admitted(b) /\ (View(b) \/ SubmitNew(b) \/ Replay(b))
<1>1. outcome[b] = "none"
  BY DEF RequestsInv
<1>2. ASSUME NEW c \in Browsers, c # b,
             Unavailable(c) \/ View(c) \/ Replay(c) \/ Refused(c) \/ SubmitNew(c)
      PROVE  FALSE
  BY <1>1, <1>2 DEF Unavailable, View, Replay, Refused, SubmitNew, Respond, TypeOK
<1>3. ASSUME NEW c \in Browsers, NEW l \in Links, NEW submission \in Submissions,
             NEW comment \in Comments \cup {NoComment}, Arrive(c, l, submission, comment)
      PROVE  FALSE
  BY <1>1, <1>3 DEF Arrive, TypeOK
<1>4. ASSUME Unavailable(b) \/ Refused(b) PROVE FALSE
  BY <1>4 DEF Unavailable, Refused, Respond, TypeOK
<1> QED
  BY <1>1, <1>2, <1>3, <1>4
     DEF Next, vars, lecturers, Tick, MoveRevision, ReadOverview, Issue, Revoke, Replace, View,
         Replay, SubmitNew

LEMMA AccessStep ==
  ASSUME TypeOK, RequestsInv, [Next]_vars, NEW b \in Browsers,
         request[b] # Idle, outcome'[b] = "accepted"
  PROVE  /\ request[b].usable
         /\ request[b].link \in Active
         /\ Reviewable(links[request[b].link].revision)
<1>1. Admitted(b)
  BY AcceptedStep
<1>2. request[b] \in Request /\ request[b].link \in Links
  BY DEF TypeOK, Request
<1>3. /\ links[request[b].link].expires \in Nat /\ request[b].now \in Nat
      /\ request[b].usable \in BOOLEAN
  BY <1>2, LinkFields DEF Request
<1> QED BY <1>1, <1>2, <1>3 DEF Admitted, RequestsInv

LEMMA StoredStep ==
  ASSUME TypeOK, RequestsInv, FeedbackOnce, [Next]_vars, NEW b \in Browsers,
         request[b] # Idle, request[b].comment # NoComment, outcome'[b] = "accepted"
  PROVE  {f \in feedback' : f.link = request[b].link /\ f.submission = request[b].submission}
           = {Submitted(b)}
<1>1. SubmitNew(b) \/ Replay(b)
  BY AcceptedStep DEF View
<1>2. CASE SubmitNew(b)
  BY <1>2 DEF SubmitNew, Stored, Submitted
<1>3. CASE Replay(b)
  BY <1>3 DEF Replay, Stored, Submitted, FeedbackOnce
<1> QED BY <1>1, <1>2, <1>3
-----------------------------------------------------------------------------
LEMMA InvAtFirst == Init => Inv
<1> SUFFICES ASSUME Init PROVE Inv
  OBVIOUS
<1>1. \A l \in Links : links[l].status = "absent" /\ links[l].replacedBy = NoLink
  BY DEF Init
<1>2. LinksInv
  BY <1>1 DEF LinksInv, ActiveLinksAreCurrent, ReplacementsFormChains, LinksInOrder,
              OnlyReplacedNames, Active, Issued
<1>3. RequestsInv /\ FeedbackOnce
  BY DEF Init, RequestsInv, FeedbackOnce
<1> QED BY <1>2, <1>3 DEF Inv

THEOREM InvHolds == Spec => [](TypeOK /\ Inv)
<1>1. TypeOK /\ Inv /\ [Next]_vars => Inv'
  BY LinksInvStep, RequestsStep, FeedbackStep DEF Inv
<1> QED BY <1>1, TypeAtFirst, TypeStep, InvAtFirst, PTL DEF Spec

(* However link and lifecycle requests overlap, a lecturer has at most one *)
(* active link for a revision, and none for one that is no longer shown.   *)
THEOREM LinksAreCurrent == Spec => []ActiveLinksAreCurrent
<1>1. Inv => ActiveLinksAreCurrent
  BY DEF Inv, LinksInv
<1> QED BY <1>1, InvHolds, PTL

(* What has ended stays ended, and replacements lead to one newest link.   *)
THEOREM EndedLinksStay == Spec => EndedLinksStayEnded
<1>1. TypeOK /\ Inv /\ [Next]_vars =>
        [/\ ReplacementsFormChains'
         /\ \A l \in Issued \ Active :
              \/ links'[l] = links[l]
              \/ (links[l].status = "revoked" /\ links'[l].status = "replaced")]_vars
  <2> SUFFICES ASSUME TypeOK, Inv, [Next]_vars
               PROVE  /\ ReplacementsFormChains'
                      /\ \A l \in Issued \ Active :
                           \/ links'[l] = links[l]
                           \/ (links[l].status = "revoked" /\ links'[l].status = "replaced")
    OBVIOUS
  <2>1. ReplacementsFormChains'
    BY ChainsStep DEF Inv
  <2>2. \A l \in Issued \ Active :
          \/ links'[l] = links[l]
          \/ (links[l].status = "revoked" /\ links'[l].status = "replaced")
    BY IssuedLinkStep DEF Active, Issued
  <2> QED BY <2>1, <2>2
<1> QED BY <1>1, InvHolds, PTL DEF Spec, EndedLinksStayEnded

(* Nothing is shown or taken through a link that ended while the request   *)
(* waited, or that was of no use when it arrived.                          *)
THEOREM AccessIsUsable == Spec => AccessOnlyByUsableLinks
<1>1. TypeOK /\ Inv /\ [Next]_vars =>
        [\A b \in Browsers :
           request[b] # Idle /\ outcome'[b] = "accepted" =>
             /\ request[b].usable
             /\ request[b].link \in Active
             /\ Reviewable(links[request[b].link].revision)]_vars
  BY AccessStep DEF Inv
<1> QED BY <1>1, InvHolds, PTL DEF Spec, AccessOnlyByUsableLinks

(* A feedback that is reported as accepted is stored exactly once.         *)
THEOREM FeedbackIsStoredOnce == Spec => FeedbackStoredOnce
<1>1. TypeOK /\ Inv /\ [Next]_vars =>
        [\A b \in Browsers :
           request[b] # Idle /\ request[b].comment # NoComment /\ outcome'[b] = "accepted" =>
             {f \in feedback' : f.link = request[b].link /\ f.submission = request[b].submission}
               = {Submitted(b)}]_vars
  BY StoredStep DEF Inv
<1> QED BY <1>1, InvHolds, PTL DEF Spec, FeedbackStoredOnce
-----------------------------------------------------------------------------
(* One revision is worked on and one is published at most, so a revision   *)
(* in such a state is the current one, which Replace relies on.            *)
THEOREM RevisionsAreCurrent == Spec => []Lifecycle!SingleWorkingSinglePublished
<1> USE DEF Lifecycle!SingleWorkingSinglePublished, Lifecycle!Working, Lifecycle!Published
<1>1. Init => Lifecycle!SingleWorkingSinglePublished
  BY DEF Init, Lifecycle!Init, Lifecycle!WORKING_STATES
<1>2. ASSUME TypeOK, Lifecycle!SingleWorkingSinglePublished, [Next]_vars
      PROVE  Lifecycle!SingleWorkingSinglePublished'
  <2>1. CASE UNCHANGED lifecycle
    BY <1>2, <2>1 DEF lifecycle
  <2>2. ASSUME NEW r \in Revisions, Lifecycle!Step(r)
        PROVE  Lifecycle!SingleWorkingSinglePublished'
    BY <1>2, <2>2
       DEF TypeOK, Lifecycle!TypeOK, Lifecycle!Step, Lifecycle!Start, Lifecycle!MarkReady,
           Lifecycle!ReturnToDraft, Lifecycle!Restore, Lifecycle!Abandon, Lifecycle!Publish,
           Lifecycle!WORKING_STATES
  <2> QED BY <1>2, <2>1, <2>2, RevisionsStep DEF MoveRevision
<1> QED BY <1>1, <1>2, TypesHold, PTL DEF Spec
=============================================================================
