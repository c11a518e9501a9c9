--------------------------- MODULE LecturerReview ---------------------------
(***************************************************************************)
(* Review links that give a lecturer without an account access to one      *)
(* revision, and the feedback sent through them:                           *)
(* backend/app/services/lecturer_review.py behind api/lecturer_review.py.  *)
(*                                                                         *)
(* The revisions move as RevisionStates says; the lifecycle handler that   *)
(* ends a revision ends its links in the same transaction                  *)
(* (terminalize_revision_links).  A planner's handler claims the semester  *)
(* and reads the clock afterwards: one step.  A lecturer's request reads   *)
(* the clock first and then waits for the claim: two steps.                *)
(*                                                                         *)
(* Access limits and requirements on session data only refuse requests     *)
(* here: a refused request leaves links and feedback as they are.          *)
(***************************************************************************)
EXTENDS Naturals, FiniteSets

CONSTANTS
  Revisions,    (* revisions of the semester                                *)
  Contents,     (* contents a revision can be frozen with                   *)
  NoContent,    (* a working revision has no frozen content                 *)
  Lecturers,
  Browsers,     (* lecturers' browsers, one request in flight each          *)
  Submissions,  (* client_submission_id: the browser's id of a feedback     *)
  Comments,     (* what a feedback can say                                  *)
  NoComment,    (* a request for the view or the calendar carries none      *)
  Durations,    (* lifetimes of a link                                      *)
  Idle,         (* the browser waits for nothing                            *)
  MaxLinks,     (* bound: links ever issued                                 *)
  MaxFeedback,  (* bound: feedback stored                                   *)
  MaxTime       (* bound: the clock                                         *)

ASSUME NonEmptyAssumption == Revisions # {} /\ Lecturers # {}
ASSUME DurationsAssumption == Durations \subseteq Nat \ {0}
ASSUME BoundsAssumption == MaxLinks \in Nat /\ MaxTime \in Nat /\ MaxFeedback \in Nat

VARIABLES
  revision,  (* schedule_revisions.state                                    *)
  frozen,    (* what abandoned and published revisions are frozen with      *)
  links,     (* lecturer_review_links: [Links -> Link]                      *)
  feedback,  (* lecturer_review_feedback                                    *)
  clock,
  request,   (* [Browsers -> request waiting for its claim]                 *)
  outcome    (* [Browsers -> how its last request ended]                    *)

vars == <<revision, frozen, links, feedback, clock, request, outcome>>
lifecycle == <<revision, frozen>>
lecturers == <<feedback, request, outcome>>

Lifecycle == INSTANCE RevisionStates WITH state <- revision

PUBLIC_STATES == {"draft", "ready_for_review", "published"}

Links == 1..MaxLinks
NoLink == 0
Statuses == {"absent", "active", "expired", "revoked", "replaced", "revision_ended"}
Link == [status : Statuses, revision : Revisions, lecturer : Lecturers, expires : Nat,
         replacedBy : Links \cup {NoLink}]
Request == [link : Links, now : Nat, usable : BOOLEAN, submission : Submissions,
            comment : Comments \cup {NoComment}]
Feedback == [link : Links, submission : Submissions, comment : Comments]

Issued == {l \in Links : links[l].status # "absent"}
Active == {l \in Links : links[l].status = "active"}
SamePair(k, l) ==
  links[k].revision = links[l].revision /\ links[k].lecturer = links[l].lecturer
DueAt(l, now) == l \in Active /\ now >= links[l].expires
Due(l) == DueAt(l, clock)
Reviewable(r) == revision[r] \in PUBLIC_STATES
Usable(l) == l \in Active /\ ~ Due(l) /\ Reviewable(links[l].revision)

Ended(link, status) ==
  [status |-> status, revision |-> link.revision, lecturer |-> link.lecturer,
   expires |-> link.expires, replacedBy |-> NoLink]

Replaced(link, successor) ==
  [status |-> "replaced", revision |-> link.revision, lecturer |-> link.lecturer,
   expires |-> link.expires, replacedBy |-> successor]

NewLink(r, lecturer, duration) ==
  [status |-> "active", revision |-> r, lecturer |-> lecturer,
   expires |-> clock + duration, replacedBy |-> NoLink]

(* The next id; a link is never deleted. *)
Fresh(l) == links[l].status = "absent" /\ \A k \in Links : k < l => k \in Issued

Init ==
  /\ Lifecycle!Init
  /\ links \in [Links -> [status : {"absent"}, revision : {CHOOSE r \in Revisions : TRUE},
                          lecturer : {CHOOSE x \in Lecturers : TRUE}, expires : {0},
                          replacedBy : {NoLink}]]
  /\ feedback = {}
  /\ clock = 0
  /\ request = [b \in Browsers |-> Idle]
  /\ outcome = [b \in Browsers |-> "none"]

Tick ==
  /\ clock < MaxTime
  /\ clock' = clock + 1
  /\ UNCHANGED <<lifecycle, links, lecturers>>

(* Mutants of LinksAfter: a superseded revision keeps its links; links     *)
(* that ended otherwise are written over.                                  *)
LinksAfterAbandonment(after) ==
  [l \in Links |->
     IF l \in Active /\ after[links[l].revision] = "abandoned"
     THEN Ended(links[l], "revision_ended") ELSE links[l]]

LinksAfterAnyEnd(after) ==
  [l \in Links |->
     IF l \in Issued /\ after[links[l].revision] \in {"abandoned", "superseded"}
     THEN Ended(links[l], "revision_ended") ELSE links[l]]

(* terminalize_revision_links; a link past its expiry that no request has  *)
(* materialized yet is ended by the revision.                              *)
LinksAfter(after) ==
  [l \in Links |->
     IF l \in Active /\ after[links[l].revision] \in {"abandoned", "superseded"}
     THEN Ended(links[l], "revision_ended") ELSE links[l]]

(* transition_revision and create_working_revision *)
MoveRevision(r) ==
  /\ Lifecycle!Step(r)
  /\ links' = LinksAfter(revision')
  /\ UNCHANGED <<lecturers, clock>>
-----------------------------------------------------------------------------
(* The links with the due ones of a set of links marked expired            *)
(* (_materialize_due_expiry).                                              *)
Materialized(scope, now) ==
  [l \in Links |-> IF l \in scope /\ DueAt(l, now) THEN Ended(links[l], "expired") ELSE links[l]]

OfRevision(r) == {l \in Issued : links[l].revision = r}
Pair(r, lecturer) == {l \in OfRevision(r) : links[l].lecturer = lecturer}

(* get_lecturer_review_overview, which reads the clock before its claim.   *)
(* The handlers below end with it, at the time they read.                  *)
ReadOverview(r) ==
  /\ \E now \in 0..clock :
       /\ \E l \in OfRevision(r) : DueAt(l, now)
       /\ links' = Materialized(OfRevision(r), now)
  /\ UNCHANGED <<lifecycle, lecturers, clock>>

(* The checks of an issue.  A due link is marked expired, but the mark is  *)
(* not flushed before the query for an active one, which finds it; the     *)
(* refusal rolls the mark back.                                            *)
IssueAllowed(r, lecturer) ==
  /\ revision[r] \in Lifecycle!WORKING_STATES
  /\ Pair(r, lecturer) \cap Active = {}

(* issue_lecturer_review_link *)
Issue(r, lecturer, duration) ==
  /\ IssueAllowed(r, lecturer)
  /\ \E l \in Links :
       /\ Fresh(l)
       /\ links' = [Materialized(OfRevision(r), clock) EXCEPT
                      ![l] = NewLink(r, lecturer, duration)]
  /\ UNCHANGED <<lifecycle, lecturers, clock>>

(* revoke_lecturer_review_link; refused and rolled back for a due link *)
Revoke(l) ==
  /\ l \in Active /\ ~ Due(l)
  /\ links' = [Materialized(OfRevision(links[l].revision), clock) EXCEPT
                 ![l] = Ended(links[l], "revoked")]
  /\ UNCHANGED <<lifecycle, lecturers, clock>>

(* An active or revoked link, when no other link of its pair is active.    *)
Replaceable(l) ==
  /\ (l \in Active /\ ~ Due(l)) \/ links[l].status = "revoked"
  /\ \A k \in Active : SamePair(k, l) => k = l \/ Due(k)

(* Mutant of Replace: a newer active link of the pair is replaced as well. *)
ReplaceEveryActive(l, duration) ==
  /\ (l \in Active /\ ~ Due(l)) \/ links[l].status = "revoked"
  /\ Reviewable(links[l].revision)
  /\ \E successor \in Links :
       /\ Fresh(successor)
       /\ links' = [k \in Links |->
            IF k = l \/ (k \in Active /\ SamePair(k, l)) THEN Replaced(links[k], successor)
            ELSE IF k = successor
                 THEN NewLink(links[l].revision, links[l].lecturer, duration)
            ELSE links[k]]
  /\ UNCHANGED <<lifecycle, lecturers, clock>>

(* replace_lecturer_review_link.  One revision is working and one is       *)
(* published (Lifecycle!SingleWorkingSinglePublished), so a revision in    *)
(* such a state is the current one: _revision_allows_replacement.          *)
Replace(l, duration) ==
  /\ Replaceable(l)
  /\ Reviewable(links[l].revision)
  /\ \E successor \in Links :
       /\ Fresh(successor)
       /\ links' = [Materialized(OfRevision(links[l].revision), clock) EXCEPT
                      ![l] = Replaced(links[l], successor),
                      ![successor] = NewLink(links[l].revision, links[l].lecturer, duration)]
  /\ UNCHANGED <<lifecycle, lecturers, clock>>

-----------------------------------------------------------------------------
(* A request of a lecturer arrives: the clock is read and the secret       *)
(* resolved.  A browser may send any submission again, also changed.       *)
Arrive(b, l, submission, comment) ==
  /\ request[b] = Idle
  /\ l \in Issued
  /\ request' = [request EXCEPT ![b] =
       [link |-> l, now |-> clock, usable |-> Usable(l),
        submission |-> submission, comment |-> comment]]
  /\ outcome' = [outcome EXCEPT ![b] = "none"]
  /\ UNCHANGED <<lifecycle, links, feedback, clock>>

Respond(b, result) ==
  /\ request' = [request EXCEPT ![b] = Idle]
  /\ outcome' = [outcome EXCEPT ![b] = result]

(* Mutant of Admitted: the link is not read again behind the claim. *)
AdmittedAsResolved(b) ==
  /\ request[b] # Idle
  /\ request[b].now < links[request[b].link].expires
  /\ request[b].usable

(* _link_is_usable, behind the claim, with the time of the arrival *)
Admitted(b) ==
  /\ request[b] # Idle
  /\ request[b].link \in Active
  /\ request[b].now < links[request[b].link].expires
  /\ Reviewable(links[request[b].link].revision)

(* An expiry that this request observes is materialized, unless the        *)
(* request is for the calendar, whose transaction is always rolled back.   *)
Unavailable(b) ==
  /\ request[b] # Idle
  /\ ~ Admitted(b)
  /\ \/ links' = Materialized({request[b].link}, request[b].now)
     \/ request[b].comment = NoComment /\ UNCHANGED links
  /\ Respond(b, "unavailable")
  /\ UNCHANGED <<lifecycle, feedback, clock>>

(* get_public_lecturer_review and get_lecturer_calendar_projection *)
View(b) ==
  /\ Admitted(b)
  /\ request[b].comment = NoComment
  /\ Respond(b, "accepted")
  /\ UNCHANGED <<lifecycle, links, feedback, clock>>

Stored(b) ==
  {f \in feedback : f.link = request[b].link /\ f.submission = request[b].submission}

Submitted(b) ==
  [link |-> request[b].link, submission |-> request[b].submission,
   comment |-> request[b].comment]

(* submit_lecturer_review_feedback: a new submission, *)
SubmitNew(b) ==
  /\ Admitted(b)
  /\ request[b].comment # NoComment
  /\ Stored(b) = {}
  /\ feedback' = feedback \cup {Submitted(b)}
  /\ Respond(b, "accepted")
  /\ UNCHANGED <<lifecycle, links, clock>>

(* Mutant of Replay: whatever it says, a known id is accepted. *)
ReplayAnything(b) ==
  /\ Admitted(b)
  /\ request[b].comment # NoComment
  /\ Stored(b) # {}
  /\ Respond(b, "accepted")
  /\ UNCHANGED <<lifecycle, links, feedback, clock>>

(* the repetition of one, *)
Replay(b) ==
  /\ Admitted(b)
  /\ request[b].comment # NoComment
  /\ Submitted(b) \in Stored(b)
  /\ Respond(b, "accepted")
  /\ UNCHANGED <<lifecycle, links, feedback, clock>>

(* or another text under the same id, a session that is no longer the      *)
(* lecturer's, or an access limit.                                         *)
Refused(b) ==
  /\ Admitted(b)
  /\ Respond(b, "refused")
  /\ UNCHANGED <<lifecycle, links, feedback, clock>>

Next ==
  \/ Tick
  \/ \E r \in Revisions : MoveRevision(r) \/ ReadOverview(r)
  \/ \E r \in Revisions, lecturer \in Lecturers :
       \E d \in Durations : Issue(r, lecturer, d)
  \/ \E l \in Links : Revoke(l) \/ \E d \in Durations : Replace(l, d)
  \/ \E b \in Browsers :
       \/ \E l \in Links, submission \in Submissions, comment \in Comments \cup {NoComment} :
            Arrive(b, l, submission, comment)
       \/ Unavailable(b) \/ View(b) \/ Replay(b) \/ Refused(b)
       \/ Cardinality(feedback) < MaxFeedback /\ SubmitNew(b)

Spec == Init /\ [][Next]_vars
-----------------------------------------------------------------------------
TypeOK ==
  /\ Lifecycle!TypeOK
  /\ links \in [Links -> Link]
  /\ feedback \subseteq Feedback
  /\ clock \in Nat
  /\ request \in [Browsers -> Request \cup {Idle}]
  /\ outcome \in [Browsers -> {"none", "accepted", "unavailable", "refused"}]

(* At most one link of a lecturer and a revision is active, and none of a  *)
(* revision that was abandoned or superseded: whatever order the planners' *)
(* link and lifecycle requests are processed in (uq_lecturer_review_link_  *)
(* active_pair, terminalize_revision_links; 015 data-model.md:53-62).      *)
ActiveLinksAreCurrent ==
  /\ \A k, l \in Active : SamePair(k, l) => k = l
  /\ \A l \in Active : Reviewable(links[l].revision)

(* A replaced link names the one link that took its place: a newer one of  *)
(* the same lecturer and revision that replaced no other.  So following    *)
(* replacements ends, at one link.                                         *)
ReplacementsFormChains ==
  \A l \in Links :
    links[l].status = "replaced" =>
      LET successor == links[l].replacedBy IN
      /\ successor > l
      /\ successor \in Issued /\ SamePair(l, successor)
      /\ \A k \in Links : links[k].replacedBy = successor => k = l

(* An ended link stays ended, also when its revision is restored; only a   *)
(* revoked one can still be replaced, and what replaced a link stays known.*)
EndedLinksStayEnded ==
  [][/\ ReplacementsFormChains'
     /\ \A l \in Issued \ Active :
          \/ links'[l] = links[l]
          \/ (links[l].status = "revoked" /\ links'[l].status = "replaced")]_vars

(* Content is shown, or feedback taken, only for a request whose link was  *)
(* usable when it arrived and is still active, for a revision still        *)
(* reviewable, when it is processed: a revocation, replacement, abandonment*)
(* or supersession that came in between counts.                            *)
AccessOnlyByUsableLinks ==
  [][\A b \in Browsers :
       request[b] # Idle /\ outcome'[b] = "accepted" =>
         /\ request[b].usable
         /\ request[b].link \in Active
         /\ Reviewable(links[request[b].link].revision)]_vars

(* Whatever a browser repeats or changes after a lost answer, a feedback   *)
(* reported as accepted is the only one stored under its link and id.      *)
FeedbackStoredOnce ==
  [][\A b \in Browsers :
       request[b] # Idle /\ request[b].comment # NoComment /\ outcome'[b] = "accepted" =>
         {f \in feedback' : f.link = request[b].link /\ f.submission = request[b].submission}
           = {Submitted(b)}]_vars
=============================================================================
