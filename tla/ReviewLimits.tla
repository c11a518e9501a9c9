---------------------------- MODULE ReviewLimits ----------------------------
(***************************************************************************)
(* How often a lecturer's link may be viewed and commented on, and how     *)
(* often one source may present unknown links:                             *)
(* backend/app/services/lecturer_review.py behind api/lecturer_review.py.  *)
(*                                                                         *)
(* The limits of a link count the activity events of that link, the ones   *)
(* of a source its row in lecturer_review_invalid_source_states.  Every    *)
(* request reads the clock when it arrives and is counted when it holds    *)
(* the writer lock, so requests are counted in an order that is not that   *)
(* of their times.  One link is modelled: links share nothing but sources. *)
(* Its other conditions are LecturerReview's.                              *)
(***************************************************************************)
EXTENDS Integers, FiniteSets, Sequences

CONSTANTS
  Requests,                   (* requests ever sent                         *)
  Sources,                    (* network addresses                          *)
  ViewLimit, ViewWindow,      (* 120 views in 5 minutes                     *)
  ViewBlock,                  (* block the views for 5 minutes              *)
  MinuteLimit, MinuteWindow,  (* 10 feedbacks in 1 minute                   *)
  HourLimit, HourWindow,      (* 60 feedbacks in 60 minutes                 *)
  SourceLimit, SourceWindow,  (* 20 unknown links in 5 minutes              *)
  SourceBlock,                (* block the source for 10 minutes            *)
  Retention,                  (* 14 minutes after the last attempt          *)
  MaxWait,                    (* the busy timeout of the database           *)
  MaxTime                     (* bound: the clock                           *)

ASSUME RequestsAssumption == IsFiniteSet(Requests)
ASSUME SourcesAssumption == Sources # {}
ASSUME LimitsAssumption ==
  /\ {ViewLimit, MinuteLimit, HourLimit, SourceLimit} \subseteq Nat \ {0}
  /\ {ViewWindow, ViewBlock, MinuteWindow, HourWindow, SourceWindow, SourceBlock} \subseteq Nat \ {0}
(* 14 minutes, against a window of 5 minutes and two waits of seconds: the *)
(* request seen last may have waited, and so may the next unknown link.    *)
ASSUME RetentionAssumption ==
  /\ Retention \in Nat /\ MaxWait \in Nat /\ MaxTime \in Nat
  /\ SourceWindow + 2 * MaxWait <= Retention

VARIABLES
  clock,
  request,    (* [Requests -> Request]                                      *)
  linkEnded,  (* the link is expired, revoked, replaced or its revision over*)
  viewBlock,  (* access_blocked_until of the link                           *)
  attempts,   (* attempt_timestamps of a source; <<>> without a row         *)
  blocked,    (* blocked_until of a source                                  *)
  relevant,   (* last_relevant_at of a source                               *)
  strikes     (* history: [Sources -> times of the recorded unknown links   *)
              (* since the last block, in the order of their recording]     *)

rows == <<attempts, blocked, relevant>>
vars == <<clock, request, linkEnded, viewBlock, rows, strikes>>

Kinds == {"view", "feedback", "unknown"}
Answers == {"viewed", "taken", "rejected", "limited", "unavailable", "lost"}
Request == [kind : Kinds, source : Sources, at : Nat,
            stage : {"unsent", "arrived", "admitted"} \cup Answers]
Unblocked == 0

Pending(r) == request[r].stage \in {"arrived", "admitted"}

(* Feedback that was accepted, repeated or refused by its content; all of  *)
(* it leaves an event.                                                     *)
Handled == {"taken", "rejected"}

Init ==
  /\ clock = 0
  /\ request \in [Requests -> [kind : {"view"}, source : {CHOOSE s \in Sources : TRUE},
                               at : {0}, stage : {"unsent"}]]
  /\ linkEnded = FALSE
  /\ viewBlock = Unblocked
  /\ attempts = [s \in Sources |-> <<>>]
  /\ blocked = [s \in Sources |-> Unblocked]
  /\ relevant = [s \in Sources |-> 0]
  /\ strikes = [s \in Sources |-> <<>>]

(* No statement waits longer for the writer lock than the busy timeout.    *)
Tick ==
  /\ clock < MaxTime
  /\ \A r \in Requests : Pending(r) => clock < request[r].at + MaxWait
  /\ clock' = clock + 1
  /\ UNCHANGED <<request, linkEnded, viewBlock, rows, strikes>>

Arrive(r, kind, s) ==
  /\ request[r].stage = "unsent"
  /\ request' = [request EXCEPT ![r] =
       [kind |-> kind, source |-> s, at |-> clock, stage |-> "arrived"]]
  /\ UNCHANGED <<clock, linkEnded, viewBlock, rows, strikes>>

At(r, stage) == request' = [request EXCEPT ![r].stage = stage]

(* The process is stopped, or the wait for the lock fails.                 *)
Lose(r) ==
  /\ Pending(r)
  /\ At(r, "lost")
  /\ UNCHANGED <<clock, linkEnded, viewBlock, rows, strikes>>

EndLink ==
  /\ ~ linkEnded
  /\ linkEnded' = TRUE
  /\ UNCHANGED <<clock, request, viewBlock, rows, strikes>>
-----------------------------------------------------------------------------
(* Sources                                                                 *)
BlockedAt(s, now) == now < blocked[s]

(* _invalid_source_is_blocked, the first thing every request meets.        *)
Admit(r) ==
  LET q == request[r]
  IN  /\ q.stage = "arrived"
      /\ IF BlockedAt(q.source, q.at)
         THEN At(r, "unavailable") /\ relevant' = [relevant EXCEPT ![q.source] = q.at]
         ELSE At(r, "admitted") /\ UNCHANGED relevant
      /\ UNCHANGED <<clock, linkEnded, viewBlock, attempts, blocked, strikes>>

Newest(times) ==
  SubSeq(times, IF Len(times) > SourceLimit THEN Len(times) - SourceLimit + 1 ELSE 1, Len(times))

(* Mutant of Kept: attempts are kept until the minute of the window ends.  *)
KeptLess(times, now) ==
  LET recent(t) == t + SourceWindow > now + 1 IN SelectSeq(times, recent)

(* The attempts within the window, in their order.                         *)
Kept(times, now) ==
  LET kept[i \in 0..Len(times)] ==
        IF i = 0 THEN <<>>
        ELSE IF times[i] + SourceWindow > now THEN Append(kept[i - 1], times[i])
        ELSE kept[i - 1]
  IN  kept[Len(times)]

(* Mutant of BlockFound: the block of another request is not looked for    *)
(* again.                                                                  *)
BlockNotRead(s, now) == FALSE

BlockFound(s, now) == BlockedAt(s, now)

(* _record_invalid_source: the upsert takes the writer lock before the row *)
(* is read again, so the attempt that ends the wait may find a block.      *)
Record(r) ==
  LET now == request[r].at
      s == request[r].source
      kept == Newest(Append(Kept(attempts[s], now), now))
      full == Len(kept) >= SourceLimit
  IN  /\ request[r].stage = "admitted" /\ request[r].kind = "unknown"
      /\ At(r, "unavailable")
      /\ relevant' = [relevant EXCEPT ![s] = now]
      /\ IF BlockFound(s, now) THEN UNCHANGED <<attempts, blocked, strikes>>
         ELSE /\ attempts' = [attempts EXCEPT ![s] = kept]
              /\ blocked' = IF full THEN [blocked EXCEPT ![s] = now + SourceBlock] ELSE blocked
              /\ strikes' = [strikes EXCEPT ![s] = IF full THEN <<>> ELSE Append(@, now)]
      /\ UNCHANGED <<clock, linkEnded, viewBlock>>

Forgettable == {s \in Sources : relevant[s] + Retention <= clock /\ blocked[s] <= clock}

(* cleanup_invalid_source_states, which runs twice a minute.  Without      *)
(* attempts and a block there is no row, and its time does not matter.     *)
Cleanup ==
  /\ \E s \in Forgettable : attempts[s] # <<>>
  /\ attempts' = [s \in Sources |-> IF s \in Forgettable THEN <<>> ELSE attempts[s]]
  /\ blocked' = [s \in Sources |-> IF s \in Forgettable THEN Unblocked ELSE blocked[s]]
  /\ UNCHANGED <<clock, request, linkEnded, viewBlock, relevant, strikes>>
-----------------------------------------------------------------------------
(* The link                                                                *)
Unusable(r) ==
  /\ request[r].stage = "admitted" /\ request[r].kind # "unknown"
  /\ linkEnded
  /\ At(r, "unavailable")
  /\ UNCHANGED <<clock, linkEnded, viewBlock, rows, strikes>>

(* Events since a time, the counted request's own window.                  *)
Viewed == {x \in Requests : request[x].kind = "view" /\ request[x].stage = "viewed"}
Commented == {x \in Requests : request[x].kind = "feedback" /\ request[x].stage \in Handled \cup {"limited"}}

(* Mutant of ViewsBefore: only views up to the request's own time count.   *)
ViewsUntil(now) ==
  {x \in Viewed : request[x].at + ViewWindow >= now /\ request[x].at < now}

ViewsBefore(now) == {x \in Viewed : request[x].at + ViewWindow >= now}

(* Mutant of CommentsWithin: a comment refused by its content is not counted. *)
TakenWithin(window, now) ==
  {x \in Commented : request[x].stage = "taken" /\ request[x].at + window > now}

CommentsWithin(window, now) == {x \in Commented : request[x].at + window > now}

(* get_public_lecturer_review with _known_view_limited                     *)
View(r) ==
  LET now == request[r].at
      full == Cardinality(ViewsBefore(now)) >= ViewLimit
  IN  /\ request[r].stage = "admitted" /\ request[r].kind = "view"
      /\ ~ linkEnded
      /\ IF now < viewBlock
         THEN At(r, "limited") /\ UNCHANGED viewBlock
         ELSE IF full THEN At(r, "limited") /\ viewBlock' = now + ViewBlock
                      ELSE At(r, "viewed") /\ UNCHANGED viewBlock
      /\ UNCHANGED <<clock, linkEnded, rows, strikes>>

FeedbackLimited(now) ==
  \/ Cardinality(CommentsWithin(MinuteWindow, now)) >= MinuteLimit
  \/ Cardinality(CommentsWithin(HourWindow, now)) >= HourLimit

(* submit_lecturer_review_feedback and reject_invalid_feedback_attempt     *)
Comment(r) ==
  /\ request[r].stage = "admitted" /\ request[r].kind = "feedback"
  /\ ~ linkEnded
  /\ IF FeedbackLimited(request[r].at) THEN At(r, "limited")
     ELSE \E handled \in Handled : At(r, handled)
  /\ UNCHANGED <<clock, linkEnded, viewBlock, rows, strikes>>
-----------------------------------------------------------------------------
Next ==
  \/ Tick \/ EndLink \/ Cleanup
  \/ \E r \in Requests :
       \/ \E kind \in Kinds, s \in Sources : Arrive(r, kind, s)
       \/ Lose(r) \/ Admit(r) \/ Record(r) \/ Unusable(r) \/ View(r) \/ Comment(r)

Spec == Init /\ [][Next]_vars
-----------------------------------------------------------------------------
(* The tables and the requests hold what they should.                      *)
TypeOK ==
  /\ clock \in Nat
  /\ request \in [Requests -> Request]
  /\ linkEnded \in BOOLEAN
  /\ viewBlock \in Nat
  /\ attempts \in [Sources -> Seq(Nat)]
  /\ blocked \in [Sources -> Nat]
  /\ relevant \in [Sources -> Nat]
  /\ strikes \in [Sources -> Seq(Nat)]

(* In every rolling interval at most the allowed number of views has been  *)
(* answered (015 FR-055), in whatever order requests with crossing times   *)
(* were counted.                                                           *)
ViewsWithinLimit ==
  \A from \in 0..MaxTime :
    Cardinality({x \in Viewed : request[x].at \in from..(from + ViewWindow)}) <= ViewLimit

(* In every rolling minute and hour at most the allowed number of feedback *)
(* requests got past the limit (015 FR-056); the ones refused by it count, *)
(* the ones refused before it do not.                                      *)
Passed(from, window) ==
  {x \in Commented : request[x].stage \in Handled
                       /\ request[x].at > from /\ request[x].at <= from + window}
FeedbackWithinLimits ==
  \A from \in -1..MaxTime :
    /\ Cardinality(Passed(from, MinuteWindow)) <= MinuteLimit
    /\ Cardinality(Passed(from, HourWindow)) <= HourLimit

(* No rolling window lets more of a link's requests through than its limit.*)
RequestsWithinLimits == ViewsWithinLimit /\ FeedbackWithinLimits

(* A block once imposed lasts: no later count with an earlier time, no     *)
(* attempt during it and no cleanup shortens it (015 FR-054, data-model).  *)
BlocksLast ==
  [][/\ viewBlock' >= viewBlock
     /\ \A s \in Sources : clock < blocked[s] => blocked'[s] >= blocked[s]]_vars

(* Unknown links of one source that are recorded in the order of their     *)
(* times block it with the last one the limit allows (015 FR-054), whatever*)
(* was cleaned up or recorded before them.                                 *)
InOrderWithin(times) ==
  /\ \A i \in 1..(Len(times) - 1) : times[i] <= times[i + 1]
  /\ times[Len(times)] < times[1] + SourceWindow
UnknownLinksBlock ==
  \A s \in Sources :
    LET n == Len(strikes[s])
    IN  n >= SourceLimit => ~ InOrderWithin(SubSeq(strikes[s], n - SourceLimit + 1, n))
=============================================================================
