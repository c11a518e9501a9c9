------------------------- MODULE ReviewLimitsProofs -------------------------
(***************************************************************************)
(* The limits hold for any number of requests, any limits and any waits    *)
(* for the writer lock.  The argument is the one the counting rests on: of *)
(* the requests in an interval, the one counted last saw all the others,   *)
(* because an interval that ends at or after its time begins within its    *)
(* own window.  For unknown links it is that the row of a source keeps the *)
(* attempts of every window a request to come can fall into.               *)
(***************************************************************************)
EXTENDS ReviewLimits, FiniteSetTheorems, SequenceTheorems, WellFoundedInduction, TLAPS

(* What the limits depend on.                                              *)
TypeInv ==
  /\ clock \in Nat
  /\ request \in [Requests -> Request]
  /\ viewBlock \in Nat

LEMMA Constants ==
  /\ ViewLimit \in Nat \ {0} /\ MinuteLimit \in Nat \ {0} /\ HourLimit \in Nat \ {0}
  /\ ViewWindow \in Nat \ {0} /\ ViewBlock \in Nat \ {0}
  /\ MinuteWindow \in Nat \ {0} /\ HourWindow \in Nat \ {0} /\ SourceBlock \in Nat \ {0}
BY LimitsAssumption

(* A request moves to a later stage, with its time and kind.               *)
LEMMA StageKeepsType ==
  ASSUME TypeInv, NEW r \in Requests, NEW stage \in Answers \cup {"arrived", "admitted"},
         At(r, stage)
  PROVE  request' \in [Requests -> Request]
BY DEF TypeInv, At, Request

LEMMA TypeStep == TypeInv /\ [Next]_vars => TypeInv'
<1> SUFFICES ASSUME TypeInv, [Next]_vars PROVE TypeInv' OBVIOUS
<1> USE Constants
<1>1. CASE UNCHANGED vars
  BY <1>1 DEF TypeInv, vars
<1>2. CASE Tick
  BY <1>2 DEF TypeInv, Tick
<1>3. CASE EndLink \/ Cleanup
  BY <1>3 DEF TypeInv, EndLink, Cleanup
<1>4. ASSUME NEW r \in Requests, NEW kind \in Kinds, NEW s \in Sources, Arrive(r, kind, s)
      PROVE  TypeInv'
  BY <1>4 DEF TypeInv, Arrive, Request
<1>5. ASSUME NEW r \in Requests, Lose(r) \/ Admit(r) \/ Record(r) \/ Unusable(r) PROVE TypeInv'
  <2>1. request' \in [Requests -> Request]
    BY <1>5, StageKeepsType DEF Lose, Admit, Record, Unusable, Answers
  <2> QED BY <1>5, <2>1 DEF TypeInv, Lose, Admit, Record, Unusable
<1>6. ASSUME NEW r \in Requests, View(r) PROVE TypeInv'
  <2>1. request' \in [Requests -> Request]
    BY <1>6, StageKeepsType DEF View, Answers
  <2>2. request[r].at \in Nat BY DEF TypeInv, Request
  <2> QED BY <1>6, <2>1, <2>2 DEF TypeInv, View
<1>7. ASSUME NEW r \in Requests, Comment(r) PROVE TypeInv'
  <2>1. request' \in [Requests -> Request]
    BY <1>7, StageKeepsType DEF Comment, Answers, Handled
  <2> QED BY <1>7, <2>1 DEF TypeInv, Comment
<1> QED BY <1>1, <1>2, <1>3, <1>4, <1>5, <1>6, <1>7 DEF Next

LEMMA TypeAtFirst == Init => TypeInv
BY SourcesAssumption DEF Init, TypeInv, Request, Kinds, Unblocked
-----------------------------------------------------------------------------
(* Sets of answered requests of a table of requests q.                     *)
ViewsIn(q, from) ==
  {x \in Requests : q[x].kind = "view" /\ q[x].stage = "viewed"
                      /\ q[x].at \in from..(from + ViewWindow)}
PassedIn(q, from, window) ==
  {x \in Requests : q[x].kind = "feedback" /\ q[x].stage \in Handled
                      /\ q[x].at > from /\ q[x].at <= from + window}

(* A step answers one request at most, and only View and Comment let it    *)
(* pass.                                                                   *)
LEMMA OtherSteps ==
  ASSUME TypeInv, [Next]_vars,
         ~ \E r \in Requests : View(r), ~ \E r \in Requests : Comment(r)
  PROVE  /\ \A from \in Int : ViewsIn(request', from) \subseteq ViewsIn(request, from)
         /\ \A from, window \in Int :
              PassedIn(request', from, window) \subseteq PassedIn(request, from, window)
<1>1. CASE UNCHANGED request
  BY <1>1 DEF ViewsIn, PassedIn
<1>2. ASSUME NEW r \in Requests, NEW kind \in Kinds, NEW s \in Sources, Arrive(r, kind, s)
      PROVE  \A x \in Requests : request'[x] = request[x] \/ request'[x].stage = "arrived"
  BY <1>2 DEF Arrive, TypeInv
<1>3. ASSUME NEW r \in Requests, Lose(r) \/ Admit(r) \/ Record(r) \/ Unusable(r)
      PROVE  \A x \in Requests : request'[x] = request[x]
                \/ request'[x].stage \in {"lost", "unavailable", "admitted"}
  <2>1. PICK stage \in {"lost", "unavailable", "admitted"} : At(r, stage)
    BY <1>3 DEF Lose, Admit, Record, Unusable
  <2> QED BY <2>1 DEF At, TypeInv, Request
<1>4. UNCHANGED request
        \/ \A x \in Requests : request'[x] = request[x]
             \/ request'[x].stage \in {"arrived", "lost", "unavailable", "admitted"}
  BY <1>2, <1>3 DEF Next, Tick, EndLink, Cleanup, vars
<1> QED BY <1>1, <1>4 DEF ViewsIn, PassedIn, Handled
-----------------------------------------------------------------------------
(* One request more than a set that was below its limit is within it.      *)
LEMMA OneMore ==
  ASSUME NEW S, NEW T, NEW r, NEW limit \in Nat,
         IsFiniteSet(S), T \subseteq S \cup {r}, Cardinality(S) < limit
  PROVE  Cardinality(T) <= limit
<1>0. Cardinality(S) \in Nat BY FS_CardinalityType
<1>1. IsFiniteSet(S \cup {r}) /\ Cardinality(S \cup {r}) <= Cardinality(S) + 1
  <2>1. Cardinality(S \cup {r}) = IF r \in S THEN Cardinality(S) ELSE Cardinality(S) + 1
    BY FS_AddElement
  <2> QED BY <1>0, <2>1, FS_AddElement
<1>2. Cardinality(T) <= Cardinality(S \cup {r})
  BY <1>1, FS_Subset
<1>3. Cardinality(S) \in Nat /\ Cardinality(S \cup {r}) \in Nat
  BY <1>1, FS_CardinalityType
<1>4. IsFiniteSet(T) BY <1>1, FS_Subset
<1>5. Cardinality(T) \in Nat BY <1>4, FS_CardinalityType
<1> QED BY <1>1, <1>2, <1>3, <1>5

LEMMA FiniteParts == \A S \in SUBSET Requests : IsFiniteSet(S)
BY RequestsAssumption, FS_Subset

LEMMA Smaller ==
  ASSUME NEW S \in SUBSET Requests, NEW T \in SUBSET S, NEW limit \in Nat,
         Cardinality(S) <= limit
  PROVE  Cardinality(T) <= limit
<1>1. IsFiniteSet(S) BY FiniteParts
<1>2. Cardinality(T) <= Cardinality(S) /\ IsFiniteSet(T) BY <1>1, FS_Subset
<1>3. Cardinality(T) \in Nat /\ Cardinality(S) \in Nat BY <1>1, <1>2, FS_CardinalityType
<1> QED BY <1>2, <1>3

ViewsInv == \A from \in Nat : Cardinality(ViewsIn(request, from)) <= ViewLimit

(* The view counted last saw the others of every interval it is in.        *)
LEMMA ViewStep ==
  ASSUME TypeInv, ViewsInv, NEW r \in Requests, View(r), NEW from \in Nat
  PROVE  Cardinality(ViewsIn(request', from)) <= ViewLimit
<1> USE Constants
<1> DEFINE now == request[r].at
           seen == ViewsBefore(now)
<1>0. \A x \in Requests : x # r => request'[x] = request[x]
  BY DEF View, At, TypeInv
<1>1. request'[r].stage \in {"viewed", "limited"} /\ request'[r].at = now
  BY DEF View, At, TypeInv, Request
<1>2. CASE r \notin ViewsIn(request', from)
  <2>1. ViewsIn(request', from) \subseteq ViewsIn(request, from)
    BY <1>0, <1>2 DEF ViewsIn
  <2> QED BY <2>1, Smaller DEF ViewsInv, ViewsIn
<1>3. CASE r \in ViewsIn(request', from)
  <2>1. request'[r].stage = "viewed" /\ now \in from..(from + ViewWindow)
    BY <1>1, <1>3 DEF ViewsIn
  <2>2. ~ (Cardinality(seen) >= ViewLimit)
    BY <2>1 DEF View, At, TypeInv, Request
  <2>3. IsFiniteSet(seen) BY FiniteParts DEF ViewsBefore, Viewed
  <2>4. Cardinality(seen) < ViewLimit BY <2>2, <2>3, FS_CardinalityType
  <2>5. \A x \in Requests : request[x].at \in Nat BY DEF TypeInv, Request
  <2>6. ASSUME NEW x \in ViewsIn(request', from), x # r PROVE x \in seen
    BY <1>0, <2>1, <2>5, <2>6 DEF ViewsIn, ViewsBefore, Viewed
  <2>7. ViewsIn(request', from) \subseteq seen \cup {r} BY <2>6
  <2> QED BY <2>3, <2>4, <2>7, OneMore
<1> QED BY <1>2, <1>3
-----------------------------------------------------------------------------
Limited(window, limit) ==
  \A from \in Int : Cardinality(PassedIn(request, from, window)) <= limit
CommentsInv == Limited(MinuteWindow, MinuteLimit) /\ Limited(HourWindow, HourLimit)

LEMMA CommentStep ==
  ASSUME TypeInv, NEW r \in Requests, Comment(r),
         NEW window \in Nat, NEW limit \in Nat, Limited(window, limit),
         FeedbackLimited(request[r].at)
           \/ ~ (Cardinality(CommentsWithin(window, request[r].at)) >= limit),
         NEW from \in Int
  PROVE  Cardinality(PassedIn(request', from, window)) <= limit
<1> DEFINE now == request[r].at
           seen == CommentsWithin(window, now)
<1>0. \A x \in Requests : x # r => request'[x] = request[x]
  BY DEF Comment, At, TypeInv
<1>1. request'[r].stage \in Handled \cup {"limited"} /\ request'[r].at = now
  BY DEF Comment, At, TypeInv, Request
<1>2. CASE r \notin PassedIn(request', from, window)
  <2>1. PassedIn(request', from, window) \subseteq PassedIn(request, from, window)
    BY <1>0, <1>2 DEF PassedIn
  <2> QED BY <2>1, Smaller DEF Limited, PassedIn
<1>3. CASE r \in PassedIn(request', from, window)
  <2>1. request'[r].stage \in Handled /\ now > from /\ now <= from + window
    BY <1>1, <1>3 DEF PassedIn
  <2>2. ~ FeedbackLimited(now)
    BY <2>1 DEF Comment, At, TypeInv, Request, Handled
  <2>3. IsFiniteSet(seen) BY FiniteParts DEF CommentsWithin, Commented
  <2>4. Cardinality(seen) < limit BY <2>2, <2>3, FS_CardinalityType
  <2>5. \A x \in Requests : request[x].at \in Nat BY DEF TypeInv, Request
  <2>6. ASSUME NEW x \in PassedIn(request', from, window), x # r PROVE x \in seen
    BY <1>0, <2>1, <2>5, <2>6 DEF PassedIn, CommentsWithin, Commented
  <2>7. PassedIn(request', from, window) \subseteq seen \cup {r} BY <2>6
  <2> QED BY <2>3, <2>4, <2>7, OneMore
<1> QED BY <1>2, <1>3
-----------------------------------------------------------------------------
LimitsInv == TypeInv /\ ViewsInv /\ CommentsInv

LEMMA NothingAtFirst ==
  ASSUME Init
  PROVE  ViewsInv /\ CommentsInv
<1> USE Constants
<1>1. \A from \in Int : ViewsIn(request, from) = {}
  BY DEF Init, ViewsIn
<1>2. \A from, window \in Int : PassedIn(request, from, window) = {}
  BY DEF Init, PassedIn, Handled
<1> QED BY <1>1, <1>2, FS_EmptySet DEF ViewsInv, CommentsInv, Limited

LEMMA ViewsShrink ==
  ASSUME ViewsInv, \A from \in Nat : ViewsIn(request', from) \subseteq ViewsIn(request, from)
  PROVE  ViewsInv'
<1> SUFFICES ASSUME NEW from \in Nat PROVE Cardinality(ViewsIn(request', from)) <= ViewLimit
  BY DEF ViewsInv
<1>1. ViewsIn(request, from) \in SUBSET Requests BY DEF ViewsIn
<1>2. Cardinality(ViewsIn(request, from)) <= ViewLimit BY DEF ViewsInv
<1> QED BY <1>1, <1>2, Smaller, Constants

LEMMA CommentsShrink ==
  ASSUME CommentsInv,
         \A from, window \in Int :
           PassedIn(request', from, window) \subseteq PassedIn(request, from, window)
  PROVE  CommentsInv'
<1> SUFFICES ASSUME NEW window \in Nat, NEW limit \in Nat, Limited(window, limit), NEW from \in Int
    PROVE Cardinality(PassedIn(request', from, window)) <= limit
  BY Constants DEF CommentsInv, Limited
<1>1. PassedIn(request, from, window) \in SUBSET Requests BY DEF PassedIn
<1>2. Cardinality(PassedIn(request, from, window)) <= limit BY DEF Limited
<1> QED BY <1>1, <1>2, Smaller

LEMMA LimitsStep == LimitsInv /\ [Next]_vars => LimitsInv'
<1> SUFFICES ASSUME LimitsInv, [Next]_vars PROVE LimitsInv' OBVIOUS
<1> USE Constants DEF LimitsInv
<1>0. TypeInv' BY TypeStep
<1>1. CASE \E r \in Requests : View(r)
  <2>1. PICK r \in Requests : View(r) BY <1>1
  <2>2. ViewsInv' BY <2>1, ViewStep DEF ViewsInv
  <2>3. \A from, window \in Int :
          PassedIn(request', from, window) \subseteq PassedIn(request, from, window)
    <3>1. \A x \in Requests :
            request'[x] = request[x] \/ request'[x].stage \in {"viewed", "limited"}
      BY <2>1 DEF View, At, TypeInv, Request
    <3> QED BY <3>1 DEF PassedIn, Handled
  <2>4. CommentsInv' BY <2>3, CommentsShrink
  <2> QED BY <1>0, <2>2, <2>4
<1>2. CASE \E r \in Requests : Comment(r)
  <2>1. PICK r \in Requests : Comment(r) BY <1>2
  <2>2. \A from \in Nat : ViewsIn(request', from) \subseteq ViewsIn(request, from)
    <3>1. \A x \in Requests :
            request'[x] = request[x] \/ request'[x].stage \in Handled \cup {"limited"}
      BY <2>1 DEF Comment, At, TypeInv, Request
    <3> QED BY <3>1 DEF ViewsIn, Handled
  <2>3. ViewsInv' BY <2>2, ViewsShrink
  <2>4. Limited(MinuteWindow, MinuteLimit)'
    BY <2>1, CommentStep DEF CommentsInv, Limited, FeedbackLimited
  <2>5. Limited(HourWindow, HourLimit)'
    BY <2>1, CommentStep DEF CommentsInv, Limited, FeedbackLimited
  <2> QED BY <1>0, <2>3, <2>4, <2>5 DEF CommentsInv
<1>3. CASE ~ (\E r \in Requests : View(r)) /\ ~ (\E r \in Requests : Comment(r))
  <2>1. ViewsInv' BY <1>3, OtherSteps, ViewsShrink
  <2>2. CommentsInv' BY <1>3, OtherSteps, CommentsShrink
  <2> QED BY <1>0, <2>1, <2>2
<1> QED BY <1>1, <1>2, <1>3

LEMMA LimitsAlways == Spec => []LimitsInv
<1>1. Init => LimitsInv
  BY NothingAtFirst, TypeAtFirst DEF LimitsInv
<1> QED BY <1>1, LimitsStep, PTL DEF Spec

(* No interval of the length of the view window holds more views than the  *)
(* limit, whatever the order in which crossing requests were counted.      *)
THEOREM ViewsWithinLimitAlways == Spec => []ViewsWithinLimit
<1>1. LimitsInv => ViewsWithinLimit
  <2> SUFFICES ASSUME LimitsInv, NEW from \in 0..MaxTime
      PROVE Cardinality({x \in Viewed : request[x].at \in from..(from + ViewWindow)}) <= ViewLimit
    BY DEF ViewsWithinLimit
  <2>1. {x \in Viewed : request[x].at \in from..(from + ViewWindow)} = ViewsIn(request, from)
    BY DEF Viewed, ViewsIn
  <2>2. from \in Nat BY RetentionAssumption
  <2> QED BY <2>1, <2>2 DEF LimitsInv, ViewsInv
<1> QED BY <1>1, LimitsAlways, PTL

(* No minute and no hour holds more feedback requests than their limits.   *)
THEOREM FeedbackWithinLimitsAlways == Spec => []FeedbackWithinLimits
<1>1. LimitsInv => FeedbackWithinLimits
  <2>1. \A from, window : Passed(from, window) = PassedIn(request, from, window)
    BY DEF Passed, PassedIn, Commented, Handled
  <2> QED BY <2>1, RetentionAssumption DEF LimitsInv, CommentsInv, Limited, FeedbackWithinLimits
<1> QED BY <1>1, LimitsAlways, PTL

(* Neither views nor feedback exceed a limit in any rolling window, for    *)
(* any number of requests.                                                 *)
THEOREM RequestsWithinLimitsAlways == Spec => []RequestsWithinLimits
BY ViewsWithinLimitAlways, FeedbackWithinLimitsAlways, PTL DEF RequestsWithinLimits
-----------------------------------------------------------------------------
(* A new block of a source begins when the last one is over by the time of *)
(* the request that imposes it, and only blocks that are over are deleted. *)
BlocksInv == blocked \in [Sources -> Nat]

SourcesLast == \A s \in Sources : clock < blocked[s] => blocked'[s] >= blocked[s]

LEMMA SourcesStep ==
  ASSUME TypeInv, BlocksInv, [Next]_vars
  PROVE  BlocksInv' /\ SourcesLast
<1> USE Constants
<1>1. CASE UNCHANGED blocked
  BY <1>1 DEF BlocksInv, SourcesLast
<1>2. CASE Cleanup
  BY <1>2 DEF Cleanup, Forgettable, BlocksInv, SourcesLast, TypeInv, Unblocked
<1>3. ASSUME NEW r \in Requests, Record(r) PROVE BlocksInv' /\ SourcesLast
  <2>1. request[r].at \in Nat /\ request[r].source \in Sources
    BY DEF TypeInv, Request
  <2>2. UNCHANGED blocked
          \/ /\ ~ (request[r].at < blocked[request[r].source])
             /\ blocked' = [blocked EXCEPT ![request[r].source] = request[r].at + SourceBlock]
    BY <1>3 DEF Record, BlockFound, BlockedAt
  <2> QED BY <2>1, <2>2 DEF BlocksInv, SourcesLast
<1> QED BY <1>1, <1>2, <1>3
     DEF Next, Tick, EndLink, Arrive, Lose, Admit, Unusable, View, Comment, vars, rows

LEMMA ViewBlockLasts ==
  ASSUME TypeInv, [Next]_vars
  PROVE  viewBlock' >= viewBlock
<1> USE Constants
<1>1. CASE UNCHANGED viewBlock
  BY <1>1 DEF TypeInv
<1>2. ASSUME NEW r \in Requests, View(r) PROVE viewBlock' >= viewBlock
  <2>1. request[r].at \in Nat BY DEF TypeInv, Request
  <2> QED BY <1>2, <2>1 DEF View, TypeInv
<1> QED BY <1>1, <1>2
     DEF Next, Tick, EndLink, Cleanup, Arrive, Lose, Admit, Record, Unusable, Comment, vars

(* No block of a link or a source ends before the time it was set to.      *)
THEOREM BlocksLastAlways == Spec => BlocksLast
<1>1. Init => TypeInv /\ BlocksInv
  BY TypeAtFirst DEF Init, BlocksInv, Unblocked
<1>2. TypeInv /\ BlocksInv /\ [Next]_vars => (TypeInv /\ BlocksInv)'
  BY TypeStep, SourcesStep
<1>3. TypeInv /\ BlocksInv /\ [Next]_vars =>
        [/\ viewBlock' >= viewBlock
         /\ \A s \in Sources : clock < blocked[s] => blocked'[s] >= blocked[s]]_vars
  BY SourcesStep, ViewBlockLasts DEF SourcesLast
<1> QED BY <1>1, <1>2, <1>3, PTL DEF Spec, BlocksLast
-----------------------------------------------------------------------------
(***************************************************************************)
(* Unknown links.  The attempts stored for a source end in every run of    *)
(* recorded strikes that one window can hold, unless a cleanup forgot them *)
(* when no request of that window could come any more.                     *)
(***************************************************************************)
LEMMA UpTo ==
  ASSUME NEW S \in SUBSET Nat, 0 \in S, NEW n \in Nat,
         \A m \in Nat : m < n /\ m \in S => m + 1 \in S
  PROVE  \A m \in 0..n : m \in S
<1> SUFFICES ASSUME NEW b \in 0..n, b \notin S PROVE FALSE
  OBVIOUS
<1> DEFINE Missing == {m \in Nat : m <= n /\ m \notin S}
<1>1. PICK m \in Missing : \A k \in Missing : ~ (<<k, m>> \in OpToRel(<, Nat))
  <2>1. Missing \subseteq Nat /\ b \in Missing OBVIOUS
  <2> HIDE DEF Missing
  <2> QED BY <2>1, NatLessThanWellFounded, WFMin
<1>2. \A k \in Missing : ~ (k < m)
  BY <1>1 DEF OpToRel
<1>3. m # 0 /\ m \in 0..n
  OBVIOUS
<1>4. m - 1 \in S
  BY <1>2, <1>3
<1>5. m - 1 \in Nat /\ m - 1 < n /\ (m - 1) + 1 = m
  BY <1>3
<1> QED BY <1>4, <1>5

(* The loop over the stored attempts.                                      *)
Loop(times, now, f, i) ==
  IF i = 0 THEN <<>>
  ELSE IF times[i] + SourceWindow > now THEN Append(f[i - 1], times[i])
  ELSE f[i - 1]

LEMMA LoopEnds ==
  ASSUME NEW times \in Seq(Nat), NEW now \in Nat
  PROVE  \E f \in [0..Len(times) -> Seq(Nat)] :
           f = [i \in 0..Len(times) |-> Loop(times, now, f, i)]
<1> DEFINE Done(m, f) == \A i \in 0..m : f[i] = Loop(times, now, f, i)
           S == {m \in Nat : \E f \in [0..m -> Seq(Nat)] : Done(m, f)}
<1>1. 0 \in S
  <2> DEFINE f == [i \in 0..0 |-> <<>>]
  <2>1. f \in [0..0 -> Seq(Nat)] OBVIOUS
  <2>2. Done(0, f) BY DEF Loop
  <2> QED BY <2>1, <2>2
<1>2. ASSUME NEW m \in Nat, m < Len(times), m \in S PROVE m + 1 \in S
  <2>1. PICK f \in [0..m -> Seq(Nat)] : Done(m, f) BY <1>2
  <2> DEFINE last == Loop(times, now, f, m + 1)
             g == [i \in 0..(m + 1) |-> IF i = m + 1 THEN last ELSE f[i]]
  <2>2. times[m + 1] \in Nat BY <1>2
  <2>3. last \in Seq(Nat)
    <3>1. (m + 1) - 1 = m /\ m + 1 # 0 /\ f[m] \in Seq(Nat) BY <1>2
    <3> QED BY <2>2, <3>1, AppendProperties DEF Loop
  <2> HIDE DEF last
  <2>4. g \in [0..(m + 1) -> Seq(Nat)] BY <2>3
  <2>5. \A i \in 0..m : g[i] = f[i] BY <1>2
  <2>6. g[m + 1] = last BY <1>2
  <2> HIDE DEF g
  <2>7. ASSUME NEW i \in 0..(m + 1) PROVE g[i] = Loop(times, now, g, i)
    <3>1. CASE i = m + 1
      <4>1. (m + 1) - 1 = m /\ g[m] = f[m] BY <1>2, <2>5
      <4> QED BY <2>6, <3>1, <4>1 DEF last, Loop
    <3>2. CASE i \in 0..m
      <4>1. g[i] = Loop(times, now, f, i) BY <2>1, <2>5, <3>2
      <4>2. CASE i = 0 BY <4>1, <4>2 DEF Loop
      <4>3. CASE i # 0
        <5>1. i - 1 \in 0..m BY <1>2, <3>2, <4>3
        <5> QED BY <2>5, <4>1, <4>3, <5>1 DEF Loop
      <4> QED BY <4>2, <4>3
    <3> QED BY <1>2, <3>1, <3>2
  <2>8. Done(m + 1, g) BY <2>7
  <2>9. m + 1 \in Nat OBVIOUS
  <2> HIDE DEF Done
  <2> QED BY <2>4, <2>8, <2>9
<1>3. Len(times) \in Nat /\ S \in SUBSET Nat
  OBVIOUS
<1>4. Len(times) \in S
  <2> HIDE DEF S
  <2>1. \A m \in Nat : m < Len(times) /\ m \in S => m + 1 \in S BY <1>2
  <2>2. \A m \in 0..Len(times) : m \in S BY <1>1, <1>3, <2>1, UpTo
  <2> QED BY <1>3, <2>2
<1>5. PICK f \in [0..Len(times) -> Seq(Nat)] : Done(Len(times), f)
  BY <1>4
<1>6. f = [i \in 0..Len(times) |-> Loop(times, now, f, i)]
  BY <1>5
<1> QED BY <1>6

(* The last k entries of a and b are the same.                             *)
SameEnd(a, b, k) ==
  /\ k <= Len(a) /\ k <= Len(b)
  /\ \A j \in 0..(k - 1) : a[Len(a) - j] = b[Len(b) - j]

(* Attempts at the end that are all within the window are kept.            *)
LEMMA KeptEnd ==
  ASSUME NEW times \in Seq(Nat), NEW now \in Nat
  PROVE  /\ Kept(times, now) \in Seq(Nat)
         /\ \A k \in 0..Len(times) :
              (\A j \in 0..(k - 1) : times[Len(times) - j] + SourceWindow > now)
                => SameEnd(Kept(times, now), times, k)
<1> DEFINE n == Len(times)
           F == CHOOSE f : f = [i \in 0..n |-> Loop(times, now, f, i)]
<1>1. n \in Nat /\ \A i \in 1..n : times[i] \in Nat
  OBVIOUS
<1>2. Kept(times, now) = F[n]
  BY DEF Kept, Loop
<1>3. F = [i \in 0..n |-> Loop(times, now, F, i)]
  BY LoopEnds
<1> HIDE DEF F, n
<1>4. F[0] = <<>> /\ \A i \in 1..n :
        F[i] = IF times[i] + SourceWindow > now THEN Append(F[i - 1], times[i]) ELSE F[i - 1]
  <2>1. F[0] = <<>>
    <3>1. 0 \in 0..n BY <1>1
    <3>2. F[0] = Loop(times, now, F, 0) BY <1>3, <3>1, Zenon
    <3> QED BY <3>2 DEF Loop
  <2>2. ASSUME NEW i \in 1..n
        PROVE  F[i] = IF times[i] + SourceWindow > now THEN Append(F[i - 1], times[i]) ELSE F[i - 1]
    <3>1. i \in 0..n /\ i # 0 BY <1>1
    <3>2. F[i] = Loop(times, now, F, i) BY <1>3, <3>1, Zenon
    <3> QED BY <3>1, <3>2 DEF Loop
  <2> QED BY <2>1, <2>2
<1>5. \A i \in 0..n : F[i] \in Seq(Nat)
  <2> DEFINE S == {m \in Nat : m <= n => F[m] \in Seq(Nat)}
  <2>1. 0 \in S
    <3>1. <<>> \in Seq(Nat) OBVIOUS
    <3>2. F[0] \in Seq(Nat) BY <1>4, <3>1
    <3> QED BY <3>2
  <2>2. ASSUME NEW m \in Nat, m < n, m \in S PROVE m + 1 \in S
    <3>0. m <= n => F[m] \in Seq(Nat) BY <2>2
    <3>1. F[m] \in Seq(Nat) /\ m + 1 \in 1..n /\ (m + 1) - 1 = m BY <1>1, <2>2, <3>0
    <3>2. times[m + 1] \in Nat BY <1>1, <3>1
    <3>3. Append(F[m], times[m + 1]) \in Seq(Nat) BY <3>1, <3>2, AppendProperties
    <3>4. F[m + 1] \in Seq(Nat) BY <1>4, <3>1, <3>3
    <3> QED BY <3>4
  <2>3. S \in SUBSET Nat OBVIOUS
  <2>4. \A m \in 0..n : m \in S
    <3> HIDE DEF S
    <3>1. \A m \in Nat : m < n /\ m \in S => m + 1 \in S BY <2>2
    <3> QED BY <1>1, <2>1, <2>3, <3>1, UpTo
  <2>5. \A m \in 0..n : m \in Nat /\ m <= n BY <1>1
  <2> QED BY <2>4, <2>5
<1>6. ASSUME NEW k \in 0..n, \A j \in 0..(k - 1) : times[n - j] + SourceWindow > now
      PROVE  SameEnd(F[n], times, k)
  <2> DEFINE a == n - k
             S == {m \in Nat : m <= k =>
                     /\ m <= Len(F[a + m])
                     /\ \A j \in 0..(m - 1) : F[a + m][Len(F[a + m]) - j] = times[a + m - j]}
  <2>0. a \in Nat /\ a + k = n BY <1>1
  <2> HIDE DEF a
  <2>1. 0 \in S
    <3>1. F[a + 0] \in Seq(Nat) BY <1>1, <1>5, <2>0
    <3> QED BY <2>0, <3>1, LenProperties
  <2>2. ASSUME NEW m \in Nat, m < k, m \in S PROVE m + 1 \in S
    <3> DEFINE i == a + (m + 1)
               old == F[a + m]
               t == times[i]
    <3>1. i \in 1..n /\ i - 1 = a + m /\ i = n - ((k - m) - 1) /\ (k - m) - 1 \in 0..(k - 1)
      BY <1>1, <2>0, <2>2
    <3>2. t + SourceWindow > now BY <1>6, <3>1
    <3>3. F[i] = Append(old, t) BY <1>4, <3>1, <3>2
    <3>4. old \in Seq(Nat) /\ t \in Nat /\ Len(old) \in Nat BY <1>1, <1>5, <2>0, <2>2, <3>1
    <3>5. m <= Len(old) /\ \A j \in 0..(m - 1) : old[Len(old) - j] = times[a + m - j] BY <2>2
    <3> HIDE DEF i, old, t
    <3>6. /\ Len(F[i]) = Len(old) + 1 /\ F[i][Len(old) + 1] = t
          /\ \A x \in 1..Len(old) : F[i][x] = old[x]
      BY <3>3, <3>4, AppendProperties
    <3>7. m + 1 <= Len(F[i]) BY <3>4, <3>5, <3>6
    <3>8. ASSUME NEW j \in 0..m PROVE F[i][Len(F[i]) - j] = times[i - j]
      <4>1. CASE j = 0 BY <3>1, <3>4, <3>6, <4>1 DEF t
      <4>2. CASE j # 0
        <5>1. j - 1 \in 0..(m - 1) /\ Len(F[i]) - j = Len(old) - (j - 1)
              /\ Len(old) - (j - 1) \in 1..Len(old) /\ i - j = a + m - (j - 1)
          BY <2>0, <2>2, <3>1, <3>4, <3>5, <3>6, <4>2
        <5> QED BY <3>5, <3>6, <5>1
      <4> QED BY <4>1, <4>2
    <3>9. i = a + (m + 1) /\ (m + 1) - 1 = m BY DEF i
    <3>10. \A j \in 0..((m + 1) - 1) :
             F[a + (m + 1)][Len(F[a + (m + 1)]) - j] = times[a + (m + 1) - j]
      <4> SUFFICES ASSUME NEW j \in 0..((m + 1) - 1)
                   PROVE F[a + (m + 1)][Len(F[a + (m + 1)]) - j] = times[a + (m + 1) - j]
        OBVIOUS
      <4>1. j \in 0..m BY <3>9
      <4>2. F[i][Len(F[i]) - j] = times[i - j] BY <3>8, <4>1, Zenon
      <4>3. i - j = a + (m + 1) - j BY <2>0, <3>9
      <4> QED BY <3>9, <4>2, <4>3, Zenon
    <3>11. m + 1 \in Nat OBVIOUS
    <3> QED BY <3>7, <3>9, <3>10, <3>11
  <2>3. S \in SUBSET Nat OBVIOUS
  <2>4. k \in S
    <3>1. k \in Nat BY <1>1
    <3> HIDE DEF S
    <3>2. \A m \in Nat : m < k /\ m \in S => m + 1 \in S BY <2>2
    <3>3. \A m \in 0..k : m \in S BY <2>1, <2>3, <3>1, <3>2, UpTo
    <3> QED BY <3>1, <3>3
  <2>5. /\ k <= Len(F[a + k])
        /\ \A j \in 0..(k - 1) : F[a + k][Len(F[a + k]) - j] = times[a + k - j]
    BY <1>1, <2>4
  <2>6. /\ k <= Len(F[n])
        /\ \A j \in 0..(k - 1) : F[n][Len(F[n]) - j] = times[n - j]
    BY <2>0, <2>5
  <2>7. k <= n BY <1>1
  <2> QED BY <2>6, <2>7 DEF SameEnd, n
<1> QED BY <1>1, <1>2, <1>5, <1>6 DEF n

-----------------------------------------------------------------------------
(* The last k strikes all lie in the window that begins with the first of  *)
(* them.                                                                   *)
First(st, k) == st[Len(st) - (k - 1)]
OneWindow(st, k) ==
  \A j \in 0..(k - 1) :
    First(st, k) <= st[Len(st) - j] /\ st[Len(st) - j] < First(st, k) + SourceWindow

(* The stored attempts end in the strikes of one window, which are fewer   *)
(* than the limit, unless no request can fall into that window any more.   *)
Counted(st, stored, now) ==
  \A k \in 1..Len(st) : OneWindow(st, k) =>
    /\ k < SourceLimit
    /\ SameEnd(stored, st, k) \/ First(st, k) + SourceWindow + MaxWait <= now

(* What was seen of a source last is not older than its last strike, but   *)
(* for the wait of the request that was seen.                              *)
SeenSince(st, seen, now) ==
  st # <<>> => st[Len(st)] <= now /\ st[Len(st)] <= seen + MaxWait

StrikesInv ==
  /\ strikes \in [Sources -> Seq(Nat)]
  /\ attempts \in [Sources -> Seq(Nat)]
  /\ relevant \in [Sources -> Nat]
  /\ \A s \in Sources : Counted(strikes[s], attempts[s], clock)
  /\ \A s \in Sources : SeenSince(strikes[s], relevant[s], clock)

(* No request waits longer than the busy timeout.                          *)
WaitsInv ==
  \A r \in Requests : Pending(r) => request[r].at <= clock /\ clock <= request[r].at + MaxWait

LEMMA Waits ==
  /\ SourceLimit \in Nat \ {0} /\ SourceWindow \in Nat \ {0}
  /\ Retention \in Nat /\ MaxWait \in Nat /\ SourceWindow + 2 * MaxWait <= Retention
BY LimitsAssumption, RetentionAssumption

LEMMA FirstType ==
  ASSUME NEW st \in Seq(Nat), NEW k \in 1..Len(st)
  PROVE  /\ First(st, k) \in Nat /\ k \in Nat /\ Len(st) \in Nat
         /\ \A j \in 0..(k - 1) : st[Len(st) - j] \in Nat
<1>1. Len(st) \in Nat /\ \A i \in 1..Len(st) : st[i] \in Nat
  OBVIOUS
<1>2. Len(st) - (k - 1) \in 1..Len(st) /\ \A j \in 0..(k - 1) : Len(st) - j \in 1..Len(st)
  BY <1>1
<1> QED BY <1>1, <1>2 DEF First

LEMMA CountedLater ==
  ASSUME NEW st \in Seq(Nat), NEW stored, NEW now \in Nat, NEW later \in Nat,
         Counted(st, stored, now), now <= later
  PROVE  Counted(st, stored, later)
<1> SUFFICES ASSUME NEW k \in 1..Len(st), OneWindow(st, k)
    PROVE  k < SourceLimit
           /\ (SameEnd(stored, st, k) \/ First(st, k) + SourceWindow + MaxWait <= later)
  BY DEF Counted
<1>1. First(st, k) \in Nat BY FirstType
<1>2. k < SourceLimit
      /\ (SameEnd(stored, st, k) \/ First(st, k) + SourceWindow + MaxWait <= now)
  BY DEF Counted
<1> QED BY <1>1, <1>2, Waits

(* The retention outlasts the window of the last strike and two waits.     *)
LEMMA CountedForgotten ==
  ASSUME NEW st \in Seq(Nat), NEW stored, NEW now \in Nat, NEW seen \in Nat,
         Counted(st, stored, now), SeenSince(st, seen, now), seen + Retention <= now
  PROVE  Counted(st, <<>>, now)
<1> SUFFICES ASSUME NEW k \in 1..Len(st), OneWindow(st, k)
    PROVE  k < SourceLimit
           /\ (SameEnd(<<>>, st, k) \/ First(st, k) + SourceWindow + MaxWait <= now)
  BY DEF Counted
<1>1. k < SourceLimit BY DEF Counted
<1>2. First(st, k) \in Nat /\ st[Len(st) - 0] \in Nat /\ 0 \in 0..(k - 1) /\ Len(st) - 0 = Len(st)
  <2>1. 0 \in 0..(k - 1) OBVIOUS
  <2>2. Len(st) - 0 = Len(st) OBVIOUS
  <2> QED BY <2>1, <2>2, FirstType
<1>3. First(st, k) <= st[Len(st)]
  BY <1>2 DEF OneWindow
<1>4. st[Len(st)] <= seen + MaxWait
  <2>1. st # <<>> OBVIOUS
  <2> QED BY <2>1 DEF SeenSince
<1>5. st[Len(st)] \in Nat BY <1>2
<1>6. First(st, k) + SourceWindow + MaxWait <= now
  BY <1>2, <1>3, <1>4, <1>5, Waits
<1> QED BY <1>1, <1>6

LEMMA NewestKept ==
  ASSUME NEW stored \in Seq(Nat), NEW at \in Nat
  PROVE  Newest(Append(Kept(stored, at), at)) \in Seq(Nat)
<1> DEFINE q == Append(Kept(stored, at), at)
<1>1. q \in Seq(Nat)
  <2>1. Kept(stored, at) \in Seq(Nat) BY KeptEnd
  <2> QED BY <2>1, AppendProperties
<1> HIDE DEF q
<1>2. Len(q) \in Nat /\ \A i \in 1..Len(q) : q[i] \in Nat BY <1>1
<1>3. \A from \in Nat \ {0} : SubSeq(q, from, Len(q)) \in Seq(Nat)
  BY <1>1, <1>2
<1>4. Len(q) > SourceLimit => Len(q) - SourceLimit + 1 \in Nat \ {0} BY <1>2, Waits
<1>5. Newest(q) \in Seq(Nat) BY <1>3, <1>4 DEF Newest
<1> QED BY <1>5 DEF q

(* A strike more: the attempts of its window were all kept.                *)
LEMMA CountedMore ==
  ASSUME NEW st \in Seq(Nat), NEW stored \in Seq(Nat), NEW now \in Nat, NEW at \in Nat,
         Counted(st, stored, now), at <= now, now <= at + MaxWait,
         ~ (Len(Newest(Append(Kept(stored, at), at))) >= SourceLimit)
  PROVE  /\ Append(st, at) \in Seq(Nat)
         /\ Newest(Append(Kept(stored, at), at)) \in Seq(Nat)
         /\ Counted(Append(st, at), Newest(Append(Kept(stored, at), at)), now)
<1> DEFINE kept == Kept(stored, at)
           q == Append(kept, at)
           more == Append(st, at)
<1>1. kept \in Seq(Nat) BY KeptEnd
<1> HIDE DEF kept
<1>2. /\ q \in Seq(Nat) /\ Len(q) = Len(kept) + 1 /\ q[Len(kept) + 1] = at
      /\ \A i \in 1..Len(kept) : q[i] = kept[i]
  BY <1>1, AppendProperties
<1>3. /\ more \in Seq(Nat) /\ Len(more) = Len(st) + 1 /\ more[Len(st) + 1] = at
      /\ \A i \in 1..Len(st) : more[i] = st[i]
  BY AppendProperties
<1>4. Len(kept) \in Nat /\ Len(st) \in Nat BY <1>1
<1> HIDE DEF q, more
<1>5. Newest(q) = q /\ Len(q) < SourceLimit
  <2>0. ~ (Len(Newest(q)) >= SourceLimit) BY DEF q, kept
  <2>1. CASE Len(q) > SourceLimit
    <3>1. Len(q) - SourceLimit + 1 \in 1..(Len(q) + 1) BY <1>2, <1>4, <2>1, Waits
    <3>2. Len(SubSeq(q, Len(q) - SourceLimit + 1, Len(q))) = SourceLimit
      BY <1>2, <1>4, <2>1, <3>1, Waits, SubSeqProperties
    <3> QED BY <2>0, <2>1, <3>2, Waits DEF Newest
  <2>2. CASE ~ (Len(q) > SourceLimit)
    <3>1. Newest(q) = SubSeq(q, 1, Len(q)) BY <2>2 DEF Newest
    <3>2. SubSeq(q, 1, Len(q)) = q BY <1>2
    <3> QED BY <1>2, <1>4, <2>0, <2>2, <3>1, <3>2, Waits
  <2> QED BY <2>1, <2>2
<1>6. ASSUME NEW k \in 1..Len(more), OneWindow(more, k)
      PROVE  k < SourceLimit /\ SameEnd(q, more, k)
  <2>0. k \in Nat /\ k >= 1 BY <1>3, <1>4
  <2>1. q[Len(q) - 0] = more[Len(more) - 0] BY <1>2, <1>3, <1>4
  <2>2. CASE k = 1
    <3>1. \A j \in 0..(1 - 1) : j = 0 OBVIOUS
    <3>2. 1 <= Len(q) /\ 1 <= Len(more) BY <1>2, <1>3, <1>4
    <3>3. SameEnd(q, more, 1) BY <2>1, <3>1, <3>2 DEF SameEnd
    <3> QED BY <1>2, <1>4, <1>5, <2>2, <3>2, <3>3, Waits
  <2>3. CASE k # 1
    <3> DEFINE m == k - 1
    <3>1. m \in 1..Len(st) /\ m \in Nat /\ k = m + 1 BY <1>3, <1>4, <2>0, <2>3
    <3> HIDE DEF m
    <3>2. \A j \in 0..(m - 1) :
            /\ j + 1 \in 0..(k - 1) /\ Len(more) - (j + 1) = Len(st) - j
            /\ Len(st) - j \in 1..Len(st)
      BY <1>3, <1>4, <3>1
    <3>3. First(more, k) = First(st, m)
      <4>1. Len(more) - (k - 1) = Len(st) - (m - 1) /\ Len(st) - (m - 1) \in 1..Len(st)
        BY <1>3, <1>4, <3>1
      <4> QED BY <1>3, <4>1 DEF First
    <3>4. OneWindow(st, m)
      <4> SUFFICES ASSUME NEW j \in 0..(m - 1)
                   PROVE  First(st, m) <= st[Len(st) - j]
                          /\ st[Len(st) - j] < First(st, m) + SourceWindow
        BY DEF OneWindow
      <4>1. more[Len(more) - (j + 1)] = st[Len(st) - j] BY <1>3, <3>2
      <4>2. First(more, k) <= more[Len(more) - (j + 1)]
            /\ more[Len(more) - (j + 1)] < First(more, k) + SourceWindow
        BY <1>6, <3>2 DEF OneWindow
      <4> QED BY <3>3, <4>1, <4>2
    <3>5. at < First(st, m) + SourceWindow
      <4>1. 0 \in 0..(k - 1) /\ Len(more) - 0 = Len(st) + 1 BY <1>3, <1>4, <2>0
      <4>2. more[Len(more) - 0] < First(more, k) + SourceWindow BY <1>6, <4>1 DEF OneWindow
      <4> QED BY <1>3, <3>3, <4>1, <4>2
    <3>6. First(st, m) \in Nat /\ \A j \in 0..(m - 1) : st[Len(st) - j] \in Nat
      BY <3>1, FirstType
    <3>7. SameEnd(stored, st, m)
      <4>1. SameEnd(stored, st, m) \/ First(st, m) + SourceWindow + MaxWait <= now
        BY <3>1, <3>4 DEF Counted
      <4> QED BY <3>5, <3>6, <4>1, Waits
    <3>8. m \in 0..Len(stored)
      <4>1. m <= Len(stored) BY <3>7 DEF SameEnd
      <4>2. Len(stored) \in Nat OBVIOUS
      <4> QED BY <3>1, <4>1, <4>2
    <3>9. \A j \in 0..(m - 1) : stored[Len(stored) - j] + SourceWindow > at
      <4> SUFFICES ASSUME NEW j \in 0..(m - 1)
                   PROVE  stored[Len(stored) - j] + SourceWindow > at
        OBVIOUS
      <4>1. stored[Len(stored) - j] = st[Len(st) - j] BY <3>7 DEF SameEnd
      <4>2. First(st, m) <= st[Len(st) - j] BY <3>4 DEF OneWindow
      <4> DEFINE first == First(st, m)
                 v == st[Len(st) - j]
      <4>3. first \in Nat /\ v \in Nat /\ first <= v /\ at < first + SourceWindow
        BY <3>5, <3>6, <4>2
      <4> HIDE DEF first, v
      <4>4. v + SourceWindow > at BY <4>3, Waits
      <4> QED BY <4>1, <4>4, Zenon DEF v
    <3>10. SameEnd(kept, stored, m)
      BY <3>8, <3>9, KeptEnd DEF kept
    <3>11. m <= Len(kept) /\ \A j \in 0..(m - 1) : kept[Len(kept) - j] = st[Len(st) - j]
      BY <3>7, <3>10 DEF SameEnd
    <3>12. ASSUME NEW j \in 0..(k - 1) PROVE q[Len(q) - j] = more[Len(more) - j]
      <4>1. CASE j = 0 BY <2>1, <4>1
      <4>2. CASE j # 0
        <5>1. m \in Nat /\ m <= Len(st) /\ m <= Len(kept) /\ k = m + 1
          BY <1>4, <3>1, <3>11
        <5>2. j - 1 \in 0..(m - 1) BY <4>2, <5>1
        <5>3. Len(kept) - (j - 1) \in 1..Len(kept) /\ Len(st) - (j - 1) \in 1..Len(st)
          BY <1>4, <5>1, <5>2
        <5>4. Len(q) - j = Len(kept) - (j - 1) /\ Len(more) - j = Len(st) - (j - 1)
          BY <1>2, <1>3, <1>4, <5>1
        <5>5. kept[Len(kept) - (j - 1)] = st[Len(st) - (j - 1)] BY <3>11, <5>2
        <5> QED BY <1>2, <1>3, <5>3, <5>4, <5>5
      <4> QED BY <4>1, <4>2
    <3>13. k <= Len(q) /\ k <= Len(more) BY <1>2, <1>3, <1>4, <3>1, <3>11
    <3>14. SameEnd(q, more, k) BY <3>12, <3>13 DEF SameEnd
    <3>15. k < SourceLimit BY <1>2, <1>4, <1>5, <2>0, <3>13, Waits
    <3> QED BY <3>14, <3>15
  <2> QED BY <2>2, <2>3
<1>7. Counted(more, q, now) BY <1>6 DEF Counted
<1> QED BY <1>2, <1>3, <1>5, <1>7 DEF q, more, kept
-----------------------------------------------------------------------------
LEMMA OtherStrikes ==
  ASSUME StrikesInv, clock \in Nat, clock' = clock, UNCHANGED <<strikes, attempts, relevant>>
  PROVE  StrikesInv'
BY DEF StrikesInv

LEMMA TickStrikes ==
  ASSUME TypeInv, StrikesInv, Tick
  PROVE  StrikesInv'
<1>1. clock \in Nat /\ clock' \in Nat /\ clock <= clock'
  BY DEF TypeInv, Tick
<1>2. UNCHANGED <<strikes, attempts, relevant>> BY DEF Tick, rows
<1>3. ASSUME NEW s \in Sources
      PROVE  /\ Counted(strikes[s], attempts[s], clock')
             /\ SeenSince(strikes[s], relevant[s], clock')
  <2>1. strikes[s] \in Seq(Nat) BY DEF StrikesInv
  <2>2. Counted(strikes[s], attempts[s], clock) /\ SeenSince(strikes[s], relevant[s], clock)
    BY DEF StrikesInv
  <2>3. Counted(strikes[s], attempts[s], clock') BY <1>1, <2>1, <2>2, CountedLater
  <2>4. strikes[s] # <<>> => strikes[s][Len(strikes[s])] \in Nat BY <2>1
  <2>5. SeenSince(strikes[s], relevant[s], clock') BY <1>1, <2>2, <2>4 DEF SeenSince
  <2> QED BY <2>3, <2>5
<1> QED BY <1>2, <1>3 DEF StrikesInv

LEMMA CleanupStrikes ==
  ASSUME TypeInv, StrikesInv, Cleanup
  PROVE  StrikesInv'
<1>1. clock \in Nat /\ UNCHANGED <<clock, strikes, relevant>> BY DEF TypeInv, Cleanup
<1>2. attempts' = [s \in Sources |-> IF s \in Forgettable THEN <<>> ELSE attempts[s]]
  BY DEF Cleanup
<1>3. ASSUME NEW s \in Sources PROVE Counted(strikes[s], attempts'[s], clock)
  <2>1. /\ strikes[s] \in Seq(Nat) /\ relevant[s] \in Nat
        /\ Counted(strikes[s], attempts[s], clock) /\ SeenSince(strikes[s], relevant[s], clock)
    BY DEF StrikesInv
  <2>2. CASE s \in Forgettable
    <3>1. relevant[s] + Retention <= clock BY <2>2 DEF Forgettable
    <3>2. Counted(strikes[s], <<>>, clock) BY <1>1, <2>1, <3>1, CountedForgotten
    <3> QED BY <1>2, <2>2, <3>2
  <2>3. CASE s \notin Forgettable BY <1>2, <2>1, <2>3
  <2> QED BY <2>2, <2>3
<1>4. attempts' \in [Sources -> Seq(Nat)]
  <2>1. <<>> \in Seq(Nat) OBVIOUS
  <2> QED BY <1>2, <2>1 DEF StrikesInv
<1> QED BY <1>1, <1>3, <1>4 DEF StrikesInv

(* The source of a pending request is seen at its time.                    *)
LEMMA SeenByRequest ==
  ASSUME StrikesInv, NEW s \in Sources, NEW at \in Nat, clock \in Nat, clock <= at + MaxWait
  PROVE  SeenSince(strikes[s], at, clock)
<1>1. strikes[s] \in Seq(Nat) /\ SeenSince(strikes[s], relevant[s], clock) BY DEF StrikesInv
<1>2. strikes[s] # <<>> => strikes[s][Len(strikes[s])] \in Nat BY <1>1
<1> QED BY <1>1, <1>2, Waits DEF SeenSince

LEMMA AdmitStrikes ==
  ASSUME TypeInv, WaitsInv, StrikesInv, NEW r \in Requests, Admit(r)
  PROVE  StrikesInv'
<1>1. /\ clock \in Nat /\ request[r].at \in Nat /\ request[r].source \in Sources
      /\ UNCHANGED <<clock, strikes, attempts>>
  BY DEF TypeInv, Request, Admit
<1>2. clock <= request[r].at + MaxWait BY DEF WaitsInv, Pending, Admit
<1>3. relevant' \in {relevant, [relevant EXCEPT ![request[r].source] = request[r].at]}
  BY DEF Admit
<1>4. \A s \in Sources : SeenSince(strikes[s], relevant[s], clock)
        /\ (s = request[r].source => SeenSince(strikes[s], request[r].at, clock))
  BY <1>1, <1>2, SeenByRequest DEF StrikesInv
<1>5. relevant' \in [Sources -> Nat] BY <1>1, <1>3 DEF StrikesInv
<1>6. \A s \in Sources :
        relevant'[s] = relevant[s] \/ (s = request[r].source /\ relevant'[s] = request[r].at)
  BY <1>3 DEF StrikesInv
<1>7. \A s \in Sources : SeenSince(strikes[s], relevant'[s], clock)
  BY <1>4, <1>6
<1> QED BY <1>1, <1>5, <1>7 DEF StrikesInv

LEMMA RecordStrikes ==
  ASSUME TypeInv, WaitsInv, StrikesInv, NEW r \in Requests, Record(r)
  PROVE  StrikesInv'
<1> DEFINE now == request[r].at
           s == request[r].source
           kept == Newest(Append(Kept(attempts[s], now), now))
           full == Len(kept) >= SourceLimit
<1>1. clock \in Nat /\ now \in Nat /\ s \in Sources /\ clock' = clock
  BY DEF TypeInv, Request, Record
<1>2. now <= clock /\ clock <= now + MaxWait BY DEF WaitsInv, Pending, Record
<1>3. relevant' = [relevant EXCEPT ![s] = now] BY DEF Record
<1>4. relevant' \in [Sources -> Nat] BY <1>1, <1>3 DEF StrikesInv
<1>5. CASE UNCHANGED <<attempts, strikes>>
  <2>1. \A x \in Sources : SeenSince(strikes[x], relevant'[x], clock)
    <3> SUFFICES ASSUME NEW x \in Sources PROVE SeenSince(strikes[x], relevant'[x], clock)
      OBVIOUS
    <3>1. CASE x = s BY <1>1, <1>2, <1>3, <3>1, SeenByRequest DEF StrikesInv
    <3>2. CASE x # s BY <1>3, <3>2 DEF StrikesInv
    <3> QED BY <3>1, <3>2
  <2> QED BY <1>1, <1>4, <1>5, <2>1 DEF StrikesInv
<1>6. CASE /\ attempts' = [attempts EXCEPT ![s] = kept]
           /\ strikes' = [strikes EXCEPT ![s] = IF full THEN <<>> ELSE Append(@, now)]
  <2>1. /\ strikes[s] \in Seq(Nat) /\ attempts[s] \in Seq(Nat)
        /\ Counted(strikes[s], attempts[s], clock)
    BY <1>1 DEF StrikesInv
  <2>2. kept \in Seq(Nat) BY <1>1, <2>1, NewestKept
  <2>3. /\ strikes'[s] \in Seq(Nat)
        /\ Counted(strikes'[s], kept, clock) /\ SeenSince(strikes'[s], now, clock)
    <3>1. CASE full
      <4>1. strikes'[s] = <<>> BY <1>1, <1>6, <3>1 DEF StrikesInv
      <4>2. <<>> \in Seq(Nat) /\ Len(<<>>) = 0 /\ 1..0 = {} OBVIOUS
      <4> QED BY <4>1, <4>2 DEF Counted, SeenSince
    <3>2. CASE ~ full
      <4>1. strikes'[s] = Append(strikes[s], now) BY <1>1, <1>6, <3>2 DEF StrikesInv
      <4>2. /\ Append(strikes[s], now) \in Seq(Nat)
            /\ Counted(Append(strikes[s], now), kept, clock)
        BY <1>1, <1>2, <2>1, <3>2, CountedMore
      <4>3. LET more == Append(strikes[s], now) IN more[Len(more)] = now
        BY <1>1, <2>1, AppendProperties
      <4>4. SeenSince(Append(strikes[s], now), now, clock)
        BY <1>1, <1>2, <4>3, Waits DEF SeenSince
      <4> QED BY <4>1, <4>2, <4>4
    <3> QED BY <3>1, <3>2
  <2> HIDE DEF kept, full
  <2>4. attempts' \in [Sources -> Seq(Nat)] /\ attempts'[s] = kept
        /\ \A x \in Sources \ {s} : attempts'[x] = attempts[x]
    BY <1>1, <1>6, <2>2 DEF StrikesInv
  <2>5. strikes' \in [Sources -> Seq(Nat)] /\ \A x \in Sources \ {s} : strikes'[x] = strikes[x]
    BY <1>1, <1>6, <2>3 DEF StrikesInv
  <2>6. relevant'[s] = now /\ \A x \in Sources \ {s} : relevant'[x] = relevant[x]
    BY <1>1, <1>3 DEF StrikesInv
  <2>7. ASSUME NEW x \in Sources
        PROVE  /\ Counted(strikes'[x], attempts'[x], clock)
               /\ SeenSince(strikes'[x], relevant'[x], clock)
    <3>1. CASE x = s BY <2>3, <2>4, <2>6, <3>1
    <3>2. CASE x # s BY <2>4, <2>5, <2>6, <3>2 DEF StrikesInv
    <3> QED BY <3>1, <3>2
  <2> QED BY <1>1, <1>4, <2>4, <2>5, <2>7 DEF StrikesInv
<1> QED BY <1>5, <1>6 DEF Record

LEMMA WaitsStep == TypeInv /\ WaitsInv /\ [Next]_vars => WaitsInv'
<1> SUFFICES ASSUME TypeInv, WaitsInv, [Next]_vars PROVE WaitsInv' OBVIOUS
<1> USE Waits
<1>1. CASE UNCHANGED <<clock, request>>
  BY <1>1 DEF WaitsInv, Pending
<1>2. CASE Tick
  <2>1. clock \in Nat /\ \A r \in Requests : request[r].at \in Nat BY DEF TypeInv, Request
  <2> QED BY <1>2, <2>1 DEF Tick, WaitsInv, Pending
<1>3. ASSUME NEW r \in Requests, NEW kind \in Kinds, NEW s \in Sources, Arrive(r, kind, s)
      PROVE  WaitsInv'
  <2>1. \A x \in Requests : request'[x] = request[x] \/ request'[x].at = clock
    BY <1>3 DEF Arrive, TypeInv
  <2>2. clock \in Nat /\ clock' = clock BY <1>3 DEF Arrive, TypeInv
  <2> QED BY <2>1, <2>2 DEF WaitsInv, Pending
<1>4. ASSUME NEW r \in Requests,
             Lose(r) \/ Admit(r) \/ Record(r) \/ Unusable(r) \/ View(r) \/ Comment(r)
      PROVE  WaitsInv'
  <2>1. \E stage \in Answers \cup {"admitted"} :
          At(r, stage) /\ (stage = "admitted" => request[r].stage = "arrived")
    BY <1>4 DEF Lose, Admit, Record, Unusable, View, Comment, Answers, Handled
  <2>2. \A x \in Requests : /\ request'[x].at = request[x].at
                            /\ request'[x].stage \in {"arrived", "admitted"} => Pending(x)
    BY <2>1 DEF At, TypeInv, Request, Answers, Pending
  <2>3. clock' = clock BY <1>4 DEF Lose, Admit, Record, Unusable, View, Comment
  <2> QED BY <2>2, <2>3 DEF WaitsInv, Pending
<1> QED BY <1>1, <1>2, <1>3, <1>4 DEF Next, EndLink, Cleanup, vars

LEMMA StrikesStep == TypeInv /\ WaitsInv /\ StrikesInv /\ [Next]_vars => StrikesInv'
<1> SUFFICES ASSUME TypeInv, WaitsInv, StrikesInv, [Next]_vars PROVE StrikesInv' OBVIOUS
<1>0. clock \in Nat BY DEF TypeInv
<1>1. CASE UNCHANGED <<clock, strikes, attempts, relevant>>
  BY <1>0, <1>1, OtherStrikes
<1>2. CASE Tick BY <1>2, TickStrikes
<1>3. CASE Cleanup BY <1>3, CleanupStrikes
<1>4. ASSUME NEW r \in Requests, Admit(r) \/ Record(r) PROVE StrikesInv'
  BY <1>4, AdmitStrikes, RecordStrikes
<1> QED BY <1>1, <1>2, <1>3, <1>4
     DEF Next, EndLink, Arrive, Lose, Unusable, View, Comment, vars, rows
-----------------------------------------------------------------------------
(* Times in order lie between the first and the last of them.              *)
LEMMA OrderedLie ==
  ASSUME NEW times \in Seq(Nat), times # <<>>,
         \A i \in 1..(Len(times) - 1) : times[i] <= times[i + 1]
  PROVE  \A i \in 1..Len(times) : times[1] <= times[i] /\ times[i] <= times[Len(times)]
<1> DEFINE n == Len(times)
<1>1. n \in Nat /\ n >= 1 /\ \A i \in 1..n : times[i] \in Nat OBVIOUS
<1>2. \A i \in 1..(n - 1) : times[i] <= times[i + 1] OBVIOUS
<1> HIDE DEF n
<1>3. ASSUME NEW i \in 1..n PROVE times[1] <= times[i]
  <2> DEFINE S == {m \in Nat : m < n => times[1] <= times[m + 1]}
  <2>1. 0 \in S BY <1>1
  <2>2. \A m \in Nat : m < n /\ m \in S => m + 1 \in S
    <3> SUFFICES ASSUME NEW m \in Nat, m \in S, m + 1 < n PROVE times[1] <= times[(m + 1) + 1]
      OBVIOUS
    <3>1. m + 1 \in 1..(n - 1) /\ m + 1 \in 1..n /\ (m + 1) + 1 \in 1..n /\ 1 \in 1..n
      BY <1>1
    <3>2. times[1] <= times[m + 1] BY <1>1
    <3>3. times[m + 1] <= times[(m + 1) + 1] BY <1>2, <3>1
    <3> DEFINE x == times[1]
               y == times[m + 1]
               z == times[(m + 1) + 1]
    <3>4. x \in Nat /\ y \in Nat /\ z \in Nat /\ x <= y /\ y <= z BY <1>1, <3>1, <3>2, <3>3
    <3> HIDE DEF x, y, z
    <3>5. x <= z BY <3>4
    <3> QED BY <3>5 DEF x, z
  <2>3. S \in SUBSET Nat OBVIOUS
  <2>4. i - 1 \in S
    <3> HIDE DEF S
    <3>1. \A m \in 0..n : m \in S BY <1>1, <2>1, <2>2, <2>3, UpTo
    <3> QED BY <1>1, <3>1
  <2>5. (i - 1) + 1 = i /\ i - 1 < n BY <1>1
  <2> QED BY <2>4, <2>5
<1>4. ASSUME NEW i \in 1..n PROVE times[i] <= times[n]
  <2> DEFINE S == {m \in Nat : m < n => times[n - m] <= times[n]}
  <2>1. 0 \in S
    <3>1. n - 0 = n /\ n \in 1..n BY <1>1
    <3>2. times[n] \in Nat BY <1>1, <3>1
    <3> QED BY <3>1, <3>2
  <2>2. \A m \in Nat : m < n /\ m \in S => m + 1 \in S
    <3> SUFFICES ASSUME NEW m \in Nat, m \in S, m + 1 < n PROVE times[n - (m + 1)] <= times[n]
      OBVIOUS
    <3>1. /\ n - (m + 1) \in 1..(n - 1) /\ (n - (m + 1)) + 1 = n - m
          /\ n - (m + 1) \in 1..n /\ n - m \in 1..n /\ n \in 1..n
      BY <1>1
    <3>2. times[n - m] <= times[n] BY <1>1
    <3>3. times[n - (m + 1)] <= times[n - m] BY <1>2, <3>1
    <3> DEFINE x == times[n - (m + 1)]
               y == times[n - m]
               z == times[n]
    <3>4. x \in Nat /\ y \in Nat /\ z \in Nat /\ x <= y /\ y <= z BY <1>1, <3>1, <3>2, <3>3
    <3> HIDE DEF x, y, z
    <3>5. x <= z BY <3>4
    <3> QED BY <3>5 DEF x, z
  <2>3. S \in SUBSET Nat OBVIOUS
  <2>4. n - i \in S
    <3> HIDE DEF S
    <3>1. \A m \in 0..n : m \in S BY <1>1, <2>1, <2>2, <2>3, UpTo
    <3> QED BY <1>1, <3>1
  <2>5. n - (n - i) = i /\ n - i < n BY <1>1
  <2> QED BY <2>4, <2>5
<1> QED BY <1>3, <1>4 DEF n

(* Strikes in order within a window lie in the window of the first.        *)
LEMMA InOrderIsOneWindow ==
  ASSUME NEW st \in Seq(Nat), NEW k \in 1..Len(st),
         InOrderWithin(SubSeq(st, Len(st) - k + 1, Len(st)))
  PROVE  OneWindow(st, k)
<1> DEFINE n == Len(st)
           end == SubSeq(st, n - k + 1, n)
<1>1. n \in Nat /\ k \in Nat /\ 1 <= k /\ k <= n /\ \A i \in 1..n : st[i] \in Nat
  OBVIOUS
<1>2. n - k + 1 \in 1..n BY <1>1
<1>3. /\ end \in Seq(Nat) /\ Len(end) = k
      /\ \A i \in 1..k : end[i] = st[(n - k) + i]
  <2>1. /\ Len(end) = n - (n - k + 1) + 1
        /\ \A i \in 1..(n - (n - k + 1) + 1) : end[i] = st[(n - k + 1) + i - 1]
    BY <1>1, <1>2
  <2>2. end \in Seq(Nat) BY <1>1, <1>2
  <2>3. n - (n - k + 1) + 1 = k /\ \A i \in 1..k : (n - k + 1) + i - 1 = (n - k) + i
    BY <1>1
  <2> QED BY <2>1, <2>2, <2>3
<1>4. InOrderWithin(end) OBVIOUS
<1> HIDE DEF end, n
<1>5. end # <<>> /\ 1 \in 1..k /\ k \in 1..k BY <1>1, <1>3
<1>6. \A i \in 1..Len(end) : end[1] <= end[i] /\ end[i] <= end[Len(end)]
  BY <1>3, <1>4, <1>5, OrderedLie DEF InOrderWithin
<1>7. end[k] < end[1] + SourceWindow BY <1>3, <1>4 DEF InOrderWithin
<1>8. First(st, k) = end[1]
  <2>1. n - (k - 1) = (n - k) + 1 BY <1>1
  <2> QED BY <1>3, <1>5, <2>1 DEF First, n
<1>9. ASSUME NEW j \in 0..(k - 1)
      PROVE  First(st, k) <= st[n - j] /\ st[n - j] < First(st, k) + SourceWindow
  <2>1. k - j \in 1..k /\ n - j = (n - k) + (k - j) BY <1>1
  <2>2. st[n - j] = end[k - j] BY <1>3, <2>1
  <2>3. end[1] <= end[k - j] /\ end[k - j] <= end[k] BY <1>3, <1>6, <2>1
  <2>4. end[1] \in Nat /\ end[k - j] \in Nat /\ end[k] \in Nat
    BY <1>3, <1>5, <2>1
  <2> DEFINE x == end[1]
             y == end[k - j]
             z == end[k]
  <2>5. /\ x \in Nat /\ y \in Nat /\ z \in Nat /\ x <= y /\ y <= z
        /\ z < x + SourceWindow
    BY <1>7, <2>3, <2>4
  <2> HIDE DEF x, y, z
  <2>6. x <= y /\ y < x + SourceWindow BY <2>5, Waits
  <2> QED BY <1>8, <2>2, <2>6 DEF x, y
<1> QED BY <1>9 DEF OneWindow, n

(* An unknown link of a source that is recorded in the order of its time   *)
(* blocks the source when it is the last one the window allows: cleanup    *)
(* and requests with crossing times make the table forget none of its      *)
(* window.                                                                 *)
THEOREM UnknownLinksBlockAlways == Spec => []UnknownLinksBlock
<1> DEFINE Inv == TypeInv /\ WaitsInv /\ StrikesInv
<1>1. Init => Inv
  <2> SUFFICES ASSUME Init PROVE Inv OBVIOUS
  <2>1. TypeInv BY TypeAtFirst
  <2>2. WaitsInv BY DEF Init, WaitsInv, Pending
  <2>3. <<>> \in Seq(Nat) /\ Len(<<>>) = 0 /\ 1..0 = {} OBVIOUS
  <2>4. StrikesInv BY <2>3 DEF Init, StrikesInv, Counted, SeenSince
  <2> QED BY <2>1, <2>2, <2>4
<1>2. Inv /\ [Next]_vars => Inv' BY TypeStep, WaitsStep, StrikesStep
<1>3. Inv => UnknownLinksBlock
  <2> SUFFICES ASSUME StrikesInv, NEW s \in Sources, Len(strikes[s]) >= SourceLimit,
                      InOrderWithin(SubSeq(strikes[s], Len(strikes[s]) - SourceLimit + 1,
                                           Len(strikes[s])))
               PROVE  FALSE
    BY DEF UnknownLinksBlock
  <2>1. strikes[s] \in Seq(Nat) /\ Counted(strikes[s], attempts[s], clock) BY DEF StrikesInv
  <2>2. SourceLimit \in 1..Len(strikes[s]) BY <2>1, Waits
  <2>3. OneWindow(strikes[s], SourceLimit) BY <2>1, <2>2, InOrderIsOneWindow
  <2>4. SourceLimit < SourceLimit BY <2>1, <2>2, <2>3 DEF Counted
  <2> QED BY <2>4, Waits
<1> QED BY <1>1, <1>2, <1>3, PTL DEF Spec
=============================================================================
