------------------------ MODULE SemesterSearchProofs ------------------------
(***************************************************************************)
(* What the offers of a search say is true for every set of problems,      *)
(* arrangements and values, and what is offered keeps the rules that are   *)
(* checked before and after it is saved, for every prepared input and every*)
(* solution of its constraints.  Once it is saved, the four views of the   *)
(* semester agree on what is wrong with it.  That only a few start times   *)
(* are tried loses nothing against every tick of the days.                 *)
(***************************************************************************)
EXTENDS SavedSemester, FiniteSetTheorems, WellFoundedInduction, TLAPS

(* The proven values are the best ones in the order of the objectives.     *)
PinsAreBest ==
  \A k \in Stages : k < stage =>
    \A b \in Space(problem) :
      (\A j \in Stages : j < k => Value(problem, b, j) = proven[j])
        => ~ Better(k, Value(problem, b, k), proven[k])

(* An offer calls proven what the search has proven, and has these values. *)
OfferAgrees(candidate, n) ==
  /\ candidate.arrangement \in Space(problem)
  /\ candidate.proof \in [Stages -> Statuses]
  /\ \A k \in Stages : candidate.proof[k] = "proven" =>
       /\ k < n
       /\ \A j \in Stages : j < k => candidate.proof[j] = "proven"
       /\ Value(problem, candidate.arrangement, k) = proven[k]
  /\ candidate.optimal \in BOOLEAN
  /\ candidate.optimal => \A k \in Stages : candidate.proof[k] = "proven"

OfferBounded(candidate) ==
  /\ candidate.bound \in Nat \cup {None}
  /\ candidate.bound # None =>
       \A b \in Space(problem) : Units(problem, b) <= candidate.bound

Inv ==
  /\ problem \in Problems
  /\ stage \in 1..9
  /\ proven \in [Stages -> Int]
  /\ incumbent \in Space(problem) \cup {None}
  /\ outcome \in Outcomes
  /\ PinsAreBest
  /\ offer # NoOffer => /\ offer \in [arrangement : Space(problem), proof : [Stages -> Statuses],
                                      optimal : BOOLEAN, bound : Nat \cup {None}]
                        /\ OfferAgrees(offer, stage) /\ OfferBounded(offer)

LEMMA StagesAreInts == Stages \subseteq Int /\ 8 \in Stages /\ 1 \in Stages
BY DEF Stages

(* The search starts without offers and proofs.                            *)
LEMMA InitInv == Init => Inv
<1> SUFFICES ASSUME Init PROVE Inv OBVIOUS
<1>1. PinsAreBest
  BY DEF Init, PinsAreBest, Stages
<1> QED BY <1>1 DEF Init, Inv, Outcomes, Stages

(* Decoding a solution of the pinned model gives an agreeing offer.        *)
LEMMA DecodedAgrees ==
  ASSUME Inv, stage \in Stages, NEW a \in Space(problem), Pinned(a), NEW bound \in Nat \cup {None},
         Units(problem, a) > 0, bound # None => BoundsUnits(bound)
  PROVE  /\ Decoded(a, stage - 1, bound) \in
              [arrangement : Space(problem), proof : [Stages -> Statuses],
               optimal : BOOLEAN, bound : Nat \cup {None}]
         /\ OfferAgrees(Decoded(a, stage - 1, bound), stage)
         /\ OfferBounded(Decoded(a, stage - 1, bound))
<1> DEFINE d == Decoded(a, stage - 1, bound)
<1>1. a \in Space(problem) /\ \A k \in Stages : k < stage => Value(problem, a, k) = proven[k]
  BY DEF Pinned
<1>2. /\ d.arrangement = a
      /\ d.proof = [k \in Stages |-> IF k <= stage - 1 THEN "proven"
                                     ELSE IF k = stage THEN "unfinished" ELSE "not_attempted"]
      /\ d.optimal = (stage - 1 = 8)
      /\ d.bound = IF stage - 1 >= 1 THEN Units(problem, a) ELSE UpperBound(Units(problem, a), bound)
      /\ d = [arrangement |-> a, proof |-> d.proof, optimal |-> d.optimal, bound |-> d.bound]
  BY DEF Decoded
<1> HIDE DEF d
<1>3. d.proof \in [Stages -> Statuses] /\ \A k \in Stages : d.proof[k] = "proven" <=> k < stage
  BY <1>2 DEF Statuses, Stages
<1>4. d.optimal = FALSE
  <2>1. (stage - 1 = 8) = FALSE BY DEF Stages
  <2> QED BY <1>2, <2>1, Zenon
<1>5. OfferAgrees(d, stage)
  BY <1>1, <1>2, <1>3, <1>4 DEF OfferAgrees, Stages
<1>6. /\ Required(problem) \in Nat /\ Units(problem, a) \in Nat
      /\ \A b \in Space(problem) : Units(problem, b) \in Int /\ Units(problem, b) <= Required(problem)
  BY <1>1, ValueAssumption, RequiredAssumption DEF Inv, Units, Stages
<1>7. OfferBounded(d)
  <2>1. CASE stage = 1
    <3>1. d.bound = UpperBound(Units(problem, a), bound) BY <1>2, <2>1
    <3> QED BY <3>1, <1>6, NoneAssumption DEF OfferBounded, UpperBound, BoundsUnits
  <2>2. CASE stage # 1
    <3>1. d.bound = Units(problem, a) BY <1>2, <2>2 DEF Stages
    <3>2. 1 \in Stages /\ 1 < stage BY <2>2 DEF Stages
    <3>3. Value(problem, a, 1) = proven[1] BY <1>1, <3>2
    <3>4. \A b \in Space(problem) : ~ Better(1, Value(problem, b, 1), proven[1])
      <4>1. \A j \in Stages : ~ (j < 1) BY DEF Stages
      <4> QED BY <3>2, <4>1 DEF Inv, PinsAreBest
    <3>5. \A b \in Space(problem) : Units(problem, b) <= Units(problem, a)
      BY <3>3, <3>4, <1>6 DEF Better, Maximised, Units
    <3> QED BY <3>1, <3>5, <1>6 DEF OfferBounded
  <2> QED BY <2>1, <2>2
<1>8. d \in [arrangement : Space(problem), proof : [Stages -> Statuses],
             optimal : BOOLEAN, bound : Nat \cup {None}]
  BY <1>1, <1>2, <1>3, <1>4, <1>7 DEF OfferBounded
<1> QED BY <1>5, <1>7, <1>8 DEF d

(* A solved objective pins the best value under the ones pinned before.    *)
LEMMA SolvedIsBest ==
  ASSUME Inv, NEW a \in Space(problem), SolveOptimal(a)
  PROVE  Inv'
<1>1. /\ stage \in Stages /\ problem' = problem /\ stage' = stage + 1
      /\ proven' = [proven EXCEPT ![stage] = Value(problem, a, stage)]
      /\ incumbent' = None
      /\ offer' = Decoded(a, stage, None)
      /\ outcome' \in Outcomes
      /\ Pinned(a)
      /\ \A b \in Space(problem) : Pinned(b) => ~ Better(stage, Value(problem, b, stage), Value(problem, a, stage))
      /\ Units(problem, a) > 0
  BY DEF SolveOptimal, Searching, Optimal, Outcomes
<1>2. \A k \in Stages : k < stage => Value(problem, a, k) = proven[k] /\ proven'[k] = proven[k]
  BY <1>1 DEF Pinned, Inv, Stages
<1>3. /\ proven' \in [Stages -> Int]
      /\ proven'[stage] = Value(problem, a, stage)
      /\ stage' \in 1..9
      /\ \A b \in Space(problem) : \A k \in Stages : Value(problem, b, k) \in Int
  BY <1>1, ValueAssumption DEF Inv, Stages
<1>4. PinsAreBest'
  <2> SUFFICES ASSUME NEW k \in Stages, k < stage', NEW b \in Space(problem),
                      \A j \in Stages : j < k => Value(problem, b, j) = proven'[j]
               PROVE  ~ Better(k, Value(problem, b, k), proven'[k])
    BY <1>1 DEF PinsAreBest, Better
  <2>1. CASE k < stage
    <3>1. \A j \in Stages : j < k => Value(problem, b, j) = proven[j]
      BY <2>1, <1>1, <1>2 DEF Stages
    <3> QED BY <3>1, <2>1, <1>2 DEF Inv, PinsAreBest
  <2>2. CASE k = stage
    <3>1. Pinned(b) BY <2>2, <1>2 DEF Pinned
    <3> QED BY <3>1, <2>2, <1>1, <1>3
  <2> QED BY <2>1, <2>2, <1>1 DEF Stages
<1> DEFINE d == Decoded(a, stage, None)
<1>5. /\ d.arrangement = a
      /\ d.proof = [k \in Stages |-> IF k <= stage THEN "proven"
                                     ELSE IF k = stage THEN "unfinished" ELSE "not_attempted"]
      /\ d.optimal = (stage = 8)
      /\ d.bound = Units(problem, a)
      /\ d = [arrangement |-> a, proof |-> d.proof, optimal |-> d.optimal, bound |-> d.bound]
  BY <1>1 DEF Decoded, Stages
<1>6. d.proof \in [Stages -> Statuses] /\ \A k \in Stages : d.proof[k] = "proven" <=> k <= stage
  BY <1>5 DEF Statuses, Stages
<1>7. a \in Space(problem) /\ \A k \in Stages : k <= stage => Value(problem, a, k) = proven'[k]
  BY <1>1, <1>2, <1>3 DEF Stages
<1>8. /\ d.optimal \in BOOLEAN
      /\ d.optimal => \A k \in Stages : d.proof[k] = "proven"
  <2>1. (stage = 8) \in BOOLEAN /\ (stage = 8 => \A k \in Stages : d.proof[k] = "proven")
    BY <1>6 DEF Stages
  <2> QED BY <1>5, <2>1, Zenon
<1>9. \A k \in Stages : d.proof[k] = "proven" =>
        /\ k < stage'
        /\ \A j \in Stages : j < k => d.proof[j] = "proven"
        /\ Value(problem, a, k) = proven'[k]
  BY <1>1, <1>6, <1>7 DEF Stages
<1>10. Units(problem, a) \in Nat /\ \A b \in Space(problem) : Units(problem, b) <= Units(problem, a)
  <2>1. 1 \in Stages /\ 1 < stage' /\ \A j \in Stages : ~ (j < 1) BY <1>1 DEF Stages
  <2>2. Value(problem, a, 1) = proven'[1] BY <1>7, <1>1 DEF Stages
  <2>3. \A b \in Space(problem) : ~ Better(1, Value(problem, b, 1), proven'[1])
    BY <2>1, <1>4, <1>1 DEF PinsAreBest, Better
  <2> QED BY <2>1, <2>2, <2>3, <1>1, <1>3 DEF Better, Maximised, Units
<1>11. /\ d \in [arrangement : Space(problem), proof : [Stages -> Statuses],
                 optimal : BOOLEAN, bound : Nat \cup {None}]
  BY <1>5, <1>6, <1>7, <1>8, <1>10
<1>12. OfferAgrees(offer, stage)'
  BY <1>1, <1>5, <1>6, <1>7, <1>8, <1>9 DEF OfferAgrees
<1>13. OfferBounded(offer)'
  BY <1>1, <1>5, <1>10 DEF OfferBounded, Units
<1> QED BY <1>1, <1>3, <1>4, <1>11, <1>12, <1>13 DEF Inv

(* Every other step keeps the pins and makes at most a new offer of them.  *)
LEMMA NewOffer ==
  ASSUME Inv, UNCHANGED <<problem, stage, proven>>, outcome' \in Outcomes,
         incumbent' \in Space(problem) \cup {None},
         \/ UNCHANGED offer
         \/ /\ offer' \in [arrangement : Space(problem), proof : [Stages -> Statuses],
                           optimal : BOOLEAN, bound : Nat \cup {None}]
            /\ OfferAgrees(offer', stage) /\ OfferBounded(offer')
  PROVE  Inv'
<1>1. PinsAreBest'
  BY DEF Inv, PinsAreBest, Better
<1>2. ASSUME offer' # NoOffer
      PROVE  /\ offer' \in [arrangement : Space(problem), proof : [Stages -> Statuses],
                            optimal : BOOLEAN, bound : Nat \cup {None}]
             /\ OfferAgrees(offer', stage) /\ OfferBounded(offer')
  BY <1>2 DEF Inv
<1>3. ASSUME offer' # NoOffer PROVE OfferAgrees(offer, stage)' /\ OfferBounded(offer)'
  BY <1>2, <1>3 DEF OfferAgrees, OfferBounded, Units
<1>4. (offer # NoOffer)' <=> offer' # NoOffer
  BY DEF NoOffer
<1> QED BY <1>1, <1>2, <1>3, <1>4 DEF Inv, NoOffer

(* Making an offer unfinished takes nothing it may not lose.               *)
LEMMA UnfinishedAgrees ==
  ASSUME Inv, stage \in Stages,
         NEW d \in [arrangement : Space(problem), proof : [Stages -> Statuses],
                    optimal : BOOLEAN, bound : Nat \cup {None}],
         OfferAgrees(d, stage), OfferBounded(d)
  PROVE  /\ Unfinished(d) \in [arrangement : Space(problem), proof : [Stages -> Statuses],
                               optimal : BOOLEAN, bound : Nat \cup {None}]
         /\ OfferAgrees(Unfinished(d), stage) /\ OfferBounded(Unfinished(d))
<1> DEFINE u == Unfinished(d)
<1>a. u = [arrangement |-> d.arrangement, proof |-> [d.proof EXCEPT ![stage] = "unfinished"],
           optimal |-> FALSE, bound |-> d.bound]
  BY DEF Unfinished
<1> HIDE DEF u
<1>1. /\ u.arrangement = d.arrangement /\ u.bound = d.bound /\ u.optimal = FALSE
      /\ u.proof = [d.proof EXCEPT ![stage] = "unfinished"]
      /\ u = [arrangement |-> u.arrangement, proof |-> u.proof, optimal |-> u.optimal, bound |-> u.bound]
  BY <1>a
<1>2. /\ u.proof \in [Stages -> Statuses]
      /\ \A k \in Stages : u.proof[k] = "proven" <=> d.proof[k] = "proven"
  BY <1>1 DEF OfferAgrees, Statuses, Stages
<1>3. u \in [arrangement : Space(problem), proof : [Stages -> Statuses],
             optimal : BOOLEAN, bound : Nat \cup {None}]
  BY <1>1, <1>2
<1> QED BY <1>1, <1>2, <1>3 DEF u, OfferAgrees, OfferBounded, Statuses

LEMMA NextInv == Inv /\ [Next]_vars => Inv'
<1> SUFFICES ASSUME Inv, [Next]_vars PROVE Inv' OBVIOUS
<1> USE DEF Outcomes
<1>1. CASE SolveNothing
  <2>1. /\ UNCHANGED <<problem, stage, proven, incumbent>> /\ stage \in Stages
        /\ outcome' \in Outcomes
        /\ offer' = offer \/ (offer # NoOffer /\ offer' = Unfinished(offer))
    BY <1>1 DEF SolveNothing, Searching
  <2>2. CASE offer' = offer
    BY <2>1, <2>2, NewOffer DEF Inv
  <2>3. CASE offer # NoOffer /\ offer' = Unfinished(offer)
    BY <2>1, <2>3, NewOffer, UnfinishedAgrees DEF Inv
  <2> QED BY <2>1, <2>2, <2>3
<1>2. CASE Stop
  BY <1>2, NewOffer DEF Stop, Inv
<1>3. ASSUME NEW a \in Space(problem), ShowSolution(a) PROVE Inv'
  <2>1. /\ UNCHANGED <<problem, stage, proven, outcome>> /\ incumbent' = a
        /\ stage \in Stages /\ Pinned(a)
        /\ offer' = offer \/ (Units(problem, a) > 0 /\ offer' = Decoded(a, stage - 1, None))
    BY <1>3 DEF ShowSolution, Searching, Improves
  <2>2. CASE offer' = offer
    BY <2>1, <2>2, NewOffer DEF Inv
  <2>3. CASE Units(problem, a) > 0 /\ offer' = Decoded(a, stage - 1, None)
    BY <2>1, <2>3, NewOffer, DecodedAgrees DEF Inv
  <2> QED BY <2>1, <2>2, <2>3
<1>4. ASSUME NEW a \in Space(problem), NothingGenerated(a) PROVE Inv'
  BY <1>4, NewOffer DEF NothingGenerated, Inv
<1>5. ASSUME NEW a \in Space(problem), SolveOptimal(a) PROVE Inv'
  BY <1>5, SolvedIsBest
<1>6. ASSUME NEW a \in Space(problem), NEW bound \in 0..(Required(problem) + 1), SolveFeasible(a, bound)
      PROVE  Inv'
  <2>1. /\ UNCHANGED <<problem, stage, proven, incumbent>> /\ outcome' \in Outcomes
        /\ stage \in Stages /\ Pinned(a) /\ Units(problem, a) > 0 /\ BoundsUnits(bound)
        /\ offer' = Unfinished(Decoded(a, stage - 1, bound))
    BY <1>6 DEF SolveFeasible, Searching, Reachable, Improves
  <2>2. bound \in Nat
    BY RequiredAssumption DEF Inv
  <2> DEFINE d == Decoded(a, stage - 1, bound)
  <2>3. /\ d \in [arrangement : Space(problem), proof : [Stages -> Statuses],
                  optimal : BOOLEAN, bound : Nat \cup {None}]
        /\ OfferAgrees(d, stage) /\ OfferBounded(d)
    BY <2>1, <2>2, DecodedAgrees
  <2> HIDE DEF d
  <2>4. /\ offer' \in [arrangement : Space(problem), proof : [Stages -> Statuses],
                       optimal : BOOLEAN, bound : Nat \cup {None}]
        /\ OfferAgrees(offer', stage) /\ OfferBounded(offer')
    BY <2>1, <2>3, UnfinishedAgrees DEF d
  <2> QED BY <2>1, <2>4, NewOffer DEF Inv
<1>7. CASE UNCHANGED vars
  BY <1>7, NewOffer DEF vars, Inv
<1> QED BY <1>1, <1>2, <1>3, <1>4, <1>5, <1>6, <1>7 DEF Next, Inv
-----------------------------------------------------------------------------
(* What an offer calls proven is best in the order of the objectives, for  *)
(* any arrangements and values: the promise of optimize_semester's stages. *)
THEOREM ProvenIsBestAlways == Spec => []ProvenIsBest
<1>1. Inv => ProvenIsBest
  <2> SUFFICES ASSUME Inv, offer # NoOffer PROVE ProvenIsBest
    BY DEF ProvenIsBest
  <2>1. OfferAgrees(offer, stage) /\ PinsAreBest BY DEF Inv
  <2>2. ASSUME NEW k \in Stages, offer.proof[k] = "proven", NEW b \in Space(problem),
               Agree(b, offer.arrangement, k)
        PROVE  ~ Better(k, Value(problem, b, k), Value(problem, offer.arrangement, k))
    <3>1. /\ k < stage
          /\ Value(problem, offer.arrangement, k) = proven[k]
          /\ \A j \in Stages : j < k => offer.proof[j] = "proven"
      BY <2>1, <2>2 DEF OfferAgrees
    <3>2. \A j \in Stages : j < k => Value(problem, b, j) = proven[j]
      BY <3>1, <2>1, <2>2 DEF OfferAgrees, Agree
    <3> QED BY <3>1, <3>2, <2>1 DEF PinsAreBest
  <2> QED BY <2>1, <2>2 DEF ProvenIsBest, OfferAgrees
<1> QED BY <1>1, InitInv, NextInv, PTL DEF Spec

(* The bound on units that an offer carries is never too small.            *)
THEOREM BoundHoldsAlways == Spec => []BoundHolds
<1>1. Inv => BoundHolds
  BY DEF Inv, OfferBounded, BoundHolds
<1> QED BY <1>1, InitInv, NextInv, PTL DEF Spec

(* Together: what the planner is told of an offer is true.                 *)
THEOREM OffersAreHonestAlways == Spec => []OffersAreHonest
BY ProvenIsBestAlways, BoundHoldsAlways, PTL DEF OffersAreHonest

(* The search is well typed.                                               *)
THEOREM TypeCorrect == Spec => []TypeOK
<1>1. Inv => TypeOK
  BY DEF Inv, TypeOK
<1> QED BY <1>1, InitInv, NextInv, PTL DEF Spec
-----------------------------------------------------------------------------
(* Counting up to n from 0.                                                *)
LEMMA UpTo ==
  ASSUME NEW S \in SUBSET Nat, 0 \in S, NEW n \in Nat,
         \A m \in Nat : m < n /\ m \in S => m + 1 \in S
  PROVE  \A m \in 0..n : m \in S
<1> SUFFICES ASSUME NEW b \in 0..n, b \notin S PROVE FALSE
  OBVIOUS
<1> DEFINE Missing == {m \in Nat : m <= n /\ m \notin S}
<1>1. PICK m \in Missing : \A k \in Missing : ~ (<<k, m>> \in OpToRel(<, Nat))
  <2>1. Missing \subseteq Nat /\ b \in Missing OBVIOUS
  <2> HIDE DEF Missing
  <2> QED BY <2>1, NatLessThanWellFounded, WFMin
<1>2. \A k \in Missing : ~ (k < m)
  BY <1>1 DEF OpToRel
<1>3. m # 0 /\ m \in 0..n
  OBVIOUS
<1>4. m - 1 \in S
  BY <1>2, <1>3
<1>5. m - 1 \in Nat /\ m - 1 < n /\ (m - 1) + 1 = m
  BY <1>3
<1> QED BY <1>4, <1>5

(* A set of numbers has a smallest one, and a largest one if it is bounded.*)
LEMMA MinOfNats ==
  ASSUME NEW S \in SUBSET Nat, S # {}
  PROVE  Min(S) \in S /\ \A k \in S : Min(S) <= k
<1>1. PICK b \in S : \A c \in S : ~ (<<c, b>> \in OpToRel(<, Nat))
  BY NatLessThanWellFounded, WFMin
<1>2. \A c \in S : ~ (c < b)
  BY <1>1 DEF OpToRel
<1>3. \E x \in S : \A y \in S : x =< y
  BY <1>2
<1> QED BY <1>3 DEF Min

LEMMA MaxOfNats ==
  ASSUME NEW n \in Nat, NEW S \in SUBSET (0..n), S # {}
  PROVE  Max(S) \in S /\ \A k \in S : k <= Max(S)
<1> DEFINE Bounds == {b \in Nat : \A k \in S : k <= b}
<1>1. PICK b \in Bounds : \A c \in Bounds : ~ (<<c, b>> \in OpToRel(<, Nat))
  <2>1. n \in Bounds /\ Bounds \subseteq Nat OBVIOUS
  <2> HIDE DEF Bounds
  <2> QED BY <2>1, NatLessThanWellFounded, WFMin
<1>2. \A c \in Bounds : ~ (c < b)
  BY <1>1 DEF OpToRel
<1>3. ASSUME b \notin S PROVE FALSE
  <2>1. \A k \in S : k <= b - 1 BY <1>3
  <2>2. b - 1 \in Nat
    <3>1. PICK k \in S : TRUE OBVIOUS
    <3> QED BY <2>1, <3>1
  <2> QED BY <1>2, <2>1, <2>2
<1>4. \E x \in S : \A y \in S : x >= y
  BY <1>3
<1>5. Max(S) \in S /\ \A y \in S : Max(S) >= y
  BY <1>4 DEF Max
<1> QED BY <1>5
-----------------------------------------------------------------------------
(* How long sessions last.                                                 *)
LEMMA DurationIsPositive ==
  ASSUME NEW units \in Nat \ {0}
  PROVE  Duration(units) \in Nat \ {0}
<1>1. /\ Unit \in Nat /\ Unit >= 1 /\ Break \in Nat
      /\ units - 1 \in Nat /\ units = (units - 1) + 1
  BY TimesAssumption
<1>2. units * Unit = ((units - 1) * Unit) + Unit
  BY <1>1
<1>3. (units - 1) * Unit \in Nat /\ (units - 1) * Break \in Nat
  BY <1>1
<1> QED BY <1>1, <1>2, <1>3 DEF Duration

LEMMA PreparedCourse ==
  ASSUME NEW p, Prepared(p), NEW c \in p.selected
  PROVE  /\ p.facts.course[c].min \in Nat \ {0} /\ p.facts.course[c].max \in Nat
         /\ c \in DOMAIN p.facts.constraints
         /\ p.facts.constraints[c].from \in Int /\ p.facts.constraints[c].until \in Int
         /\ p.facts.constraints[c].studyType \in DOMAIN p.facts.windows
         /\ p.facts.size[c] \in Nat
         /\ p.facts.rooms[c] \subseteq DOMAIN p.facts.capacity
         /\ \A w \in Windows(p, c) : w.from \in 0..DayEnd /\ w.until \in 0..DayEnd
BY DEF Prepared, Windows

LEMMA DurationsAreNats ==
  ASSUME NEW p, Prepared(p), NEW date
  PROVE  Durations(p, date) \subseteq Nat
<1>1. ASSUME NEW c \in p.selected, NEW units \in p.facts.course[c].min..p.facts.course[c].max
      PROVE  Duration(units) \in Nat
  <2>1. units \in Nat \ {0} BY <1>1, PreparedCourse
  <2> QED BY <2>1, DurationIsPositive
<1> QED BY <1>1 DEF Durations
-----------------------------------------------------------------------------
(* The loop of _candidate_start_times: a closure that has as many steps as *)
(* the day has ticks, and stays within them.                               *)
First(p, date, latest) == {s \in Seeds(p, date) : s \in 0..latest}
After(p, date, latest, starts) ==
  starts \cup {t \in {s + d : s \in starts, d \in Durations(p, date)} : t <= latest}
Loop(p, date, latest, f, n) ==
  IF n = 0 THEN First(p, date, latest) ELSE After(p, date, latest, f[n - 1])

LEMMA AfterStays ==
  ASSUME NEW p, Prepared(p), NEW date, NEW latest \in Nat, NEW starts \in SUBSET (0..latest)
  PROVE  After(p, date, latest, starts) \in SUBSET (0..latest)
<1>1. \A d \in Durations(p, date) : d \in Nat
  BY DurationsAreNats
<1>2. \A s \in starts : s \in Nat
  OBVIOUS
<1>3. \A s \in starts, d \in Durations(p, date) : s + d <= latest => s + d \in 0..latest
  BY <1>1, <1>2
<1> DEFINE reached == {t \in {s + d : s \in starts, d \in Durations(p, date)} : t <= latest}
<1>4. reached \subseteq 0..latest
  BY <1>3
<1>5. After(p, date, latest, starts) = starts \cup reached
  BY DEF After
<1> HIDE DEF reached
<1> QED BY <1>4, <1>5

LEMMA LoopEnds ==
  ASSUME NEW p, Prepared(p), NEW date, NEW latest \in Nat
  PROVE  \E f \in [0..latest -> SUBSET (0..latest)] :
           f = [n \in 0..latest |-> Loop(p, date, latest, f, n)]
<1> DEFINE V == SUBSET (0..latest)
           Done(m, f) == \A i \in 0..m : f[i] = Loop(p, date, latest, f, i)
           S == {m \in Nat : \E f \in [0..m -> V] : Done(m, f)}
<1>1. 0 \in S
  <2> DEFINE f == [i \in 0..0 |-> First(p, date, latest)]
  <2>1. First(p, date, latest) \in V BY DEF First
  <2>2. f \in [0..0 -> V] BY <2>1
  <2>3. Done(0, f) BY DEF Loop
  <2> QED BY <2>2, <2>3
<1>2. ASSUME NEW m \in Nat, m < latest, m \in S PROVE m + 1 \in S
  <2>1. PICK f \in [0..m -> V] : Done(m, f) BY <1>2
  <2> DEFINE last == After(p, date, latest, f[m])
             g == [i \in 0..(m + 1) |-> IF i = m + 1 THEN last ELSE f[i]]
  <2>2. last \in V
    <3>1. f[m] \in SUBSET (0..latest) BY <1>2
    <3> QED BY <3>1, AfterStays
  <2> HIDE DEF last, V
  <2>3. g \in [0..(m + 1) -> V] BY <2>2
  <2>4. \A i \in 0..m : g[i] = f[i] BY <1>2
  <2>5. g[m + 1] = last BY <1>2
  <2> HIDE DEF g
  <2>6. ASSUME NEW i \in 0..(m + 1) PROVE g[i] = Loop(p, date, latest, g, i)
    <3>1. CASE i = m + 1
      <4>1. (m + 1) - 1 = m /\ m + 1 # 0 /\ g[m] = f[m] BY <1>2, <2>4
      <4>2. Loop(p, date, latest, g, m + 1) = After(p, date, latest, g[m]) BY <4>1 DEF Loop
      <4> QED BY <2>5, <3>1, <4>1, <4>2 DEF last
    <3>2. CASE i \in 0..m
      <4>1. g[i] = Loop(p, date, latest, f, i) BY <2>1, <2>4, <3>2
      <4>2. CASE i = 0 BY <4>1, <4>2 DEF Loop
      <4>3. CASE i # 0
        <5>1. i - 1 \in 0..m BY <1>2, <3>2, <4>3
        <5> QED BY <2>4, <4>1, <4>3, <5>1 DEF Loop
      <4> QED BY <4>2, <4>3
    <3> QED BY <1>2, <3>1, <3>2
  <2>7. Done(m + 1, g) BY <2>6
  <2>8. m + 1 \in Nat OBVIOUS
  <2> HIDE DEF Done
  <2> QED BY <2>3, <2>7, <2>8
<1>3. latest \in S
  <2>1. S \in SUBSET Nat OBVIOUS
  <2> HIDE DEF S
  <2>2. \A m \in Nat : m < latest /\ m \in S => m + 1 \in S BY <1>2
  <2>3. \A m \in 0..latest : m \in S BY <1>1, <2>1, <2>2, UpTo
  <2> QED BY <2>3
<1>4. PICK f \in [0..latest -> V] : Done(latest, f)
  BY <1>3
<1>5. f = [n \in 0..latest |-> Loop(p, date, latest, f, n)]
  <2> HIDE DEF V
  <2> QED BY <1>4
<1> QED BY <1>5

Latest(p, date) == Max({w.until : w \in WindowsOn(p, date)}) - Min(Durations(p, date))

LEMMA LatestBounds ==
  ASSUME NEW p, Prepared(p), NEW date, Durations(p, date) # {}
  PROVE  /\ Latest(p, date) \in Int
         /\ \A w \in WindowsOn(p, date), d \in Durations(p, date) : w.until - d <= Latest(p, date)
<1> DEFINE Ends == {w.until : w \in WindowsOn(p, date)}
           D == Durations(p, date)
<1>1. D \in SUBSET Nat /\ D # {}
  BY DurationsAreNats
<1>2. WindowsOn(p, date) # {}
  BY DEF Durations, WindowsOn
<1>3. \A w \in WindowsOn(p, date) : w.until \in 0..DayEnd
  BY PreparedCourse DEF WindowsOn
<1>4. Ends \in SUBSET (0..DayEnd) /\ Ends # {} /\ \A x \in Ends : x \in Nat
  BY <1>2, <1>3, TimesAssumption
<1>5. \A w \in WindowsOn(p, date) : w.until \in Ends
  OBVIOUS
<1>6. Latest(p, date) = Max(Ends) - Min(D)
  BY DEF Latest
<1> HIDE DEF Ends, D
<1>7. Max(Ends) \in Nat /\ \A x \in Ends : x <= Max(Ends)
  BY <1>4, TimesAssumption, MaxOfNats
<1>8. Min(D) \in Nat /\ \A d \in D : Min(D) <= d
  BY <1>1, MinOfNats
<1>9. \A x \in Ends, d \in D : x - d <= Max(Ends) - Min(D)
  BY <1>1, <1>4, <1>7, <1>8
<1> QED BY <1>5, <1>6, <1>7, <1>8, <1>9 DEF D

LEMMA StartsAre ==
  ASSUME NEW p, Prepared(p), NEW date, Durations(p, date) # {}, Latest(p, date) \in Nat
  PROVE  \E F \in [0..Latest(p, date) -> SUBSET (0..Latest(p, date))] :
           /\ \A n \in 0..Latest(p, date) : F[n] = Loop(p, date, Latest(p, date), F, n)
           /\ StartTimes(p, date) = F[Latest(p, date)]
<1> DEFINE latest == Latest(p, date)
           F == CHOOSE f : f = [n \in 0..latest |-> Loop(p, date, latest, f, n)]
<1>1. StartTimes(p, date) = IF latest < 0 THEN {} ELSE F[latest]
  BY DEF StartTimes, Loop, First, After, Latest
<1> HIDE DEF latest
<1>2. latest \in Nat /\ ~ (latest < 0)
  BY DEF latest
<1>3. PICK f \in [0..latest -> SUBSET (0..latest)] :
        f = [n \in 0..latest |-> Loop(p, date, latest, f, n)]
  BY <1>2, LoopEnds
<1>4. F = [n \in 0..latest |-> Loop(p, date, latest, F, n)]
  BY <1>3
<1> HIDE DEF F
<1>5. \A n \in 0..latest : F[n] = Loop(p, date, latest, F, n)
  BY <1>4, Zenon
<1>6. \A n \in 0..latest : F[n] \in SUBSET (0..latest)
  <2> DEFINE S == {n \in Nat : n <= latest => F[n] \in SUBSET (0..latest)}
  <2>1. 0 \in S
    <3>1. F[0] = First(p, date, latest) BY <1>2, <1>5 DEF Loop
    <3> QED BY <3>1 DEF First
  <2>2. ASSUME NEW n \in Nat, n < latest, n \in S PROVE n + 1 \in S
    <3>1. n + 1 \in 0..latest /\ (n + 1) - 1 = n /\ n + 1 # 0 BY <1>2, <2>2
    <3>2. F[n + 1] = After(p, date, latest, F[n])
      <4>1. F[n + 1] = Loop(p, date, latest, F, n + 1) BY <1>5, <3>1
      <4> QED BY <3>1, <4>1 DEF Loop
    <3>3. F[n] \in SUBSET (0..latest) BY <1>2, <2>2
    <3>4. F[n + 1] \in SUBSET (0..latest) BY <1>2, <3>2, <3>3, AfterStays
    <3> QED BY <3>4
  <2>3. S \in SUBSET Nat OBVIOUS
  <2>4. \A n \in 0..latest : n \in S
    <3> HIDE DEF S
    <3>1. \A n \in Nat : n < latest /\ n \in S => n + 1 \in S BY <2>2
    <3> QED BY <1>2, <2>1, <2>3, <3>1, UpTo
  <2>5. \A n \in 0..latest : n \in Nat /\ n <= latest BY <1>2
  <2> QED BY <2>4, <2>5
<1>7. F \in [0..latest -> SUBSET (0..latest)]
  BY <1>4, <1>6
<1> QED BY <1>1, <1>2, <1>5, <1>7 DEF latest

LEMMA StartsAreTicks ==
  ASSUME NEW p, Prepared(p), NEW date
  PROVE  StartTimes(p, date) \subseteq Nat
<1>1. CASE Durations(p, date) = {} \/ Latest(p, date) < 0
  BY <1>1 DEF StartTimes, Latest
<1>2. CASE Durations(p, date) # {} /\ ~ (Latest(p, date) < 0)
  <2>1. Latest(p, date) \in Nat BY <1>2, LatestBounds
  <2>2. StartTimes(p, date) \subseteq 0..Latest(p, date) BY <1>2, <2>1, StartsAre
  <2> QED BY <2>1, <2>2
<1> QED BY <1>1, <1>2

(* The start times contain the seeds and are closed under the durations.   *)
LEMMA SeedsStart ==
  ASSUME NEW p, Prepared(p), NEW date, Durations(p, date) # {},
         NEW start \in Seeds(p, date), start \in Nat, start <= Latest(p, date)
  PROVE  start \in StartTimes(p, date)
<1> DEFINE latest == Latest(p, date)
<1>1. latest \in Nat
  BY LatestBounds
<1>2. PICK F \in [0..latest -> SUBSET (0..latest)] :
        /\ \A n \in 0..latest : F[n] = Loop(p, date, latest, F, n)
        /\ StartTimes(p, date) = F[latest]
  BY <1>1, StartsAre
<1> HIDE DEF latest
<1> DEFINE S == {n \in Nat : n <= latest => start \in F[n]}
<1>3. start \in First(p, date, latest)
  BY <1>1 DEF First, latest
<1>4. 0 \in S
  BY <1>1, <1>2, <1>3 DEF Loop
<1>5. ASSUME NEW n \in Nat, n < latest, n \in S PROVE n + 1 \in S
  <2>1. n + 1 \in 0..latest /\ (n + 1) - 1 = n /\ n + 1 # 0 BY <1>1, <1>5
  <2>2. F[n + 1] = After(p, date, latest, F[n])
    <3>1. F[n + 1] = Loop(p, date, latest, F, n + 1) BY <1>2, <2>1
    <3> QED BY <2>1, <3>1 DEF Loop
  <2>3. start \in F[n] BY <1>1, <1>5
  <2> QED BY <2>2, <2>3 DEF After
<1>6. S \in SUBSET Nat /\ latest \in 0..latest /\ latest <= latest
  BY <1>1
<1>7. latest \in S
  <2> HIDE DEF S
  <2>1. \A n \in Nat : n < latest /\ n \in S => n + 1 \in S BY <1>5
  <2>2. \A n \in 0..latest : n \in S BY <1>1, <1>4, <1>6, <2>1, UpTo
  <2> QED BY <1>6, <2>2
<1> QED BY <1>2, <1>6, <1>7

LEMMA StartsFollow ==
  ASSUME NEW p, Prepared(p), NEW date, NEW start \in StartTimes(p, date),
         NEW d \in Durations(p, date), d >= 1, start + d <= Latest(p, date)
  PROVE  start + d \in StartTimes(p, date)
<1> DEFINE latest == Latest(p, date)
<1>1. latest \in Nat /\ start \in Nat /\ d \in Nat
  BY LatestBounds, StartsAreTicks, DurationsAreNats
<1>2. PICK F \in [0..latest -> SUBSET (0..latest)] :
        /\ \A n \in 0..latest : F[n] = Loop(p, date, latest, F, n)
        /\ StartTimes(p, date) = F[latest]
  BY <1>1, StartsAre
<1>3. start + d <= latest
  OBVIOUS
<1> HIDE DEF latest
<1>4. ASSUME NEW n \in 0..latest, n # latest
      PROVE  F[n + 1] = After(p, date, latest, F[n])
  <2>1. n + 1 \in 0..latest /\ (n + 1) - 1 = n /\ n + 1 # 0 BY <1>1, <1>4
  <2>2. F[n + 1] = Loop(p, date, latest, F, n + 1) BY <1>2, <2>1
  <2> QED BY <2>1, <2>2 DEF Loop
<1>5. ASSUME NEW m \in 0..latest, NEW n \in 0..latest, m <= n
      PROVE  F[m] \subseteq F[n]
  <2> DEFINE S == {k \in Nat : m <= k /\ k <= latest => F[m] \subseteq F[k]}
  <2>1. 0 \in S BY <1>1
  <2>2. ASSUME NEW k \in Nat, k < latest, k \in S PROVE k + 1 \in S
    <3>1. CASE k + 1 = m BY <3>1
    <3>2. CASE k + 1 # m
      <4>1. F[k + 1] = After(p, date, latest, F[k]) BY <1>1, <1>4, <2>2
      <4>2. F[k] \subseteq F[k + 1] BY <4>1 DEF After
      <4> QED BY <1>1, <2>2, <3>2, <4>2
    <3> QED BY <3>1, <3>2
  <2>3. S \in SUBSET Nat OBVIOUS
  <2>4. \A k \in 0..latest : k \in S
    <3> HIDE DEF S
    <3>1. \A k \in Nat : k < latest /\ k \in S => k + 1 \in S BY <2>2
    <3> QED BY <1>1, <2>1, <2>3, <3>1, UpTo
  <2> QED BY <1>1, <1>5, <2>4
(* A start time is found after as many steps as it is late.                *)
<1>6. ASSUME NEW n \in 0..latest PROVE \A x \in F[n] : x \in F[x]
  <2> DEFINE S == {k \in Nat : k <= latest => \A x \in F[k] : x \in F[x]}
  <2>1. 0 \in S
    <3> SUFFICES ASSUME NEW x \in F[0] PROVE x \in F[x]
      OBVIOUS
    <3>1. 0 \in 0..latest /\ x \in 0..latest /\ 0 <= x BY <1>1
    <3> QED BY <1>5, <3>1
  <2>2. ASSUME NEW k \in Nat, k < latest, k \in S PROVE k + 1 \in S
    <3> SUFFICES ASSUME NEW x \in F[k + 1] PROVE x \in F[x]
      OBVIOUS
    <3>0. k \in 0..latest /\ k # latest /\ k + 1 \in 0..latest BY <1>1, <2>2
    <3>1. F[k + 1] = After(p, date, latest, F[k]) BY <1>4, <3>0
    <3>2. CASE x \in F[k] BY <1>1, <2>2, <3>2
    <3>3. CASE x \notin F[k]
      <4>1. PICK y \in F[k], e \in Durations(p, date) : x = y + e /\ x <= latest
        BY <3>1, <3>3 DEF After
      <4>2. y \in F[y] /\ y \in 0..latest BY <1>1, <2>2, <3>0
      <4>3. e \in Nat BY DurationsAreNats
      <4>4. CASE e = 0 BY <3>3, <4>1, <4>2, <4>4
      <4>5. CASE e # 0
        <5>1. y + 1 \in 0..latest /\ y # latest /\ x \in 0..latest /\ y + 1 <= x
          BY <1>1, <4>1, <4>2, <4>3, <4>5
        <5>2. F[y + 1] = After(p, date, latest, F[y]) BY <1>4, <4>2, <5>1
        <5>3. x \in F[y + 1] BY <4>1, <4>2, <5>2 DEF After
        <5> QED BY <1>5, <5>1, <5>3
      <4> QED BY <4>4, <4>5
    <3> QED BY <3>2, <3>3
  <2>3. S \in SUBSET Nat OBVIOUS
  <2>4. \A k \in 0..latest : k \in S
    <3> HIDE DEF S
    <3>1. \A k \in Nat : k < latest /\ k \in S => k + 1 \in S BY <2>2
    <3> QED BY <1>1, <2>1, <2>3, <3>1, UpTo
  <2> QED BY <1>1, <2>4
<1>7. start \in F[start] /\ start \in 0..latest /\ start # latest /\ start + 1 \in 0..latest
  BY <1>1, <1>2, <1>3, <1>6
<1>8. F[start + 1] = After(p, date, latest, F[start])
  BY <1>4, <1>7
<1>9. start + d \in F[start + 1]
  BY <1>3, <1>7, <1>8 DEF After
<1>10. latest \in 0..latest /\ start + 1 <= latest
  BY <1>1, <1>7
<1> QED BY <1>2, <1>5, <1>7, <1>9, <1>10
-----------------------------------------------------------------------------
(* What a candidate is.                                                    *)
Candidate(p, c, s) ==
  /\ s.course = c /\ s.ref = <<c, s.date>>
  /\ s.units \in p.facts.course[c].min..p.facts.course[c].max
  /\ s.date \in Int /\ s.date \notin p.unavailable \cup p.facts.holidays
  /\ Planned(p, c, s.date)
  /\ s.start \in Nat /\ s.end \in Nat
  /\ s.end - s.start = Duration(s.units) /\ s.start < s.end
  /\ BeforeExams(p, s)
  /\ \E w \in Windows(p, c) : w.day = Weekday(s.date) /\ w.from <= s.start /\ s.end <= w.until
  /\ s.lecturer \in UsableLecturers(p, c) /\ s.room \in UsableRooms(p, c)
  /\ ~ Unavailable(p.facts.periods, s.lecturer, s) /\ ~ Unavailable(p.facts.periods, s.room, s)
  /\ \A f \in Protected(p) : Meet(s, f) => Shared(s, f) = {}

LEMMA OfferedAreCandidates ==
  ASSUME NEW p, Prepared(p), NEW c \in p.selected, NEW s \in Offered(p, c)
  PROVE  Candidate(p, c, s)
<1>1. PICK date \in TeachingDates(p, c) : s \in SessionsAt(p, c, date, StartTimes(p, date))
  BY DEF Offered
<1>2. PICK start \in StartTimes(p, date), units \in p.facts.course[c].min..p.facts.course[c].max,
           lecturer \in UsableLecturers(p, c), room \in UsableRooms(p, c) :
        s = Session(p, c, date, start, units, lecturer, room)
  BY <1>1 DEF SessionsAt
<1>3. /\ \E w \in Windows(p, c) : w.day = Weekday(date) /\ w.from <= s.start /\ s.end <= w.until
      /\ BeforeExams(p, s) /\ Bookable(p, s)
  BY <1>1 DEF SessionsAt
<1>4. /\ s.course = c /\ s.ref = <<c, date>> /\ s.date = date /\ s.units = units
      /\ s.start = start /\ s.end = start + Duration(units)
      /\ s.lecturer = lecturer /\ s.room = room
  BY <1>2 DEF Session
<1>5. start \in Nat
  BY <1>2, StartsAreTicks
<1>6. Duration(units) \in Nat \ {0}
  <2>1. units \in Nat \ {0} BY <1>2, PreparedCourse
  <2> QED BY <2>1, DurationIsPositive
<1>7. /\ s.start \in Nat /\ s.end \in Nat
      /\ s.end - s.start = Duration(units) /\ s.start < s.end
  BY <1>4, <1>5, <1>6
<1>8. /\ date \in Int /\ date \notin p.unavailable \cup p.facts.holidays
      /\ Planned(p, c, date)
  <2>1. p.facts.constraints[c].from \in Int /\ p.facts.constraints[c].until \in Int
    BY PreparedCourse
  <2> QED BY <1>1, <2>1 DEF TeachingDates, Planned
<1>9. ASSUME NEW f \in Protected(p), Meet(s, f) PROVE Shared(s, f) = {}
  <2>1. \A field \in {"cohort", "lecturer", "room"} : f[field] # s[field]
    BY <1>3, <1>9 DEF Bookable, Occupied
  <2>2. f.cohort # s.cohort /\ f.lecturer # s.lecturer /\ f.room # s.room
    BY <2>1
  <2> QED BY <2>2 DEF Shared
<1>10. ~ Unavailable(p.facts.periods, s.lecturer, s) /\ ~ Unavailable(p.facts.periods, s.room, s)
  BY <1>3 DEF Bookable
<1> QED BY <1>2, <1>3, <1>4, <1>7, <1>8, <1>9, <1>10 DEF Candidate

(* Of an admitted arrangement every session is one of its course, and no   *)
(* two of them collide or are of one course and date.                      *)
LEMMA AdmittedAre ==
  ASSUME NEW p, NEW offered, \A c \in p.selected : \A s \in offered[c] : s.course = c,
         NEW a, Admitted(p, a, offered)
  PROVE  /\ \A s \in a : s.course \in p.selected /\ s \in offered[s.course]
         /\ \A s, t \in a : s.course = t.course /\ s.date = t.date => s = t
         /\ \A s, t \in a : s # t /\ Meet(s, t) => Shared(s, t) = {}
<1>1. ASSUME NEW s \in a PROVE s.course \in p.selected /\ s \in offered[s.course]
  <2>1. a \subseteq UNION {offered[c] : c \in p.selected} BY DEF Admitted
  <2>2. PICK c \in p.selected : s \in offered[c] BY <2>1
  <2> QED BY <2>2
<1>2. ASSUME NEW s \in a, NEW t \in a, s.course = t.course, s.date = t.date PROVE s = t
  <2> DEFINE plan == {x \in a : x.course = s.course}
  <2>1. s.course \in p.selected BY <1>1
  <2>2. \A x, y \in plan : x.date = y.date => x = y BY <2>1 DEF Admitted
  <2>3. s \in plan /\ t \in plan BY <1>2
  <2> HIDE DEF plan
  <2> QED BY <1>2, <2>2, <2>3
<1>3. ASSUME NEW s \in a, NEW t \in a, s # t, Meet(s, t) PROVE Shared(s, t) = {}
  <2>1. s.date = t.date BY <1>3 DEF Meet
  <2>2. s.course # t.course BY <1>2, <1>3, <2>1
  <2>3. s.course \in p.selected /\ t.course \in p.selected BY <1>1, <1>3
  <2> DEFINE plan(c) == {x \in a : x.course = c}
  <2>4. \A c, d \in p.selected : c # d => Disjoint(plan(c), plan(d)) BY DEF Admitted
  <2>5. s \in plan(s.course) /\ t \in plan(t.course) OBVIOUS
  <2> HIDE DEF plan
  <2>6. Disjoint(plan(s.course), plan(t.course)) BY <2>2, <2>3, <2>4
  <2> QED BY <1>3, <2>5, <2>6 DEF Disjoint
<1> QED BY <1>1, <1>2, <1>3

(* Of one of the offered sessions each is a candidate.                     *)
LEMMA AdmittedSessions ==
  ASSUME NEW p, Prepared(p), NEW a, Admitted(p, a, [c \in p.selected |-> Offered(p, c)])
  PROVE  /\ \A s \in a : s.course \in p.selected /\ Candidate(p, s.course, s)
         /\ \A s, t \in a : s.course = t.course /\ s.date = t.date => s = t
         /\ \A s, t \in a : s # t /\ Meet(s, t) => Shared(s, t) = {}
<1> DEFINE offered == [c \in p.selected |-> Offered(p, c)]
<1>1. \A c \in p.selected : \A s \in offered[c] : Candidate(p, c, s) /\ s.course = c
  BY OfferedAreCandidates DEF Candidate
<1>2. Admitted(p, a, offered)
  OBVIOUS
<1> HIDE DEF offered
<1> QED BY <1>1, <1>2, AdmittedAre

(* The exact check before a save.                                          *)
LEMMA AdmittedIsExact ==
  ASSUME NEW p, Prepared(p), NEW a, Admitted(p, a, [c \in p.selected |-> Offered(p, c)])
  PROVE  ValidExactCandidate(p, a)
<1>1. ASSUME NEW s \in a PROVE ExactSession(p, s, Protected(p) \cup a)
  <2>1. Candidate(p, s.course, s)
    BY <1>1, AdmittedSessions
  <2>2. ASSUME NEW f \in (Protected(p) \cup a) \ {s}, Meet(s, f) PROVE Shared(s, f) = {}
    BY <1>1, <2>1, <2>2, AdmittedSessions DEF Candidate
  <2> QED BY <2>1, <2>2 DEF Candidate, ExactSession
<1>2. ASSUME NEW c \in p.selected
      PROVE  /\ UnitsOf(PlanOf(a, c)) <= p.facts.course[c].total
             /\ \A s, t \in PlanOf(a, c) : s.date = t.date => s = t
  BY DEF Admitted, PlanOf
<1> QED BY <1>1, <1>2 DEF ValidExactCandidate
-----------------------------------------------------------------------------
(* The alerts of the schedule page, once the arrangement is saved.         *)
RecordOf(p, s) == ValidationRecord(s.ref, s, s.cohort, p.facts.size[s.course])

LEMMA NoConflict ==
  ASSUME NEW p, Prepared(p), NEW a, Admitted(p, a, [c \in p.selected |-> Offered(p, c)]),
         NEW s \in a, NEW t \in Accepted(p, a), s.ref # t.ref, Meet(s, t)
  PROVE  Shared(s, t) = {}
<1>1. CASE t \in a
  <2>1. s # t OBVIOUS
  <2> QED BY <1>1, <2>1, AdmittedSessions
<1>2. CASE t \notin a
  <2>1. t \in Protected(p) BY <1>2 DEF Accepted, Protected
  <2>2. Candidate(p, s.course, s) BY AdmittedSessions
  <2> QED BY <2>1, <2>2 DEF Candidate
<1> QED BY <1>1, <1>2

(* The place of a session names it.                                        *)
LEMMA SamePair ==
  ASSUME NEW a, NEW b, NEW c, NEW d, <<a, b>> = <<c, d>>
  PROVE  a = c /\ b = d
OBVIOUS

LEMMA RefsAreUnique ==
  ASSUME NEW p, Prepared(p), NEW a, Admitted(p, a, [c \in p.selected |-> Offered(p, c)]),
         NEW s \in a, NEW t \in Accepted(p, a), s.ref = t.ref
  PROVE  s = t
<1>1. s.course \in p.selected /\ s.ref = <<s.course, s.date>>
  BY AdmittedSessions DEF Candidate
<1>2. CASE t \in a
  <2>1. t.ref = <<t.course, t.date>> BY <1>2, AdmittedSessions DEF Candidate
  <2>2. <<s.course, s.date>> = <<t.course, t.date>> BY <1>1, <2>1
  <2>3. s.course = t.course /\ s.date = t.date BY <2>2, SamePair
  <2> QED BY <1>2, <2>3, AdmittedSessions
<1>3. CASE t \notin a
  <2>1. t \in p.drafts /\ t.course \notin p.selected BY <1>3 DEF Accepted
  <2>2. t.ref = <<t.course, t.date>> BY <2>1 DEF Prepared
  <2>3. <<s.course, s.date>> = <<t.course, t.date>> BY <1>1, <2>2
  <2>4. s.course = t.course BY <2>3, SamePair
  <2> QED BY <1>1, <2>1, <2>4
<1> QED BY <1>2, <1>3

LEMMA NoIssue ==
  ASSUME NEW p, Prepared(p), NEW c \in p.selected, NEW s, Candidate(p, c, s)
  PROVE  Issues(RecordOf(p, s), p.facts) = {}
<1> DEFINE r == RecordOf(p, s)
<1>1. /\ r.course = c /\ r.date = s.date /\ r.start = s.start /\ r.end = s.end
      /\ r.lecturer = s.lecturer /\ r.room = s.room /\ r.required = p.facts.size[c]
  BY DEF RecordOf, ValidationRecord, Candidate
<1> HIDE DEF r
<1>2. r.lecturer \in p.facts.lecturers[r.course] \cap p.facts.activeLecturers
  BY <1>1 DEF Candidate, UsableLecturers
<1>3. /\ r.room \in p.facts.rooms[r.course] \cap p.facts.activeRooms
      /\ p.facts.capacity[r.room] >= p.facts.size[c]
  BY <1>1 DEF Candidate, UsableRooms
<1>4. r.room \in DOMAIN p.facts.capacity
  BY <1>1, <1>3, PreparedCourse
<1>5. ~ (p.facts.capacity[r.room] < r.required)
  <2>1. p.facts.capacity[r.room] \in Nat /\ p.facts.size[c] \in Nat
    BY <1>4, PreparedCourse DEF Prepared
  <2> QED BY <1>1, <1>3, <2>1
<1>6. ~ Unavailable(p.facts.periods, r.lecturer, r) /\ ~ Unavailable(p.facts.periods, r.room, r)
  <2>1. ~ Unavailable(p.facts.periods, s.lecturer, s) /\ ~ Unavailable(p.facts.periods, s.room, s)
    BY DEF Candidate
  <2> QED BY <1>1, <2>1 DEF Unavailable, Touches
<1>7. p.facts.holidays # HolidaysMissing /\ r.date \notin p.facts.holidays
  BY <1>1 DEF Candidate, Prepared
<1> QED BY <1>2, <1>3, <1>4, <1>5, <1>6, <1>7 DEF Issues, r

LEMMA NoConstraintIssue ==
  ASSUME NEW p, Prepared(p), NEW c \in p.selected, NEW s, Candidate(p, c, s)
  PROVE  ConstraintIssues(s, p.facts) = {}
<1> DEFINE constraints == p.facts.constraints[c]
<1>1. /\ s.course = c /\ c \in DOMAIN p.facts.constraints
      /\ constraints.studyType \in DOMAIN p.facts.windows
      /\ constraints.from \in Int /\ constraints.until \in Int
  BY PreparedCourse DEF Candidate
<1>2. PeriodIssues(s, constraints.from, constraints.until) = {}
  <2>1. s.date \in Int /\ constraints.from <= s.date /\ s.date <= constraints.until
    BY DEF Candidate, Planned
  <2> QED BY <1>1, <2>1 DEF PeriodIssues
<1>3. WindowIssues(s, Windows(p, c)) = {}
  <2>1. PICK w \in Windows(p, c) : w.day = Weekday(s.date) /\ w.from <= s.start /\ s.end <= w.until
    BY DEF Candidate
  <2> QED BY <2>1 DEF WindowIssues, Fits
<1> QED BY <1>1, <1>2, <1>3 DEF ConstraintIssues, Windows

LEMMA NothingFound ==
  ASSUME NEW p, Prepared(p), NEW a, Admitted(p, a, [c \in p.selected |-> Offered(p, c)]), NEW s \in a,
         NEW f \in EvaluateOccurrences({RecordOf(p, t) : t \in Accepted(p, a)}, p.facts)
  PROVE  s.ref \notin f.sessions
<1> DEFINE records == {RecordOf(p, t) : t \in Accepted(p, a)}
<1>1. ASSUME NEW t \in Accepted(p, a)
      PROVE  LET r == RecordOf(p, t)
             IN  /\ r.ref = t.ref /\ r.date = t.date /\ r.start = t.start /\ r.end = t.end
                 /\ r.lecturer = t.lecturer /\ r.room = t.room /\ r.cohort = t.cohort
  BY DEF RecordOf, ValidationRecord
<1>2. s \in Accepted(p, a)
  BY DEF Accepted
<1>3. ASSUME NEW t \in Accepted(p, a), NEW u \in Accepted(p, a), t.ref # u.ref,
             Meet(RecordOf(p, t), RecordOf(p, u)),
             Shared(RecordOf(p, t), RecordOf(p, u)) # {}
      PROVE  s.ref # t.ref /\ s.ref # u.ref
  <2>1. Meet(t, u) /\ Meet(u, t)
    BY <1>1, <1>3 DEF Meet
  <2>2. Shared(t, u) # {} /\ Shared(u, t) # {}
    BY <1>1, <1>3 DEF Shared
  <2>3. s # t BY <1>3, <2>1, <2>2, NoConflict
  <2>4. s # u BY <1>3, <2>1, <2>2, NoConflict
  <2> QED BY <2>3, <2>4, RefsAreUnique
<1>4. CASE f \in Conflicts(records)
  <2>1. PICK t \in Accepted(p, a), u \in Accepted(p, a) :
          /\ t.ref # u.ref /\ Meet(RecordOf(p, t), RecordOf(p, u))
          /\ Shared(RecordOf(p, t), RecordOf(p, u)) # {}
          /\ f.sessions = {t.ref, u.ref}
    <3>1. PICK x \in records, y \in records :
            /\ x.ref # y.ref /\ Meet(x, y)
            /\ \E issue \in Shared(x, y) : f = [issue |-> issue, sessions |-> {x.ref, y.ref}]
      <4> HIDE DEF records
      <4> QED BY <1>4 DEF Conflicts
    <3>2. PICK t \in Accepted(p, a), u \in Accepted(p, a) : x = RecordOf(p, t) /\ y = RecordOf(p, u)
      OBVIOUS
    <3> QED BY <1>1, <3>1, <3>2
  <2> QED BY <1>3, <2>1
<1>5. CASE f \notin Conflicts(records)
  <2>1. PICK t \in Accepted(p, a) :
          Issues(RecordOf(p, t), p.facts) # {} /\ f.sessions = {RecordOf(p, t).ref}
    BY <1>5 DEF EvaluateOccurrences
  <2>2. f.sessions = {t.ref} BY <1>1, <2>1
  <2>3. s # t
    <3>1. s.course \in p.selected /\ Candidate(p, s.course, s) BY AdmittedSessions
    <3>2. Issues(RecordOf(p, s), p.facts) = {} BY <3>1, NoIssue
    <3> QED BY <2>1, <3>2
  <2> QED BY <2>2, <2>3, RefsAreUnique
<1> QED BY <1>4, <1>5

LEMMA NoAlerts ==
  ASSUME NEW p, Prepared(p), NEW a, Admitted(p, a, [c \in p.selected |-> Offered(p, c)]), NEW s \in a
  PROVE  ValidationAlerts(Accepted(p, a), p.facts)[s] = {}
<1> DEFINE found == EvaluateOccurrences({RecordOf(p, t) : t \in Accepted(p, a)}, p.facts)
           raised(t) == {f.issue : f \in {f \in found : t.ref \in f.sessions}} \cup
                        ConstraintIssues(t, p.facts)
<1>1. raised(s) = {}
  <2>1. {f \in found : s.ref \in f.sessions} = {} BY NothingFound
  <2>2. ConstraintIssues(s, p.facts) = {}
    <3>1. s.course \in p.selected /\ Candidate(p, s.course, s) BY AdmittedSessions
    <3> QED BY <3>1, NoConstraintIssue
  <2> HIDE DEF found
  <2> QED BY <2>1, <2>2
<1>2. s \in Accepted(p, a)
  BY DEF Accepted
<1>3. ValidationAlerts(Accepted(p, a), p.facts) =
        [t \in Accepted(p, a) |->
           {[code |-> issue, related |-> Related(found, t.ref, issue)] : issue \in raised(t)}]
  BY DEF ValidationAlerts, RecordOf
<1> HIDE DEF found, raised
<1> QED BY <1>1, <1>2, <1>3
-----------------------------------------------------------------------------
LEMMA OfferedIsSafe == TypeOK => OffersAreSafe
<1> SUFFICES ASSUME TypeOK, offer # NoOffer
             PROVE  LET p == Input(problem)
                        sessions == Arrangement(problem, offer.arrangement)
                        alerts == ValidationAlerts(Accepted(p, sessions), p.facts)
                    IN  /\ ValidExactCandidate(p, sessions)
                        /\ \A s \in sessions : alerts[s] = {}
  BY DEF OffersAreSafe
<1> DEFINE p == Input(problem)
           a == Arrangement(problem, offer.arrangement)
<1>1. problem \in Problems /\ offer.arrangement \in Space(problem)
  BY DEF TypeOK
<1>2. Prepared(p) /\ Admitted(p, a, [c \in p.selected |-> Offered(p, c)])
  BY <1>1, InputAssumption, SolutionsAssumption
<1> HIDE DEF p, a
<1>3. ValidExactCandidate(p, a)
  BY <1>2, AdmittedIsExact
<1>4. \A s \in a : ValidationAlerts(Accepted(p, a), p.facts)[s] = {}
  BY <1>2, NoAlerts
<1> QED BY <1>3, <1>4 DEF p, a

(* Whatever is offered passes the exact check of apply_operation and raises*)
(* no alert on the schedule page: of all prepared inputs, whichever        *)
(* solution of the constraints the solver found.                           *)
THEOREM OffersAreSafeAlways == Spec => []OffersAreSafe
BY TypeCorrect, OfferedIsSafe, PTL

(* The search goes on as it does while what it offered is saved and edited,*)
(* so that what holds of it holds beside that.                             *)
THEOREM SearchGoesOn == SavedSpec => Spec
<1>1. SavedInit => Init
  BY DEF SavedInit
<1>2. [SavedNext]_<<vars, semester>> => [Next]_vars
  BY DEF SavedNext
<1> QED BY <1>1, <1>2, PTL DEF SavedSpec, Spec
-----------------------------------------------------------------------------
(* A sum over a finite set, as of the units of sessions: a recursive       *)
(* function on its subsets, which there is, and which does not depend on   *)
(* the order in which the elements are taken.                              *)
AnyOf(T) == CHOOSE s \in T : TRUE
Sums(v, f, T) == IF T = {} THEN 0 ELSE v[AnyOf(T)] + f[T \ {AnyOf(T)}]
Counts(v, f, S) == f = [T \in SUBSET S |-> Sums(v, f, T)]
Total(v, S) == SumOver(S, LAMBDA s : v[s])

LEMMA SumExists ==
  ASSUME NEW S, IsFiniteSet(S), NEW v \in [S -> Int]
  PROVE  \E f \in [SUBSET S -> Int] : Counts(v, f, S)
<1> DEFINE Small(m) == {T \in SUBSET S : Cardinality(T) <= m}
           Done(m, f) == \A T \in Small(m) : f[T] = Sums(v, f, T)
           N == {m \in Nat : \E f \in [Small(m) -> Int] : Done(m, f)}
<1>0. \A T \in SUBSET S : /\ IsFiniteSet(T) /\ Cardinality(T) \in Nat
                          /\ Cardinality(T) = 0 <=> T = {}
                          /\ Cardinality(T) <= Cardinality(S)
  BY FS_Subset, FS_CardinalityType, FS_EmptySet
<1>1. 0 \in N
  <2> DEFINE f == [T \in Small(0) |-> 0]
  <2>1. f \in [Small(0) -> Int] OBVIOUS
  <2>2. \A T \in Small(0) : T = {} BY <1>0
  <2>3. Done(0, f) BY <2>2 DEF Sums
  <2> QED BY <2>1, <2>3
<1>2. ASSUME NEW m \in Nat, m < Cardinality(S), m \in N PROVE m + 1 \in N
  <2>1. PICK f \in [Small(m) -> Int] : Done(m, f) BY <1>2
  <2> DEFINE g == [T \in Small(m + 1) |-> Sums(v, f, T)]
  <2>2. ASSUME NEW T \in Small(m + 1), T # {}
        PROVE  AnyOf(T) \in T /\ T \ {AnyOf(T)} \in Small(m)
    <3>1. AnyOf(T) \in T BY <2>2 DEF AnyOf
    <3>2. Cardinality(T \ {AnyOf(T)}) = Cardinality(T) - 1
      BY <1>0, <3>1, FS_RemoveElement
    <3> QED BY <1>0, <3>1, <3>2
  <2>3. g \in [Small(m + 1) -> Int]
    <3> SUFFICES ASSUME NEW T \in Small(m + 1) PROVE Sums(v, f, T) \in Int
      OBVIOUS
    <3>1. CASE T = {} BY <3>1 DEF Sums
    <3>2. CASE T # {}
      <4>1. AnyOf(T) \in T /\ T \ {AnyOf(T)} \in Small(m) BY <2>2, <3>2
      <4>2. f[T \ {AnyOf(T)}] \in Int
        <5> HIDE DEF Small
        <5> QED BY <4>1
      <4>3. v[AnyOf(T)] \in Int BY <4>1
      <4> QED BY <3>2, <4>2, <4>3 DEF Sums
    <3> QED BY <3>1, <3>2
  <2>4. ASSUME NEW T \in Small(m) PROVE g[T] = f[T]
    <3>1. T \in Small(m + 1) BY <1>0
    <3>2. f[T] = Sums(v, f, T) BY <2>1
    <3> HIDE DEF Small
    <3> QED BY <3>1, <3>2
  <2>5. Done(m + 1, g)
    <3> SUFFICES ASSUME NEW T \in Small(m + 1) PROVE g[T] = Sums(v, g, T)
      OBVIOUS
    <3>1. g[T] = Sums(v, f, T) OBVIOUS
    <3>2. CASE T = {} BY <3>1, <3>2 DEF Sums
    <3>3. CASE T # {}
      <4>1. g[T \ {AnyOf(T)}] = f[T \ {AnyOf(T)}] BY <2>2, <2>4, <3>3
      <4> HIDE DEF g, Small
      <4> QED BY <3>1, <3>3, <4>1 DEF Sums
    <3> QED BY <3>2, <3>3
  <2> HIDE DEF Small, Done, g
  <2> QED BY <2>3, <2>5
<1>3. Cardinality(S) \in N
  <2>1. N \in SUBSET Nat /\ Cardinality(S) \in Nat BY <1>0
  <2> HIDE DEF N
  <2>2. \A m \in Nat : m < Cardinality(S) /\ m \in N => m + 1 \in N BY <1>2
  <2>3. \A m \in 0..Cardinality(S) : m \in N BY <1>1, <2>1, <2>2, UpTo
  <2> QED BY <2>1, <2>3
<1>4. PICK f \in [Small(Cardinality(S)) -> Int] : Done(Cardinality(S), f)
  BY <1>3
<1>5. Small(Cardinality(S)) = SUBSET S
  BY <1>0
<1> HIDE DEF Small
<1>6. f \in [SUBSET S -> Int] /\ \A T \in SUBSET S : f[T] = Sums(v, f, T)
  BY <1>4, <1>5
<1> QED BY <1>6 DEF Counts

LEMMA OneByOne ==
  ASSUME NEW S, IsFiniteSet(S), NEW P, {} \in P,
         \A T \in SUBSET S : T # {} /\ T \ {AnyOf(T)} \in P => T \in P
  PROVE  SUBSET S \subseteq P
<1> SUFFICES ASSUME NEW T \in SUBSET S PROVE T \in P
  OBVIOUS
<1> DEFINE N == {m \in Nat : \A U \in SUBSET S : Cardinality(U) = m => U \in P}
<1>0. \A U \in SUBSET S : /\ IsFiniteSet(U) /\ Cardinality(U) \in Nat
                          /\ Cardinality(U) = 0 <=> U = {}
                          /\ \A t \in U : Cardinality(U \ {t}) = Cardinality(U) - 1
  BY FS_Subset, FS_CardinalityType, FS_EmptySet, FS_RemoveElement
<1>1. 0 \in N
  BY <1>0
<1>2. ASSUME NEW m \in Nat, m \in N PROVE m + 1 \in N
  <2> SUFFICES ASSUME NEW U \in SUBSET S, Cardinality(U) = m + 1 PROVE U \in P
    OBVIOUS
  <2>1. U # {} /\ AnyOf(U) \in U BY <1>0 DEF AnyOf
  <2>2. Cardinality(U \ {AnyOf(U)}) = m /\ U \ {AnyOf(U)} \in SUBSET S BY <1>0, <2>1
  <2> QED BY <1>2, <2>1, <2>2
<1>3. N \in SUBSET Nat /\ Cardinality(T) \in Nat
  BY <1>0
<1> HIDE DEF N
<1>4. \A m \in Nat : m < Cardinality(T) /\ m \in N => m + 1 \in N
  BY <1>2
<1>5. Cardinality(T) \in N
  <2>1. \A m \in 0..Cardinality(T) : m \in N BY <1>1, <1>3, <1>4, UpTo
  <2> QED BY <1>3, <2>1
<1> QED BY <1>5 DEF N

LEMMA SumsAreInts ==
  ASSUME NEW S, IsFiniteSet(S), NEW v \in [S -> Int], NEW f, Counts(v, f, S)
  PROVE  f \in [SUBSET S -> Int]
<1> DEFINE P == {T \in SUBSET S : f[T] \in Int}
<1>1. \A T \in SUBSET S : f[T] = Sums(v, f, T)
  BY DEF Counts
<1>2. {} \in P
  <2>1. f[{}] = 0 BY <1>1 DEF Sums
  <2> QED BY <2>1
<1>3. \A T \in SUBSET S : T # {} /\ T \ {AnyOf(T)} \in P => T \in P
  <2> SUFFICES ASSUME NEW T \in SUBSET S, T # {}, f[T \ {AnyOf(T)}] \in Int PROVE f[T] \in Int
    OBVIOUS
  <2>1. v[AnyOf(T)] \in Int BY DEF AnyOf
  <2>2. f[T] = v[AnyOf(T)] + f[T \ {AnyOf(T)}] BY <1>1 DEF Sums
  <2> QED BY <2>1, <2>2
<1> HIDE DEF P
<1>4. SUBSET S \subseteq P
  BY <1>2, <1>3, OneByOne
<1> QED BY <1>4 DEF P, Counts

LEMMA TotalCounts ==
  ASSUME NEW S, IsFiniteSet(S), NEW v \in [S -> Int]
  PROVE  \E f \in [SUBSET S -> Int] : Counts(v, f, S) /\ Total(v, S) = f[S]
<1> DEFINE g == CHOOSE f : Counts(v, f, S)
<1>1. PICK f \in [SUBSET S -> Int] : Counts(v, f, S)
  BY SumExists
<1>2. Counts(v, g, S)
  BY <1>1
<1>3. Total(v, S) = g[S]
  BY DEF Total, SumOver, MapThenSumSet, MapThenFoldSet, Counts, Sums, AnyOf
<1> HIDE DEF g
<1>4. g \in [SUBSET S -> Int]
  BY <1>2, SumsAreInts
<1> QED BY <1>2, <1>3, <1>4

Adds(v, f, T, s) == f[T] = v[s] + f[T \ {s}]

LEMMA AnyOrder ==
  ASSUME NEW S, IsFiniteSet(S), NEW v \in [S -> Int],
         NEW f \in [SUBSET S -> Int], Counts(v, f, S)
  PROVE  \A T \in SUBSET S : \A s \in T : Adds(v, f, T, s)
<1> SUFFICES ASSUME NEW T \in SUBSET S, NEW s \in T
             PROVE  f[T] = v[s] + f[T \ {s}]
  BY DEF Adds
<1> DEFINE Right(m) == \A U \in SUBSET S : Cardinality(U) = m =>
                         \A t \in U : f[U] = v[t] + f[U \ {t}]
           N == {m \in Nat : Right(m)}
<1>0. \A U \in SUBSET S : /\ IsFiniteSet(U) /\ Cardinality(U) \in Nat
                          /\ Cardinality(U) = 0 <=> U = {}
                          /\ \A t \in U : Cardinality(U \ {t}) = Cardinality(U) - 1
  BY FS_Subset, FS_CardinalityType, FS_EmptySet, FS_RemoveElement
<1>1. 0 \in N
  BY <1>0
<1>2. ASSUME NEW m \in Nat, m \in N PROVE m + 1 \in N
  <2> SUFFICES ASSUME NEW U \in SUBSET S, Cardinality(U) = m + 1, NEW t \in U
               PROVE  f[U] = v[t] + f[U \ {t}]
    OBVIOUS
  <2> DEFINE a == AnyOf(U)
  <2>1. a \in U BY DEF AnyOf
  <2>2. f[U] = v[a] + f[U \ {a}]
    BY DEF Counts, Sums
  <2> HIDE DEF a
  <2>3. CASE t = a BY <2>2, <2>3
  <2>4. CASE t # a
    <3>1. /\ U \ {a} \in SUBSET S /\ Cardinality(U \ {a}) = m /\ t \in U \ {a}
          /\ U \ {t} \in SUBSET S /\ Cardinality(U \ {t}) = m /\ a \in U \ {t}
      BY <1>0, <2>1, <2>4
    <3>2. f[U \ {a}] = v[t] + f[(U \ {a}) \ {t}] /\ f[U \ {t}] = v[a] + f[(U \ {t}) \ {a}]
      BY <1>2, <3>1
    <3> DEFINE rest == f[(U \ {a}) \ {t}]
    <3>3. (U \ {t}) \ {a} = (U \ {a}) \ {t} OBVIOUS
    <3>4. f[U \ {a}] = v[t] + rest /\ f[U \ {t}] = v[a] + rest
      BY <3>2, <3>3
    <3>5. v[t] \in Int /\ v[a] \in Int /\ rest \in Int
      BY <2>1
    <3> HIDE DEF rest
    <3>6. f[U] = v[a] + (v[t] + rest) BY <2>2, <3>4
    <3>7. v[a] + (v[t] + rest) = v[t] + (v[a] + rest) BY <3>5
    <3> QED BY <3>4, <3>6, <3>7
  <2> QED BY <2>3, <2>4
<1>3. Cardinality(T) \in N
  <2>1. N \in SUBSET Nat /\ Cardinality(T) \in Nat BY <1>0
  <2> HIDE DEF N
  <2>2. \A m \in Nat : m < Cardinality(T) /\ m \in N => m + 1 \in N BY <1>2
  <2>3. \A m \in 0..Cardinality(T) : m \in N BY <1>1, <2>1, <2>2, UpTo
  <2> QED BY <2>1, <2>3
<1> QED BY <1>3

(* The sum stays the same under another name for each element.            *)
LEMMA SameTotal ==
  ASSUME NEW S, IsFiniteSet(S), NEW v \in [S -> Int], NEW R, NEW w \in [R -> Int],
         NEW h \in Bijection(S, R), \A s \in S : w[h[s]] = v[s]
  PROVE  Total(w, R) = Total(v, S)
<1>1. /\ h \in [S -> R] /\ \A r \in R : \E s \in S : h[s] = r
      /\ \A s, t \in S : h[s] = h[t] => s = t
  BY DEF Bijection, Injection, Surjection, IsInjective
<1>2. IsFiniteSet(R)
  BY FS_Surjection DEF Bijection
<1>3. PICK f \in [SUBSET S -> Int] : Counts(v, f, S) /\ Total(v, S) = f[S]
  BY TotalCounts
<1>4. PICK g \in [SUBSET R -> Int] : Counts(w, g, R) /\ Total(w, R) = g[R]
  BY <1>2, TotalCounts
<1>5. \A T \in SUBSET S : f[T] = Sums(v, f, T)
  BY <1>3 DEF Counts
<1>6. \A T \in SUBSET R : \A r \in T : Adds(w, g, T, r)
  BY <1>2, <1>4, AnyOrder
<1>7. f[{}] = 0 /\ g[{}] = 0
  BY <1>3, <1>4 DEF Counts, Sums
<1> DEFINE Of(T) == {h[s] : s \in T}
<1>8. /\ Of({}) = {} /\ Of(S) = R
      /\ \A T \in SUBSET S : \A s \in T :
           Of(T) \in SUBSET R /\ h[s] \in Of(T) /\ Of(T) \ {h[s]} = Of(T \ {s})
  BY <1>1
<1> HIDE DEF Of
<1> DEFINE P == {T \in SUBSET S : g[Of(T)] = f[T]}
<1>9. {} \in P
  BY <1>7, <1>8
<1>10. \A T \in SUBSET S : T # {} /\ T \ {AnyOf(T)} \in P => T \in P
  <2> SUFFICES ASSUME NEW T \in SUBSET S, T # {}, g[Of(T \ {AnyOf(T)})] = f[T \ {AnyOf(T)}]
               PROVE  g[Of(T)] = f[T]
    OBVIOUS
  <2> DEFINE s == AnyOf(T)
  <2>1. s \in T BY DEF AnyOf
  <2>2. f[T] = v[s] + f[T \ {s}] BY <1>5 DEF Sums
  <2> HIDE DEF s
  <2>3. g[Of(T)] = w[h[s]] + g[Of(T) \ {h[s]}] BY <1>6, <1>8, <2>1 DEF Adds
  <2>4. Of(T) \ {h[s]} = Of(T \ {s}) /\ w[h[s]] = v[s] BY <1>8, <2>1
  <2> QED BY <2>2, <2>3, <2>4 DEF s
<1> HIDE DEF P
<1>11. SUBSET S \subseteq P
  BY <1>9, <1>10, OneByOne
<1> QED BY <1>3, <1>4, <1>8, <1>11 DEF P

LEMMA UnitsAreTotal ==
  ASSUME NEW S
  PROVE  Scheduled(S) = Total([s \in S |-> s.units], S)
<1> DEFINE v == [s \in S |-> s.units]
           F(f) == [T \in SUBSET S |-> IF T = {} THEN 0 ELSE AnyOf(T).units + f[T \ {AnyOf(T)}]]
           G(f) == [T \in SUBSET S |-> IF T = {} THEN 0 ELSE v[AnyOf(T)] + f[T \ {AnyOf(T)}]]
<1>1. ASSUME NEW f PROVE F(f) = G(f)
  <2>1. \A T \in SUBSET S : T # {} => AnyOf(T).units = v[AnyOf(T)] BY DEF AnyOf
  <2> QED BY <2>1
<1>2. (CHOOSE f : f = F(f)) = (CHOOSE f : f = G(f))
  <2> HIDE DEF F, G
  <2> QED BY <1>1, Zenon
<1> QED BY <1>2 DEF Scheduled, Total, SumOver, MapThenSumSet, MapThenFoldSet, AnyOf

LEMMA SameSum ==
  ASSUME NEW S, IsFiniteSet(S), \A s \in S : s.units \in Int,
         NEW R, NEW h \in Bijection(S, R), \A s \in S : h[s].units = s.units
  PROVE  Scheduled(R) = Scheduled(S)
<1> DEFINE v == [s \in S |-> s.units]
           w == [r \in R |-> r.units]
<1>1. h \in [S -> R] /\ \A r \in R : \E s \in S : h[s] = r
  BY DEF Bijection, Surjection
<1>2. v \in [S -> Int] /\ w \in [R -> Int] /\ \A s \in S : w[h[s]] = v[s]
  BY <1>1
<1>3. Scheduled(R) = Total(w, R) /\ Scheduled(S) = Total(v, S)
  BY UnitsAreTotal
<1> HIDE DEF v, w
<1> QED BY <1>2, <1>3, SameTotal
-----------------------------------------------------------------------------
(* What the common evaluation finds of one record: its own issues, and the *)
(* ones it shares with every other record that it meets.                   *)
Finding(issue, sessions) == [issue |-> issue, sessions |-> sessions]
Colliding(x, y) == x.ref # y.ref /\ Meet(x, y)

InConflict(R, f) ==
  \E x \in R : \E y \in R : Colliding(x, y) /\ \E i \in Shared(x, y) : f = Finding(i, {x.ref, y.ref})
AtIssue(R, facts, f) == \E x \in R : \E i \in Issues(x, facts) : f = Finding(i, {x.ref})

LEMMA FoundIs ==
  ASSUME NEW R, NEW facts, NEW f
  PROVE  f \in EvaluateOccurrences(R, facts) <=> InConflict(R, f) \/ AtIssue(R, facts, f)
<1>1. f \in Conflicts(R) <=> InConflict(R, f)
  BY DEF Conflicts, Colliding, Finding, InConflict
<1> QED BY <1>1 DEF EvaluateOccurrences, Finding, AtIssue

LEMMA FindingParts ==
  ASSUME NEW i, NEW sessions
  PROVE  Finding(i, sessions).issue = i /\ Finding(i, sessions).sessions = sessions
BY DEF Finding

LEMMA MeetIsMutual ==
  ASSUME NEW x, NEW y
  PROVE  (Colliding(x, y) <=> Colliding(y, x)) /\ Shared(x, y) = Shared(y, x)
BY DEF Colliding, Meet, Shared

Unique(R, r) == \A x \in R : x.ref = r.ref => x = r

LEMMA FoundOf ==
  ASSUME NEW R, NEW facts, NEW r \in R, Unique(R, r),
         NEW f \in EvaluateOccurrences(R, facts), r.ref \in f.sessions
  PROVE  \/ f.sessions = {r.ref} /\ f.issue \in Issues(r, facts)
         \/ \E x \in R : /\ Colliding(r, x) /\ f.issue \in Shared(r, x)
                        /\ f.sessions = {r.ref, x.ref}
<1>1. CASE InConflict(R, f)
  <2>1. PICK x \in R, y \in R : Colliding(x, y) /\ \E i \in Shared(x, y) :
               f = Finding(i, {x.ref, y.ref})
    BY <1>1 DEF InConflict
  <2>2. f.issue \in Shared(x, y) /\ f.sessions = {x.ref, y.ref} BY <2>1, FindingParts
  <2>3. x = r \/ y = r BY <2>2 DEF Unique
  <2>4. {x.ref, y.ref} = {y.ref, x.ref} OBVIOUS
  <2> QED BY <2>1, <2>2, <2>3, <2>4, MeetIsMutual
<1>2. CASE AtIssue(R, facts, f)
  <2>1. PICK x \in R : \E j \in Issues(x, facts) : f = Finding(j, {x.ref}) BY <1>2 DEF AtIssue
  <2>2. f.issue \in Issues(x, facts) /\ f.sessions = {x.ref} BY <2>1, FindingParts
  <2>3. x = r BY <2>2 DEF Unique
  <2> QED BY <2>2, <2>3
<1> QED BY <1>1, <1>2, FoundIs

Found(R, facts, i, sessions) ==
  \E f \in EvaluateOccurrences(R, facts) : f.issue = i /\ f.sessions = sessions

LEMMA FoundAlone ==
  ASSUME NEW R, NEW facts, NEW r \in R, NEW i \in Issues(r, facts)
  PROVE  Found(R, facts, i, {r.ref})
<1>1. Finding(i, {r.ref}) \in EvaluateOccurrences(R, facts) BY FoundIs DEF AtIssue
<1> QED BY <1>1, FindingParts DEF Found

LEMMA FoundTogether ==
  ASSUME NEW R, NEW facts, NEW r \in R, NEW x \in R, Colliding(r, x), NEW i \in Shared(r, x)
  PROVE  Found(R, facts, i, {r.ref, x.ref})
<1>1. Finding(i, {r.ref, x.ref}) \in EvaluateOccurrences(R, facts) BY FoundIs DEF InConflict
<1> QED BY <1>1, FindingParts DEF Found
-----------------------------------------------------------------------------
(* Issues of one session are told apart from the ones it shares.           *)
Overlaps == {"LECTURER_OVERLAP", "ROOM_OVERLAP", "COHORT_OVERLAP"}

LEMMA SharedAreOverlaps ==
  ASSUME NEW x, NEW y
  PROVE  Shared(x, y) \subseteq Overlaps
BY DEF Shared, Overlaps

LEMMA OwnAreNoOverlaps ==
  ASSUME NEW x, NEW facts
  PROVE  Issues(x, facts) \cap Overlaps = {} /\ ConstraintIssues(x, facts) \cap Overlaps = {}
<1>1. Issues(x, facts) \cap Overlaps = {}
  BY DEF Issues, Overlaps
<1>2. ConstraintIssues(x, facts) \cap Overlaps = {}
  BY DEF ConstraintIssues, PeriodIssues, WindowIssues, Overlaps
<1> QED BY <1>1, <1>2
-----------------------------------------------------------------------------
(* What is said of a session when its own issues are these.                *)
Wrong(s, teaching, own) ==
  {<<i>> : i \in own} \cup
  UNION {{<<i, t.ref>> : i \in Shared(s, t)} : t \in {t \in teaching : Colliding(s, t)}}

DraftRecord(s, facts) == ValidationRecord(s.ref, s, s.cohort, facts.size[s.course])
OwnIn(s, facts) == Issues(DraftRecord(s, facts), facts) \cup ConstraintIssues(s, facts)

LEMMA DraftRecordIs ==
  ASSUME NEW s, NEW t, NEW facts
  PROVE  /\ DraftRecord(s, facts).ref = s.ref
         /\ Colliding(DraftRecord(s, facts), DraftRecord(t, facts)) <=> Colliding(s, t)
         /\ Shared(DraftRecord(s, facts), DraftRecord(t, facts)) = Shared(s, t)
BY DEF DraftRecord, ValidationRecord, Colliding, Meet, Shared

LEMMA AlertsTell ==
  ASSUME NEW T, NEW facts, NEW s \in T, \A a \in T : \A b \in T : a.ref = b.ref => a = b
  PROVE  Told(ValidationAlerts(T, facts), s) = Wrong(s, T, OwnIn(s, facts))
<1> DEFINE R == {DraftRecord(t, facts) : t \in T}
           r == DraftRecord(s, facts)
           found == EvaluateOccurrences(R, facts)
           raised == {f.issue : f \in {f \in found : s.ref \in f.sessions}}
                 \cup ConstraintIssues(s, facts)
           alerts == {[code |-> i, related |-> Related(found, s.ref, i)] : i \in raised}
<1>1. ValidationAlerts(T, facts)[s] = alerts
  BY DEF ValidationAlerts, DraftRecord
<1>2. r \in R /\ r.ref = s.ref /\ Unique(R, r)
  BY DraftRecordIs DEF Unique
<1>3. ASSUME NEW f \in found, s.ref \in f.sessions
      PROVE  \/ f.sessions = {s.ref} /\ f.issue \in Issues(r, facts)
             \/ \E t \in T : Colliding(s, t) /\ f.issue \in Shared(s, t) /\ f.sessions = {s.ref, t.ref}
  <2>1. CASE f.sessions = {r.ref} /\ f.issue \in Issues(r, facts)
    BY <1>2, <2>1
  <2>2. CASE \E x \in R : Colliding(r, x) /\ f.issue \in Shared(r, x) /\ f.sessions = {r.ref, x.ref}
    <3>1. PICK t \in T : LET x == DraftRecord(t, facts)
                         IN  Colliding(r, x) /\ f.issue \in Shared(r, x) /\ f.sessions = {r.ref, x.ref}
      BY <2>2
    <3> QED BY <3>1, DraftRecordIs
  <2> HIDE DEF R, r
  <2> QED BY <1>2, <1>3, <2>1, <2>2, FoundOf
<1>4. \A i \in Issues(r, facts) : \E f \in found : f.issue = i /\ f.sessions = {s.ref}
  <2> HIDE DEF R, r
  <2> QED BY <1>2, FoundAlone DEF Found
<1>5. ASSUME NEW t \in T, Colliding(s, t), NEW i \in Shared(s, t)
      PROVE  \E f \in found : f.issue = i /\ f.sessions = {s.ref, t.ref}
  <2> DEFINE x == DraftRecord(t, facts)
  <2>1. x \in R /\ x.ref = t.ref
    BY DraftRecordIs
  <2>2. Colliding(r, x) /\ i \in Shared(r, x)
    BY <1>5, DraftRecordIs
  <2> HIDE DEF R, r, x
  <2>3. Found(R, facts, i, {r.ref, x.ref})
    BY <1>2, <2>1, <2>2, FoundTogether
  <2> QED BY <1>2, <2>1, <2>3 DEF Found
<1> HIDE DEF R, r, found
<1>6. OwnIn(s, facts) = Issues(r, facts) \cup ConstraintIssues(s, facts)
  BY DEF OwnIn, r
<1>7. \A i : i \in raised <=>
        i \in OwnIn(s, facts) \/ \E t \in T : Colliding(s, t) /\ i \in Shared(s, t)
  <2>1. ASSUME NEW i \in raised
        PROVE  i \in OwnIn(s, facts) \/ \E t \in T : Colliding(s, t) /\ i \in Shared(s, t)
    BY <1>3, <1>6
  <2>2. OwnIn(s, facts) \subseteq raised
    BY <1>4, <1>6
  <2>3. ASSUME NEW t \in T, Colliding(s, t), NEW i \in Shared(s, t) PROVE i \in raised
    BY <1>5, <2>3
  <2> QED BY <2>1, <2>2, <2>3
<1>8. ASSUME NEW i \in OwnIn(s, facts) PROVE Related(found, s.ref, i) = {}
  <2>1. i \notin Overlaps BY <1>6, OwnAreNoOverlaps
  <2>2. ASSUME NEW f \in found, f.issue = i, s.ref \in f.sessions PROVE f.sessions = {s.ref}
    BY <1>3, <2>1, <2>2, SharedAreOverlaps
  <2> QED BY <2>2 DEF Related
<1>9. ASSUME NEW i \in Overlaps, NEW ref
      PROVE  ref \in Related(found, s.ref, i) <=>
               \E t \in T : Colliding(s, t) /\ i \in Shared(s, t) /\ ref = t.ref
  <2>1. i \notin Issues(r, facts) BY OwnAreNoOverlaps
  <2>2. ASSUME ref \in Related(found, s.ref, i)
        PROVE  \E t \in T : Colliding(s, t) /\ i \in Shared(s, t) /\ ref = t.ref
    <3>1. PICK f \in found : f.issue = i /\ s.ref \in f.sessions /\ ref \in f.sessions /\ ref # s.ref
      BY <2>2 DEF Related
    <3> QED BY <1>3, <2>1, <3>1
  <2>3. ASSUME NEW t \in T, Colliding(s, t), i \in Shared(s, t)
        PROVE  t.ref \in Related(found, s.ref, i)
    <3>1. s.ref # t.ref BY <2>3 DEF Colliding
    <3>2. PICK f \in found : f.issue = i /\ f.sessions = {s.ref, t.ref} BY <1>5, <2>3
    <3> QED BY <3>1, <3>2 DEF Related
  <2> QED BY <2>2, <2>3
<1> HIDE DEF raised
<1>10. \A a \in alerts : a.code \in raised /\ a.related = Related(found, s.ref, a.code)
  OBVIOUS
<1>11. ASSUME NEW i \in raised
       PROVE  \E a \in alerts : a.code = i /\ a.related = Related(found, s.ref, i)
  <2>1. [code |-> i, related |-> Related(found, s.ref, i)] \in alerts OBVIOUS
  <2> HIDE DEF alerts
  <2> QED BY <2>1
<1> HIDE DEF alerts
<1>12. Told(ValidationAlerts(T, facts), s) =
         {<<a.code>> : a \in {b \in alerts : b.related = {}}} \cup
         UNION {{<<a.code, ref>> : ref \in a.related} : a \in alerts}
  BY <1>1 DEF Told
<1>13. ASSUME NEW x \in Told(ValidationAlerts(T, facts), s) PROVE x \in Wrong(s, T, OwnIn(s, facts))
  <2>1. CASE \E a \in alerts : \E ref \in a.related : x = <<a.code, ref>>
    <3>1. PICK a \in alerts : \E ref \in a.related : x = <<a.code, ref>> BY <2>1
    <3>2. PICK ref \in a.related : x = <<a.code, ref>> BY <3>1
    <3>3. a.code \in raised /\ a.related = Related(found, s.ref, a.code) BY <1>10
    <3>4. a.code \notin OwnIn(s, facts) BY <1>8, <3>3
    <3>5. a.code \in Overlaps BY <1>7, <3>3, <3>4, SharedAreOverlaps
    <3>6. PICK t \in T : Colliding(s, t) /\ a.code \in Shared(s, t) /\ ref = t.ref BY <1>9, <3>3, <3>5
    <3> QED BY <3>2, <3>6 DEF Wrong
  <2>2. CASE \E a \in alerts : a.related = {} /\ x = <<a.code>>
    <3>1. PICK a \in alerts : a.related = {} /\ x = <<a.code>> BY <2>2
    <3>2. a.code \in raised /\ a.related = Related(found, s.ref, a.code) BY <1>10
    <3>3. ASSUME a.code \notin OwnIn(s, facts) PROVE FALSE
      <4>1. PICK t \in T : Colliding(s, t) /\ a.code \in Shared(s, t) BY <1>7, <3>2, <3>3
      <4>2. t.ref \in Related(found, s.ref, a.code) BY <1>9, <4>1, SharedAreOverlaps
      <4> QED BY <3>1, <3>2, <4>2
    <3> QED BY <3>1, <3>3 DEF Wrong
  <2> QED BY <1>12, <2>1, <2>2
<1>14. ASSUME NEW i \in OwnIn(s, facts) PROVE <<i>> \in Told(ValidationAlerts(T, facts), s)
  <2>1. PICK a \in alerts : a.code = i /\ a.related = Related(found, s.ref, i) BY <1>7, <1>11
  <2>2. a.related = {} BY <1>8, <2>1
  <2> QED BY <1>12, <2>1, <2>2
<1>15. ASSUME NEW t \in T, Colliding(s, t), NEW i \in Shared(s, t)
       PROVE  <<i, t.ref>> \in Told(ValidationAlerts(T, facts), s)
  <2>1. PICK a \in alerts : a.code = i /\ a.related = Related(found, s.ref, i) BY <1>7, <1>11, <1>15
  <2>2. t.ref \in a.related BY <1>9, <1>15, <2>1, SharedAreOverlaps
  <2> QED BY <1>12, <2>1, <2>2
<1> QED BY <1>13, <1>14, <1>15 DEF Wrong
-----------------------------------------------------------------------------
(* The rows of a saved semester: each has an id of its own, and what it    *)
(* refers to is in the catalog.                                            *)
Named(rows) == \A a \in rows : \A b \in rows : a.ref = b.ref => a = b
RowsKnown ==
  /\ IsFiniteSet(semester.teaching) /\ Named(semester.teaching) /\ Named(semester.exams)
  /\ \A s \in semester.teaching : /\ s.course \in DOMAIN semester.facts.course
                                  /\ s.start \in Int /\ s.end \in Int /\ s.units \in Int
  /\ \A e \in semester.exams : /\ e.start \in Int /\ e.end \in Int
                               /\ e.room \in DOMAIN semester.facts.capacity
  /\ Catalog(semester.facts)

(* What the calendar makes of the rows.                                    *)
Now == semester.facts
Taught(s) == TeachingOccurrence(s, Now.course[s.course].cohort, Profile(Now, s.course))
TeachingRef(s) == <<"teaching", s.ref>>
ExamRef(e) == <<"exam", e.ref>>
CalendarRecord(o) == ValidationRecord(o.ref, o, o.cohort, RequiredCapacity(o, Now))
TaughtRecord(s) == CalendarRecord(Taught(s))
ExamRecord(e) == CalendarRecord(ExamOccurrence(e, {}))
CalendarRecords ==
  {TaughtRecord(s) : s \in semester.teaching} \cup {ExamRecord(e) : e \in semester.exams}
Content(issues) ==
  {Taught(s) : s \in semester.teaching} \cup {ExamOccurrence(e, issues[e]) : e \in semester.exams}

LEMMA RefsDiffer ==
  ASSUME NEW a, NEW b
  PROVE  /\ TeachingRef(a) = TeachingRef(b) <=> a.ref = b.ref
         /\ ExamRef(a) = ExamRef(b) <=> a.ref = b.ref
         /\ TeachingRef(a) # ExamRef(b)
<1>1. "teaching" # "exam" OBVIOUS
<1> QED BY <1>1, SamePair DEF TeachingRef, ExamRef

(* Two records of the same session, but for their refs.                    *)
Alike(x, y) ==
  /\ x.course = y.course /\ x.date = y.date /\ x.start = y.start /\ x.end = y.end
  /\ x.lecturer = y.lecturer /\ x.room = y.room /\ x.cohort = y.cohort

LEMMA AlikeIssues ==
  ASSUME NEW x, NEW y, Alike(x, y), x.required = y.required, NEW facts
  PROVE  Issues(x, facts) = Issues(y, facts)
BY DEF Alike, Issues, Unavailable, Touches

LEMMA AlikeMeet ==
  ASSUME NEW x, NEW y, Alike(x, y), NEW u, NEW v, Alike(u, v)
  PROVE  (Meet(x, u) <=> Meet(y, v)) /\ Shared(x, u) = Shared(y, v)
BY DEF Alike, Meet, Shared

LEMMA ClockKeepsMinutes ==
  ASSUME NEW time \in Int, time % Minute = 0
  PROVE  Clock(time) = time
BY DEF Clock

LEMMA TaughtRecordIs ==
  ASSUME RowsKnown, CohortsKept, WholeMinutes, NEW s \in semester.teaching
  PROVE  /\ TaughtRecord(s).ref = TeachingRef(s)
         /\ TaughtRecord(s).required = Now.size[s.course]
         /\ Alike(TaughtRecord(s), s)
<1>1. Clock(s.start) = s.start /\ Clock(s.end) = s.end
  BY ClockKeepsMinutes DEF RowsKnown, WholeMinutes
<1>2. Now.course[s.course].cohort = s.cohort
  BY DEF CohortsKept, Now
<1> QED BY <1>1, <1>2 DEF TaughtRecord, CalendarRecord, ValidationRecord, Taught, TeachingOccurrence,
                          RequiredCapacity, TeachingRef, Alike

LEMMA ExamRecordIs ==
  ASSUME RowsKnown, WholeMinutes, NEW e \in semester.exams
  PROVE  /\ ExamRecord(e).ref = ExamRef(e)
         /\ ExamRecord(e).required = e.required
         /\ Alike(ExamRecord(e), e)
<1>1. Clock(e.start) = e.start /\ Clock(e.end) = e.end
  BY ClockKeepsMinutes DEF RowsKnown, WholeMinutes
<1> QED BY <1>1 DEF ExamRecord, CalendarRecord, ValidationRecord, ExamOccurrence,
                    RequiredCapacity, ExamRef, Alike

LEMMA RecordsNamed ==
  ASSUME RowsKnown, CohortsKept, WholeMinutes
  PROVE  /\ \A s \in semester.teaching :
              TaughtRecord(s) \in CalendarRecords /\ Unique(CalendarRecords, TaughtRecord(s))
         /\ \A e \in semester.exams :
              ExamRecord(e) \in CalendarRecords /\ Unique(CalendarRecords, ExamRecord(e))
<1>1. ASSUME NEW s \in semester.teaching, NEW x \in CalendarRecords, x.ref = TaughtRecord(s).ref
      PROVE  x = TaughtRecord(s)
  <2>1. x.ref = TeachingRef(s) BY <1>1, TaughtRecordIs
  <2>2. CASE \E t \in semester.teaching : x = TaughtRecord(t)
    BY <2>1, <2>2, TaughtRecordIs, RefsDiffer DEF RowsKnown, Named
  <2>3. CASE \E e \in semester.exams : x = ExamRecord(e)
    BY <2>1, <2>3, ExamRecordIs, RefsDiffer
  <2> QED BY <2>2, <2>3 DEF CalendarRecords
<1>2. ASSUME NEW e \in semester.exams, NEW x \in CalendarRecords, x.ref = ExamRecord(e).ref
      PROVE  x = ExamRecord(e)
  <2>1. x.ref = ExamRef(e) BY <1>2, ExamRecordIs
  <2>2. CASE \E t \in semester.teaching : x = TaughtRecord(t)
    BY <2>1, <2>2, TaughtRecordIs, RefsDiffer
  <2>3. CASE \E f \in semester.exams : x = ExamRecord(f)
    BY <2>1, <2>3, ExamRecordIs, RefsDiffer DEF RowsKnown, Named
  <2> QED BY <2>2, <2>3 DEF CalendarRecords
<1> QED BY <1>1, <1>2 DEF Unique, CalendarRecords

(* The profile of the calendar has the windows that the page looks up.     *)
LEMMA ProfileIsConstraints ==
  ASSUME RowsKnown, WholeMinutes, NEW s \in semester.teaching
  PROVE  ProfileIssues(Taught(s)) = ConstraintIssues(s, Now)
<1> DEFINE profile == Profile(Now, s.course)
           o == Taught(s)
           windows == {[w EXCEPT !.from = Clock(@), !.until = Clock(@)] : w \in o.profile.windows}
<1>1. /\ o.profile = profile /\ o.date = s.date
      /\ o.start = s.start /\ o.end = s.end
  <2>1. Clock(s.start) = s.start /\ Clock(s.end) = s.end
    BY ClockKeepsMinutes DEF RowsKnown, WholeMinutes
  <2> QED BY <2>1 DEF Taught, TeachingOccurrence
<1>2. s.course \in DOMAIN Now.constraints
  BY DEF RowsKnown, Catalog, Now
<1> DEFINE type == Now.constraints[s.course].studyType
<1>3. /\ profile.from = Now.constraints[s.course].from
      /\ profile.until = Now.constraints[s.course].until
      /\ profile.windows = IF type \in DOMAIN Now.windows THEN Now.windows[type] ELSE {}
  BY DEF Profile
<1> HIDE DEF o, profile
<1>4. windows = profile.windows
  <2>1. ASSUME NEW w \in profile.windows
        PROVE  [w EXCEPT !.from = Clock(@), !.until = Clock(@)] = w
    <3>1. w \in [day : 0..6, from : 0..DayEnd, until : 0..DayEnd]
      BY <1>3 DEF RowsKnown, Catalog, Now
    <3>2. w.from % Minute = 0 /\ w.until % Minute = 0
      BY <1>3 DEF WholeMinutes, Now
    <3>3. w.from \in Int /\ w.until \in Int
      BY <3>1, TimesAssumption
    <3>4. Clock(w.from) = w.from /\ Clock(w.until) = w.until
      BY <3>2, <3>3, ClockKeepsMinutes
    <3> QED BY <3>1, <3>4
  <2> QED BY <1>1, <2>1
<1>5. ProfileIssues(o) = PeriodIssues(o, o.profile.from, o.profile.until) \cup WindowIssues(o, windows)
  BY DEF ProfileIssues
<1>6. /\ PeriodIssues(o, profile.from, profile.until) = PeriodIssues(s, profile.from, profile.until)
      /\ WindowIssues(o, profile.windows) = WindowIssues(s, profile.windows)
  BY <1>1 DEF PeriodIssues, WindowIssues, Fits
<1> HIDE DEF windows
<1>7. ConstraintIssues(s, Now) =
        PeriodIssues(s, profile.from, profile.until) \cup WindowIssues(s, profile.windows)
  BY <1>2, <1>3 DEF ConstraintIssues
<1> QED BY <1>1, <1>4, <1>5, <1>6, <1>7 DEF o

(* The page and the dialog load the windows of the study types they name.  *)
LEMMA LoadedIsEnough ==
  ASSUME RowsKnown, NEW types, NEW s \in semester.teaching, TypeNow(semester, s.course) \in types
  PROVE  OwnIn(s, Loaded(Now, types)) = OwnIn(s, Now)
<1> DEFINE L == Loaded(Now, types)
<1>1. DOMAIN Now = {"course", "size", "capacity", "lecturers", "rooms", "activeLecturers",
                    "activeRooms", "periods", "holidays", "constraints", "windows"}
  BY DEF RowsKnown, Catalog, Now
<1>2. L = [Now EXCEPT !.windows = Restrict(@, types \cap DOMAIN @)]
  BY DEF Loaded
<1>3. /\ L.size = Now.size /\ L.capacity = Now.capacity /\ L.lecturers = Now.lecturers
      /\ L.rooms = Now.rooms /\ L.activeLecturers = Now.activeLecturers
      /\ L.activeRooms = Now.activeRooms /\ L.periods = Now.periods /\ L.holidays = Now.holidays
      /\ L.constraints = Now.constraints
      /\ L.windows = Restrict(Now.windows, types \cap DOMAIN Now.windows)
  BY <1>1, <1>2
<1> DEFINE type == Now.constraints[s.course].studyType
<1>4. type \in types /\ s.course \in DOMAIN Now.constraints
  BY DEF TypeNow, Now, RowsKnown, Catalog
<1>5. /\ type \in DOMAIN L.windows <=> type \in DOMAIN Now.windows
      /\ type \in DOMAIN L.windows => L.windows[type] = Now.windows[type]
  BY <1>3, <1>4 DEF Restrict
<1> HIDE DEF L
<1>6. ConstraintIssues(s, L) = ConstraintIssues(s, Now)
  BY <1>3, <1>4, <1>5 DEF ConstraintIssues
<1>7. DraftRecord(s, L) = DraftRecord(s, Now)
  BY <1>3 DEF DraftRecord
<1>8. Issues(DraftRecord(s, Now), L) = Issues(DraftRecord(s, Now), Now)
  BY <1>3 DEF Issues, Unavailable
<1> QED BY <1>6, <1>7, <1>8 DEF OwnIn, L
-----------------------------------------------------------------------------
(* The findings of the calendar: those of the common evaluation, those of  *)
(* the profiles, and the ones kept with the exams.                         *)
OfProfile(f) ==
  \E s \in semester.teaching : \E i \in ProfileIssues(Taught(s)) : f = Finding(i, {TeachingRef(s)})
KeptOf(e, issues) ==
  (IF Outside(e) THEN {"OUTSIDE_RECOMMENDED_WINDOW"} ELSE {}) \cup (issues \ DOMAIN Rederived)
KeptWith(f, issues) ==
  \E e \in semester.exams : \E i \in KeptOf(e, issues[e]) : f = Finding(i, {ExamRef(e)})

LEMMA FindingsAre ==
  ASSUME NEW issues, NEW f
  PROVE  f \in Findings(Content(issues), Now) <=>
           f \in EvaluateOccurrences(CalendarRecords, Now) \/ OfProfile(f) \/ KeptWith(f, issues)
<1> DEFINE records == {ValidationRecord(o.ref, o, o.cohort, RequiredCapacity(o, Now)) :
               o \in Content(issues)}
           own == UNION {{[issue |-> i, sessions |-> {o.ref}] : i \in OwnIssues(o)} :
                   o \in Content(issues)}
<1>1. records = CalendarRecords
  <2>1. ASSUME NEW e \in semester.exams
        PROVE  CalendarRecord(ExamOccurrence(e, issues[e])) = ExamRecord(e)
    BY DEF CalendarRecord, ExamRecord, ExamOccurrence, ValidationRecord, RequiredCapacity
  <2>2. records = {CalendarRecord(o) : o \in Content(issues)}
    BY DEF CalendarRecord
  <2> HIDE DEF records
  <2> QED BY <2>1, <2>2 DEF Content, CalendarRecords, TaughtRecord
<1>2. \A s \in semester.teaching :
        OwnIssues(Taught(s)) = ProfileIssues(Taught(s)) /\ Taught(s).ref = TeachingRef(s)
  BY DEF OwnIssues, Taught, TeachingOccurrence, TeachingRef
<1>3. ASSUME NEW e \in semester.exams
      PROVE  LET o == ExamOccurrence(e, issues[e])
             IN  OwnIssues(o) = KeptOf(e, issues[e]) /\ o.ref = ExamRef(e)
  BY DEF OwnIssues, KeptIssues, KeptOf, ExamOccurrence, ExamRef
<1>4. f \in own <=> \E o \in Content(issues) : \E i \in OwnIssues(o) : f = Finding(i, {o.ref})
  BY DEF Finding
<1> HIDE DEF own
<1>5. f \in own <=> OfProfile(f) \/ KeptWith(f, issues)
  <2>1. ASSUME f \in own PROVE OfProfile(f) \/ KeptWith(f, issues)
    <3>1. PICK o \in Content(issues) : \E i \in OwnIssues(o) : f = Finding(i, {o.ref}) BY <1>4, <2>1
    <3>2. CASE \E s \in semester.teaching : o = Taught(s)
      BY <1>2, <3>1, <3>2 DEF OfProfile
    <3>3. CASE \E e \in semester.exams : o = ExamOccurrence(e, issues[e])
      BY <1>3, <3>1, <3>3 DEF KeptWith
    <3> QED BY <3>2, <3>3 DEF Content
  <2>2. ASSUME OfProfile(f) PROVE f \in own
    <3>1. PICK s \in semester.teaching : \E i \in ProfileIssues(Taught(s)) :
                 f = Finding(i, {TeachingRef(s)})
      BY <2>2 DEF OfProfile
    <3>2. Taught(s) \in Content(issues) BY DEF Content
    <3> QED BY <1>2, <1>4, <3>1, <3>2
  <2>3. ASSUME KeptWith(f, issues) PROVE f \in own
    <3>1. PICK e \in semester.exams : \E i \in KeptOf(e, issues[e]) : f = Finding(i, {ExamRef(e)})
      BY <2>3 DEF KeptWith
    <3>2. ExamOccurrence(e, issues[e]) \in Content(issues) BY DEF Content
    <3> QED BY <1>3, <1>4, <3>1, <3>2
  <2> QED BY <2>1, <2>2, <2>3
<1>6. Findings(Content(issues), Now) = EvaluateOccurrences(records, Now) \cup own
  BY DEF Findings, own
<1> HIDE DEF records
<1> QED BY <1>1, <1>5, <1>6

NoIssues == [e \in semester.exams |-> {}]

LEMMA WorkingIsContent == WorkingContent(semester) = Content(NoIssues)
BY DEF WorkingContent, Content, Taught, NoIssues, Now

LEMMA PublishedIsContent ==
  ASSUME RowsKnown
  PROVE  PublishedContent(Captured(semester))
           = Content([e \in semester.exams |-> ExamIssues(semester, e)])
<1> DEFINE snapshot == Captured(semester)
<1>1. /\ snapshot.teaching = semester.teaching /\ snapshot.exams = semester.exams
      /\ snapshot.issues = [e \in semester.exams |-> ExamIssues(semester, e)]
      /\ \A s \in semester.teaching : /\ snapshot.cohort[s.course] = Now.course[s.course].cohort
                                      /\ snapshot.profile[s.course] = Profile(Now, s.course)
  BY DEF Captured, RowsKnown, Courses, Now
<1> HIDE DEF snapshot
<1> QED BY <1>1 DEF PublishedContent, Content, Taught, snapshot

(* Findings of a teaching session with no other, and with another one.     *)
LEMMA ShownAlone ==
  ASSUME RowsKnown, CohortsKept, WholeMinutes, NEW s \in semester.teaching, NEW i, NEW issues
  PROVE  Found(CalendarRecords, Now, i, {TeachingRef(s)}) \/ i \in ProfileIssues(Taught(s)) <=>
           \E f \in Findings(Content(issues), Now) : f.issue = i /\ f.sessions = {TeachingRef(s)}
<1>1. ASSUME NEW f \in Findings(Content(issues), Now), f.issue = i, f.sessions = {TeachingRef(s)}
      PROVE  Found(CalendarRecords, Now, i, {TeachingRef(s)}) \/ i \in ProfileIssues(Taught(s))
  <2>1. CASE f \in EvaluateOccurrences(CalendarRecords, Now)
    BY <1>1, <2>1 DEF Found
  <2>2. CASE OfProfile(f)
    <3>1. PICK t \in semester.teaching : \E j \in ProfileIssues(Taught(t)) :
                 f = Finding(j, {TeachingRef(t)})
      BY <2>2 DEF OfProfile
    <3>2. i \in ProfileIssues(Taught(t)) /\ TeachingRef(t) = TeachingRef(s)
      BY <1>1, <3>1, FindingParts
    <3> QED BY <3>2, RefsDiffer DEF RowsKnown, Named
  <2>3. CASE KeptWith(f, issues)
    <3>1. PICK e \in semester.exams : f.sessions = {ExamRef(e)}
      BY <2>3, FindingParts DEF KeptWith
    <3> QED BY <1>1, <3>1, RefsDiffer
  <2> QED BY <2>1, <2>2, <2>3, FindingsAre
<1>2. ASSUME Found(CalendarRecords, Now, i, {TeachingRef(s)})
      PROVE  \E f \in Findings(Content(issues), Now) : f.issue = i /\ f.sessions = {TeachingRef(s)}
  BY <1>2, FindingsAre DEF Found
<1>3. ASSUME i \in ProfileIssues(Taught(s))
      PROVE  \E f \in Findings(Content(issues), Now) : f.issue = i /\ f.sessions = {TeachingRef(s)}
  <2>1. OfProfile(Finding(i, {TeachingRef(s)})) BY <1>3 DEF OfProfile
  <2> QED BY <2>1, FindingsAre, FindingParts
<1> QED BY <1>1, <1>2, <1>3

LEMMA ShownTogether ==
  ASSUME NEW pair, \A ref : pair # {ref}, NEW i, NEW issues
  PROVE  Found(CalendarRecords, Now, i, pair) <=>
           \E f \in Findings(Content(issues), Now) : f.issue = i /\ f.sessions = pair
<1>1. ASSUME NEW f \in Findings(Content(issues), Now), f.issue = i, f.sessions = pair
      PROVE  Found(CalendarRecords, Now, i, pair)
  <2>1. CASE f \in EvaluateOccurrences(CalendarRecords, Now)
    BY <1>1, <2>1 DEF Found
  <2>2. CASE OfProfile(f)
    <3>1. PICK s \in semester.teaching : \E j \in ProfileIssues(Taught(s)) :
                 f = Finding(j, {TeachingRef(s)})
      BY <2>2 DEF OfProfile
    <3>2. f.sessions = {TeachingRef(s)} BY <3>1, FindingParts
    <3>3. pair # {TeachingRef(s)} OBVIOUS
    <3> QED BY <1>1, <3>2, <3>3
  <2>3. CASE KeptWith(f, issues)
    <3>1. PICK e \in semester.exams : \E j \in KeptOf(e, issues[e]) : f = Finding(j, {ExamRef(e)})
      BY <2>3 DEF KeptWith
    <3>2. f.sessions = {ExamRef(e)} BY <3>1, FindingParts
    <3>3. pair # {ExamRef(e)} OBVIOUS
    <3> QED BY <1>1, <3>2, <3>3
  <2> QED BY <2>1, <2>2, <2>3, FindingsAre
<1>2. ASSUME Found(CalendarRecords, Now, i, pair)
      PROVE  \E f \in Findings(Content(issues), Now) : f.issue = i /\ f.sessions = pair
  BY <1>2, FindingsAre DEF Found
<1> QED BY <1>1, <1>2

LEMMA CalendarFinds ==
  ASSUME RowsKnown, CohortsKept, WholeMinutes, NEW s \in semester.teaching, NEW i
  PROVE  /\ Found(CalendarRecords, Now, i, {TeachingRef(s)}) <=> i \in Issues(DraftRecord(s, Now), Now)
         /\ \A t \in semester.teaching : s.ref # t.ref =>
              (Found(CalendarRecords, Now, i, {TeachingRef(s), TeachingRef(t)}) <=>
                 Colliding(s, t) /\ i \in Shared(s, t))
<1> DEFINE R == CalendarRecords
           r == TaughtRecord(s)
<1>1. r \in R /\ Unique(R, r) /\ r.ref = TeachingRef(s)
  BY RecordsNamed, TaughtRecordIs
<1>2. Issues(r, Now) = Issues(DraftRecord(s, Now), Now)
  <2>1. Alike(s, DraftRecord(s, Now)) /\ DraftRecord(s, Now).required = Now.size[s.course]
    BY DEF DraftRecord, ValidationRecord, Alike
  <2>2. Alike(r, DraftRecord(s, Now)) /\ r.required = DraftRecord(s, Now).required
    BY <2>1, TaughtRecordIs DEF Alike
  <2> QED BY <2>2, AlikeIssues
<1> HIDE DEF R, r
<1>3. ASSUME Found(R, Now, i, {TeachingRef(s)}) PROVE i \in Issues(r, Now)
  <2>1. PICK f \in EvaluateOccurrences(R, Now) : f.issue = i /\ f.sessions = {r.ref}
    BY <1>1, <1>3 DEF Found
  <2>2. CASE \E x \in R : /\ Colliding(r, x) /\ f.issue \in Shared(r, x) /\ f.sessions = {r.ref, x.ref}
    BY <2>1, <2>2 DEF Colliding
  <2> QED BY <1>1, <2>1, <2>2, FoundOf
<1>4. ASSUME i \in Issues(r, Now) PROVE Found(R, Now, i, {TeachingRef(s)})
  <2>1. Found(R, Now, i, {r.ref}) BY <1>1, <1>4, FoundAlone
  <2> QED BY <1>1, <2>1
<1>5. ASSUME NEW t \in semester.teaching, s.ref # t.ref
      PROVE  Found(R, Now, i, {TeachingRef(s), TeachingRef(t)}) <=>
               Colliding(s, t) /\ i \in Shared(s, t)
  <2> DEFINE x == TaughtRecord(t)
  <2>1. x \in R /\ Unique(R, x) /\ x.ref = TeachingRef(t) /\ TeachingRef(s) # TeachingRef(t)
    BY <1>5, RecordsNamed, TaughtRecordIs, RefsDiffer DEF R
  <2>2. (Colliding(r, x) <=> Colliding(s, t)) /\ Shared(r, x) = Shared(s, t)
    <3>1. (Meet(r, x) <=> Meet(s, t)) /\ Shared(r, x) = Shared(s, t)
      BY TaughtRecordIs, AlikeMeet DEF r
    <3> QED BY <1>1, <1>5, <2>1, <3>1 DEF Colliding
  <2> HIDE DEF x
  <2>3. ASSUME Found(R, Now, i, {TeachingRef(s), TeachingRef(t)})
        PROVE  Colliding(s, t) /\ i \in Shared(s, t)
    <3>1. PICK f \in EvaluateOccurrences(R, Now) : f.issue = i /\ f.sessions = {r.ref, x.ref}
      BY <1>1, <2>1, <2>3 DEF Found
    <3>2. f.sessions # {r.ref} BY <1>1, <2>1, <3>1
    <3>3. PICK y \in R : Colliding(r, y) /\ f.issue \in Shared(r, y) /\ f.sessions = {r.ref, y.ref}
      BY <1>1, <3>1, <3>2, FoundOf
    <3>4. y.ref = x.ref BY <1>1, <2>1, <3>1, <3>3
    <3>5. y = x BY <2>1, <3>4 DEF Unique
    <3> QED BY <2>2, <3>1, <3>3, <3>5
  <2>4. ASSUME Colliding(s, t), i \in Shared(s, t)
        PROVE  Found(R, Now, i, {TeachingRef(s), TeachingRef(t)})
    <3>1. Colliding(r, x) /\ i \in Shared(r, x) BY <2>2, <2>4
    <3>2. Found(R, Now, i, {r.ref, x.ref}) BY <1>1, <2>1, <3>1, FoundTogether
    <3> QED BY <1>1, <2>1, <3>2
  <2> QED BY <2>3, <2>4
<1> QED BY <1>2, <1>3, <1>4, <1>5 DEF R

(* Of a session the calendar shows what the page and the dialog tell.      *)
LEMMA CalendarShows ==
  ASSUME RowsKnown, CohortsKept, WholeMinutes, NEW s \in semester.teaching, NEW issues
  PROVE  Shown(Findings(Content(issues), Now), s) = Wrong(s, semester.teaching, OwnIn(s, Now))
<1> DEFINE F == Findings(Content(issues), Now)
           own == <<"teaching", s.ref>>
<1>1. /\ own = TeachingRef(s)
      /\ \A t \in semester.teaching \ {s} : <<"teaching", t.ref>> = TeachingRef(t) /\ s.ref # t.ref
  BY DEF TeachingRef, RowsKnown, Named
<1>2. \A i : (\E f \in F : f.issue = i /\ f.sessions = {own}) <=> i \in OwnIn(s, Now)
  <2> SUFFICES ASSUME NEW i
               PROVE  (\E f \in F : f.issue = i /\ f.sessions = {own}) <=> i \in OwnIn(s, Now)
    OBVIOUS
  <2>1. (\E f \in F : f.issue = i /\ f.sessions = {TeachingRef(s)}) <=>
          Found(CalendarRecords, Now, i, {TeachingRef(s)}) \/ i \in ProfileIssues(Taught(s))
    BY ShownAlone
  <2>2. Found(CalendarRecords, Now, i, {TeachingRef(s)}) <=> i \in Issues(DraftRecord(s, Now), Now)
    BY CalendarFinds
  <2>3. ProfileIssues(Taught(s)) = ConstraintIssues(s, Now)
    BY ProfileIsConstraints
  <2> HIDE DEF F
  <2> QED BY <1>1, <2>1, <2>2, <2>3 DEF OwnIn
<1>3. ASSUME NEW t \in semester.teaching \ {s}, NEW i
      PROVE  (\E f \in F : f.issue = i /\ f.sessions = {own, <<"teaching", t.ref>>}) <=>
                Colliding(s, t) /\ i \in Shared(s, t)
  <2>1. (\E f \in F : f.issue = i /\ f.sessions = {TeachingRef(s), TeachingRef(t)}) <=>
          Found(CalendarRecords, Now, i, {TeachingRef(s), TeachingRef(t)})
    <3> DEFINE pair == {TeachingRef(s), TeachingRef(t)}
    <3>1. TeachingRef(s) # TeachingRef(t) BY <1>1, RefsDiffer
    <3>2. \A ref : pair # {ref} BY <3>1
    <3> HIDE DEF pair
    <3>3. Found(CalendarRecords, Now, i, pair) <=>
            \E f \in Findings(Content(issues), Now) : f.issue = i /\ f.sessions = pair
      BY <3>2, ShownTogether
    <3> QED BY <3>3 DEF pair
  <2>2. Found(CalendarRecords, Now, i, {TeachingRef(s), TeachingRef(t)}) <=>
          Colliding(s, t) /\ i \in Shared(s, t)
    BY <1>1, CalendarFinds
  <2> HIDE DEF F
  <2> QED BY <1>1, <2>1, <2>2
<1>4. \A t \in semester.teaching : Colliding(s, t) => t # s
  BY DEF Colliding
<1>5. Shown(F, s) =
        {<<f.issue>> : f \in {f \in F : f.sessions = {own}}} \cup
        UNION {{<<f.issue, t.ref>> : f \in {f \in F : f.sessions = {own, <<"teaching", t.ref>>}}} :
                 t \in semester.teaching \ {s}}
  BY DEF Shown
<1> HIDE DEF F, own
<1>6. ASSUME NEW x \in Shown(F, s) PROVE x \in Wrong(s, semester.teaching, OwnIn(s, Now))
  <2>1. CASE \E f \in F : f.sessions = {own} /\ x = <<f.issue>>
    BY <1>2, <2>1 DEF Wrong
  <2>2. CASE \E t \in semester.teaching \ {s} : \E f \in F :
               f.sessions = {own, <<"teaching", t.ref>>} /\ x = <<f.issue, t.ref>>
    <3>1. PICK t \in semester.teaching \ {s}, f \in F :
               f.sessions = {own, <<"teaching", t.ref>>} /\ x = <<f.issue, t.ref>>
      BY <2>2
    <3>2. Colliding(s, t) /\ f.issue \in Shared(s, t) BY <1>3, <3>1
    <3> QED BY <3>1, <3>2 DEF Wrong
  <2> QED BY <1>5, <2>1, <2>2
<1>7. ASSUME NEW i \in OwnIn(s, Now) PROVE <<i>> \in Shown(F, s)
  BY <1>2, <1>5
<1>8. ASSUME NEW t \in semester.teaching, Colliding(s, t), NEW i \in Shared(s, t)
      PROVE  <<i, t.ref>> \in Shown(F, s)
  <2>1. PICK f \in F : f.issue = i /\ f.sessions = {own, <<"teaching", t.ref>>} BY <1>3, <1>4, <1>8
  <2> QED BY <1>4, <1>5, <1>8, <2>1
<1> QED BY <1>6, <1>7, <1>8 DEF Wrong, F
-----------------------------------------------------------------------------
(* The page and the dialog tell of a session what is wrong with it.        *)
LEMMA DialogTells ==
  ASSUME RowsKnown, NEW s \in semester.teaching
  PROVE  Told(DialogAlerts(semester), s) = Wrong(s, semester.teaching, OwnIn(s, Now))
<1> DEFINE types == UNION {{semester.studyType[t.course], TypeNow(semester, t.course)} :
               t \in semester.teaching}
<1>1. TypeNow(semester, s.course) \in types OBVIOUS
<1>2. DialogAlerts(semester) = ValidationAlerts(semester.teaching, Loaded(Now, types))
  BY DEF DialogAlerts, Now
<1> HIDE DEF types
<1>3. OwnIn(s, Loaded(Now, types)) = OwnIn(s, Now) BY <1>1, LoadedIsEnough
<1>4. Told(ValidationAlerts(semester.teaching, Loaded(Now, types)), s)
        = Wrong(s, semester.teaching, OwnIn(s, Loaded(Now, types)))
  BY AlertsTell DEF RowsKnown, Named
<1> QED BY <1>2, <1>3, <1>4

LEMMA PageTells ==
  ASSUME RowsKnown, StudyTypesKept, NEW s \in semester.teaching
  PROVE  Told(PageAlerts(semester), s) = Wrong(s, semester.teaching, OwnIn(s, Now))
<1> DEFINE types == {semester.studyType[t.course] : t \in semester.teaching}
<1>1. TypeNow(semester, s.course) \in types BY DEF StudyTypesKept
<1>2. PageAlerts(semester) = ValidationAlerts(semester.teaching, Loaded(Now, types))
  BY DEF PageAlerts, Now
<1> HIDE DEF types
<1>3. OwnIn(s, Loaded(Now, types)) = OwnIn(s, Now) BY <1>1, LoadedIsEnough
<1>4. Told(ValidationAlerts(semester.teaching, Loaded(Now, types)), s)
        = Wrong(s, semester.teaching, OwnIn(s, Loaded(Now, types)))
  BY AlertsTell DEF RowsKnown, Named
<1> QED BY <1>2, <1>3, <1>4

(* Who has alerts is told something, and who is shown something has a      *)
(* finding.                                                                *)
LEMMA AlertsAreTold ==
  ASSUME NEW alerts, NEW s, alerts[s] # {}
  PROVE  Told(alerts, s) # {}
<1>1. PICK a \in alerts[s] : TRUE OBVIOUS
<1>2. CASE a.related = {}
  <2>1. <<a.code>> \in Told(alerts, s) BY <1>2 DEF Told
  <2> QED BY <2>1
<1>3. CASE a.related # {}
  <2>1. PICK ref \in a.related : TRUE BY <1>3
  <2>2. <<a.code, ref>> \in Told(alerts, s) BY DEF Told
  <2> QED BY <2>2
<1> QED BY <1>2, <1>3

LEMMA ShownAreFound ==
  ASSUME NEW findings, NEW s, Shown(findings, s) # {}
  PROVE  \E f \in findings : TeachingRef(s) \in f.sessions
<1>1. PICK x \in Shown(findings, s) : TRUE OBVIOUS
<1>2. \E f \in findings : <<"teaching", s.ref>> \in f.sessions BY <1>1 DEF Shown
<1> QED BY <1>2 DEF TeachingRef
-----------------------------------------------------------------------------
(* What may be raised of an exam, and what it is called in the calendar.   *)
LEMMA RederivedIs ==
  /\ DOMAIN Rederived = {"RESPONSIBLE_LECTURER_INELIGIBLE", "ROOM_INELIGIBLE",
       "INSUFFICIENT_ROOM_CAPACITY", "LECTURER_UNAVAILABLE", "ROOM_UNAVAILABLE",
       "INSTITUTION_HOLIDAY", "LECTURER_OCCUPIED", "ROOM_OCCUPIED", "COHORT_OCCUPIED"}
  /\ Rederived["RESPONSIBLE_LECTURER_INELIGIBLE"] = "LECTURER_INELIGIBLE"
  /\ Rederived["ROOM_INELIGIBLE"] = "ROOM_INELIGIBLE"
  /\ Rederived["INSUFFICIENT_ROOM_CAPACITY"] = "ROOM_CAPACITY"
  /\ Rederived["LECTURER_UNAVAILABLE"] = "LECTURER_UNAVAILABLE"
  /\ Rederived["ROOM_UNAVAILABLE"] = "ROOM_UNAVAILABLE"
  /\ Rederived["INSTITUTION_HOLIDAY"] = "INSTITUTION_HOLIDAY"
  /\ Rederived["LECTURER_OCCUPIED"] = "LECTURER_OVERLAP"
  /\ Rederived["ROOM_OCCUPIED"] = "ROOM_OVERLAP"
  /\ Rederived["COHORT_OCCUPIED"] = "COHORT_OVERLAP"
BY DEF Rederived

LEMMA ExamIssuesAmong ==
  ASSUME NEW e
  PROVE  ExamIssues(semester, e) \subseteq DOMAIN Rederived \cup DialogOnly
BY RederivedIs DEF ExamIssues, DialogOnly

LEMMA IssuesAmong ==
  ASSUME NEW x, NEW facts
  PROVE  /\ Issues(x, facts) \subseteq
              {"LECTURER_INELIGIBLE", "LECTURER_UNAVAILABLE", "ROOM_INELIGIBLE", "ROOM_UNAVAILABLE",
               "VALIDATION_DATA_MISSING", "ROOM_CAPACITY", "INSTITUTION_HOLIDAY"}
         /\ "VALIDATION_DATA_MISSING" \in Issues(x, facts) <=>
              x.room \notin DOMAIN facts.capacity \/ facts.holidays = HolidaysMissing
BY DEF Issues

(* What the calendar finds of an exam besides its own issues.              *)
ExamMeets(e, i) ==
  \E x \in CalendarRecords : Colliding(ExamRecord(e), x) /\ i \in Shared(ExamRecord(e), x)
ExamWrong(e, i) == i \in Issues(ExamRecord(e), Now) \/ ExamMeets(e, i)

LEMMA ExamMeetsOccupants ==
  ASSUME RowsKnown, CohortsKept, WholeMinutes, NEW e \in semester.exams, NEW i
  PROVE  ExamMeets(e, i) <=> \E f \in Occupants(semester, e) : i \in Shared(e, f)
<1> DEFINE r == ExamRecord(e)
<1>1. r.ref = ExamRef(e) /\ Alike(r, e) BY ExamRecordIs
<1>2. ASSUME NEW t \in semester.teaching
      PROVE  LET x == TaughtRecord(t)
             IN  (Colliding(r, x) <=> Meet(e, t)) /\ Shared(r, x) = Shared(e, t)
  <2> DEFINE x == TaughtRecord(t)
  <2>1. x.ref = TeachingRef(t) /\ Alike(x, t) BY TaughtRecordIs
  <2>2. r.ref # x.ref BY <1>1, <2>1, RefsDiffer
  <2> HIDE DEF r, x
  <2>3. (Meet(r, x) <=> Meet(e, t)) /\ Shared(r, x) = Shared(e, t) BY <1>1, <2>1, AlikeMeet
  <2>4. (Colliding(r, x) <=> Meet(e, t)) /\ Shared(r, x) = Shared(e, t)
    BY <2>2, <2>3 DEF Colliding
  <2> QED BY <2>4 DEF x
<1>3. ASSUME NEW g \in semester.exams
      PROVE  LET x == ExamRecord(g)
             IN  (Colliding(r, x) <=> g # e /\ Meet(e, g)) /\ Shared(r, x) = Shared(e, g)
  <2> DEFINE x == ExamRecord(g)
  <2>1. x.ref = ExamRef(g) /\ Alike(x, g) BY ExamRecordIs
  <2>2. r.ref # x.ref <=> g # e BY <1>1, <2>1, RefsDiffer DEF RowsKnown, Named
  <2> HIDE DEF r, x
  <2>3. (Meet(r, x) <=> Meet(e, g)) /\ Shared(r, x) = Shared(e, g) BY <1>1, <2>1, AlikeMeet
  <2>4. (Colliding(r, x) <=> g # e /\ Meet(e, g)) /\ Shared(r, x) = Shared(e, g)
    BY <2>2, <2>3 DEF Colliding
  <2> QED BY <2>4 DEF x
<1>4. ExamMeets(e, i) <=> \E x \in CalendarRecords : Colliding(r, x) /\ i \in Shared(r, x)
  BY DEF ExamMeets
<1> HIDE DEF r
<1>5. ASSUME ExamMeets(e, i) PROVE \E f \in Occupants(semester, e) : i \in Shared(e, f)
  <2>1. PICK x \in CalendarRecords : Colliding(r, x) /\ i \in Shared(r, x) BY <1>4, <1>5
  <2>2. CASE \E t \in semester.teaching : x = TaughtRecord(t)
    BY <1>2, <2>1, <2>2 DEF Occupants
  <2>3. CASE \E g \in semester.exams : x = ExamRecord(g)
    BY <1>3, <2>1, <2>3 DEF Occupants
  <2> QED BY <2>2, <2>3 DEF CalendarRecords
<1>6. ASSUME NEW f \in Occupants(semester, e), i \in Shared(e, f) PROVE ExamMeets(e, i)
  <2>1. CASE f \in semester.teaching
    <3>1. TaughtRecord(f) \in CalendarRecords BY <2>1 DEF CalendarRecords
    <3> QED BY <1>2, <1>4, <1>6, <2>1, <3>1 DEF Occupants
  <2>2. CASE f \in semester.exams \ {e}
    <3>1. ExamRecord(f) \in CalendarRecords BY <2>2 DEF CalendarRecords
    <3> QED BY <1>3, <1>4, <1>6, <2>2, <3>1 DEF Occupants
  <2> QED BY <2>1, <2>2 DEF Occupants
<1> QED BY <1>5, <1>6

(* An exam issue of the dialog is one of the calendar under its name there.*)
LEMMA ExamIssueIsWrong ==
  ASSUME RowsKnown, CohortsKept, WholeMinutes, NEW e \in semester.exams,
         TeachingOf(semester, e.course) # {}
  PROVE  \A i \in DOMAIN Rederived : i \in ExamIssues(semester, e) <=> ExamWrong(e, Rederived[i])
<1> DEFINE r == ExamRecord(e)
           told == ExamIssues(semester, e)
<1>1. r.required = e.required /\ Alike(r, e) BY ExamRecordIs
<1>2. Now = semester.facts /\ e.room \in DOMAIN Now.capacity /\ Now.holidays # HolidaysMissing
  BY DEF Now, RowsKnown, Catalog
<1>3. /\ "RESPONSIBLE_LECTURER_INELIGIBLE" \in told <=>
           e.lecturer \notin Now.lecturers[e.course] \cap Now.activeLecturers
      /\ "ROOM_INELIGIBLE" \in told <=> e.room \notin Now.rooms[e.course] \cap Now.activeRooms
      /\ "INSUFFICIENT_ROOM_CAPACITY" \in told <=> Now.capacity[e.room] < e.required
      /\ "LECTURER_UNAVAILABLE" \in told <=> Unavailable(Now.periods, e.lecturer, e)
      /\ "ROOM_UNAVAILABLE" \in told <=> Unavailable(Now.periods, e.room, e)
      /\ "INSTITUTION_HOLIDAY" \in told <=> e.date \in Now.holidays
      /\ "LECTURER_OCCUPIED" \in told <=> \E f \in Occupants(semester, e) : f.lecturer = e.lecturer
      /\ "ROOM_OCCUPIED" \in told <=> \E f \in Occupants(semester, e) : f.room = e.room
      /\ "COHORT_OCCUPIED" \in told <=> \E f \in Occupants(semester, e) : f.cohort = e.cohort
  BY <1>2 DEF ExamIssues
<1>4. /\ Unavailable(Now.periods, r.lecturer, r) <=> Unavailable(Now.periods, e.lecturer, e)
      /\ Unavailable(Now.periods, r.room, r) <=> Unavailable(Now.periods, e.room, e)
  BY <1>1 DEF Alike, Unavailable, Touches
<1> HIDE DEF r, told
<1>5. /\ "LECTURER_INELIGIBLE" \in Issues(r, Now) <=>
           e.lecturer \notin Now.lecturers[e.course] \cap Now.activeLecturers
      /\ "ROOM_INELIGIBLE" \in Issues(r, Now) <=> e.room \notin Now.rooms[e.course] \cap Now.activeRooms
      /\ "ROOM_CAPACITY" \in Issues(r, Now) <=> Now.capacity[e.room] < e.required
      /\ "LECTURER_UNAVAILABLE" \in Issues(r, Now) <=> Unavailable(Now.periods, e.lecturer, e)
      /\ "ROOM_UNAVAILABLE" \in Issues(r, Now) <=> Unavailable(Now.periods, e.room, e)
      /\ "INSTITUTION_HOLIDAY" \in Issues(r, Now) <=> e.date \in Now.holidays
  BY <1>1, <1>2, <1>4 DEF Issues, Alike
<1>6. Issues(r, Now) \cap Overlaps = {} BY OwnAreNoOverlaps
<1>7. \A f : /\ Shared(e, f) \subseteq Overlaps
             /\ "LECTURER_OVERLAP" \in Shared(e, f) <=> f.lecturer = e.lecturer
             /\ "ROOM_OVERLAP" \in Shared(e, f) <=> f.room = e.room
             /\ "COHORT_OVERLAP" \in Shared(e, f) <=> f.cohort = e.cohort
  BY DEF Shared, Overlaps
<1>8. \A i : ExamWrong(e, i) <=>
               i \in Issues(r, Now) \/ \E f \in Occupants(semester, e) : i \in Shared(e, f)
  BY ExamMeetsOccupants DEF ExamWrong, r
<1>9. /\ ExamWrong(e, "LECTURER_INELIGIBLE") <=> "LECTURER_INELIGIBLE" \in Issues(r, Now)
      /\ ExamWrong(e, "ROOM_INELIGIBLE") <=> "ROOM_INELIGIBLE" \in Issues(r, Now)
      /\ ExamWrong(e, "ROOM_CAPACITY") <=> "ROOM_CAPACITY" \in Issues(r, Now)
      /\ ExamWrong(e, "LECTURER_UNAVAILABLE") <=> "LECTURER_UNAVAILABLE" \in Issues(r, Now)
      /\ ExamWrong(e, "ROOM_UNAVAILABLE") <=> "ROOM_UNAVAILABLE" \in Issues(r, Now)
      /\ ExamWrong(e, "INSTITUTION_HOLIDAY") <=> "INSTITUTION_HOLIDAY" \in Issues(r, Now)
  <2>1. ASSUME NEW i, i \notin Overlaps PROVE ExamWrong(e, i) <=> i \in Issues(r, Now)
    BY <1>7, <1>8, <2>1
  <2>2. /\ "LECTURER_INELIGIBLE" \notin Overlaps /\ "ROOM_INELIGIBLE" \notin Overlaps
        /\ "ROOM_CAPACITY" \notin Overlaps /\ "LECTURER_UNAVAILABLE" \notin Overlaps
        /\ "ROOM_UNAVAILABLE" \notin Overlaps /\ "INSTITUTION_HOLIDAY" \notin Overlaps
    BY DEF Overlaps
  <2> QED BY <2>1, <2>2
<1>10. /\ ExamWrong(e, "LECTURER_OVERLAP") <=> \E f \in Occupants(semester, e) : f.lecturer = e.lecturer
       /\ ExamWrong(e, "ROOM_OVERLAP") <=> \E f \in Occupants(semester, e) : f.room = e.room
       /\ ExamWrong(e, "COHORT_OVERLAP") <=> \E f \in Occupants(semester, e) : f.cohort = e.cohort
  <2>1. ASSUME NEW i \in Overlaps
        PROVE  ExamWrong(e, i) <=> \E f \in Occupants(semester, e) : i \in Shared(e, f)
    BY <1>6, <1>8, <2>1
  <2>2. {"LECTURER_OVERLAP", "ROOM_OVERLAP", "COHORT_OVERLAP"} = Overlaps BY DEF Overlaps
  <2> QED BY <1>7, <2>1, <2>2
<1>11. \A i \in DOMAIN Rederived : i \in told <=> ExamWrong(e, Rederived[i])
  <2> HIDE DEF Now
  <2>1. /\ "RESPONSIBLE_LECTURER_INELIGIBLE" \in told <=> ExamWrong(e, "LECTURER_INELIGIBLE")
        /\ "ROOM_INELIGIBLE" \in told <=> ExamWrong(e, "ROOM_INELIGIBLE")
        /\ "INSUFFICIENT_ROOM_CAPACITY" \in told <=> ExamWrong(e, "ROOM_CAPACITY")
        /\ "LECTURER_UNAVAILABLE" \in told <=> ExamWrong(e, "LECTURER_UNAVAILABLE")
        /\ "ROOM_UNAVAILABLE" \in told <=> ExamWrong(e, "ROOM_UNAVAILABLE")
        /\ "INSTITUTION_HOLIDAY" \in told <=> ExamWrong(e, "INSTITUTION_HOLIDAY")
    BY <1>3, <1>5, <1>9
  <2>2. /\ "LECTURER_OCCUPIED" \in told <=> ExamWrong(e, "LECTURER_OVERLAP")
        /\ "ROOM_OCCUPIED" \in told <=> ExamWrong(e, "ROOM_OVERLAP")
        /\ "COHORT_OCCUPIED" \in told <=> ExamWrong(e, "COHORT_OVERLAP")
    BY <1>3, <1>10
  <2> QED BY <2>1, <2>2, RederivedIs
<1> QED BY <1>11 DEF told

(* ... and nothing else is wrong with it in the calendar.                  *)
LEMMA WrongIsExamIssue ==
  ASSUME RowsKnown, CohortsKept, WholeMinutes, NEW e \in semester.exams, NEW i, ExamWrong(e, i)
  PROVE  \E j \in DOMAIN Rederived : i = Rederived[j]
<1>1. "VALIDATION_DATA_MISSING" \notin Issues(ExamRecord(e), Now)
  BY ExamRecordIs, IssuesAmong DEF Alike, RowsKnown, Catalog, Now
<1>2. Issues(ExamRecord(e), Now) \subseteq
        {"LECTURER_INELIGIBLE", "LECTURER_UNAVAILABLE", "ROOM_INELIGIBLE", "ROOM_UNAVAILABLE",
         "ROOM_CAPACITY", "INSTITUTION_HOLIDAY"}
  BY <1>1, IssuesAmong
<1>3. ExamMeets(e, i) => i \in Overlaps
  BY SharedAreOverlaps DEF ExamMeets
<1>4. i \in {"LECTURER_INELIGIBLE", "LECTURER_UNAVAILABLE", "ROOM_INELIGIBLE", "ROOM_UNAVAILABLE",
             "ROOM_CAPACITY", "INSTITUTION_HOLIDAY",
               "LECTURER_OVERLAP", "ROOM_OVERLAP", "COHORT_OVERLAP"}
  BY <1>2, <1>3 DEF ExamWrong, Overlaps
<1> QED BY <1>4, RederivedIs

(* What the calendar shows of an exam is what is wrong with it.            *)
LEMMA CalendarShowsExam ==
  ASSUME RowsKnown, CohortsKept, WholeMinutes, NEW e \in semester.exams, NEW i, i \notin CalendarOnly
  PROVE  (\E f \in Findings(Content(NoIssues), Now) : ExamRef(e) \in f.sessions /\ f.issue = i) <=>
           ExamWrong(e, i)
<1> DEFINE r == ExamRecord(e)
           R == CalendarRecords
           F == Findings(Content(NoIssues), Now)
<1>1. r \in R /\ Unique(R, r) /\ r.ref = ExamRef(e)
  BY RecordsNamed, ExamRecordIs
<1>2. ExamWrong(e, i) <=> i \in Issues(r, Now) \/ \E x \in R : Colliding(r, x) /\ i \in Shared(r, x)
  BY DEF ExamWrong, ExamMeets
<1> HIDE DEF r, R
<1>3. ASSUME NEW f \in F, ExamRef(e) \in f.sessions, f.issue = i PROVE ExamWrong(e, i)
  <2>1. CASE f \in EvaluateOccurrences(R, Now)
    <3>1. r.ref \in f.sessions BY <1>1, <1>3
    <3>2. \/ f.sessions = {r.ref} /\ f.issue \in Issues(r, Now)
          \/ \E x \in R : Colliding(r, x) /\ f.issue \in Shared(r, x) /\ f.sessions = {r.ref, x.ref}
      BY <1>1, <2>1, <3>1, FoundOf
    <3> QED BY <1>2, <1>3, <3>2
  <2>2. CASE OfProfile(f)
    <3>1. PICK s \in semester.teaching : \E j \in ProfileIssues(Taught(s)) :
                 f = Finding(j, {TeachingRef(s)})
      BY <2>2 DEF OfProfile
    <3>2. f.sessions = {TeachingRef(s)} BY <3>1, FindingParts
    <3> QED BY <1>3, <3>2, RefsDiffer
  <2>3. CASE KeptWith(f, NoIssues)
    <3>1. PICK g \in semester.exams : \E j \in KeptOf(g, NoIssues[g]) : f = Finding(j, {ExamRef(g)})
      BY <2>3 DEF KeptWith
    <3>2. f.issue \in KeptOf(g, NoIssues[g]) BY <3>1, FindingParts
    <3>3. NoIssues[g] = {} BY DEF NoIssues
    <3> QED BY <1>3, <3>2, <3>3 DEF KeptOf, CalendarOnly
  <2>4. f \in EvaluateOccurrences(R, Now) \/ OfProfile(f) \/ KeptWith(f, NoIssues)
    BY FindingsAre DEF R
  <2> QED BY <2>1, <2>2, <2>3, <2>4
<1>4. \A f \in EvaluateOccurrences(R, Now) : f \in F
  BY FindingsAre DEF R
<1>5. ASSUME i \in Issues(r, Now) PROVE \E f \in F : ExamRef(e) \in f.sessions /\ f.issue = i
  <2>1. Found(R, Now, i, {r.ref}) BY <1>1, <1>5, FoundAlone
  <2> HIDE DEF F
  <2> QED BY <1>1, <1>4, <2>1 DEF Found
<1>6. ASSUME NEW x \in R, Colliding(r, x), i \in Shared(r, x)
      PROVE  \E f \in F : ExamRef(e) \in f.sessions /\ f.issue = i
  <2>1. Found(R, Now, i, {r.ref, x.ref}) BY <1>1, <1>6, FoundTogether
  <2> HIDE DEF F
  <2> QED BY <1>1, <1>4, <2>1 DEF Found
<1> QED BY <1>2, <1>3, <1>5, <1>6

LEMMA ExamsAgree ==
  ASSUME RowsKnown, CohortsKept, WholeMinutes, NEW e \in semester.exams,
         TeachingOf(semester, e.course) # {}
  PROVE  {f.issue : f \in {f \in Findings(Content(NoIssues), Now) : ExamRef(e) \in f.sessions}}
           \ CalendarOnly = {Rederived[i] : i \in ExamIssues(semester, e) \ DialogOnly}
<1> DEFINE F == Findings(Content(NoIssues), Now)
           shown == {f.issue : f \in {f \in F : ExamRef(e) \in f.sessions}} \ CalendarOnly
           told == {Rederived[i] : i \in ExamIssues(semester, e) \ DialogOnly}
<1>1. ExamIssues(semester, e) \subseteq DOMAIN Rederived \cup DialogOnly
  BY ExamIssuesAmong
<1>2. DOMAIN Rederived \cap DialogOnly = {}
  BY RederivedIs DEF DialogOnly
<1>3. \A i \in DOMAIN Rederived : Rederived[i] \notin CalendarOnly
  BY RederivedIs DEF CalendarOnly
<1>4. \A i : i \in told <=> \E j \in DOMAIN Rederived : i = Rederived[j] /\ ExamWrong(e, i)
  BY <1>1, <1>2, ExamIssueIsWrong
<1>5. \A i : i \in told <=> ExamWrong(e, i)
  BY <1>4, WrongIsExamIssue
<1>6. \A i : ExamWrong(e, i) => i \notin CalendarOnly
  BY <1>3, WrongIsExamIssue
<1>7. \A i : i \in shown <=> i \notin CalendarOnly /\
        \E f \in F : ExamRef(e) \in f.sessions /\ f.issue = i
  <2> HIDE DEF F
  <2> QED OBVIOUS
<1>8. \A i : i \notin CalendarOnly => ((\E f \in F : ExamRef(e) \in f.sessions /\ f.issue = i) <=>
        ExamWrong(e, i))
  BY CalendarShowsExam
<1> HIDE DEF F, shown, told
<1>9. \A i : i \in shown <=> i \in told
  BY <1>5, <1>6, <1>7, <1>8
<1>10. shown = told
  <2>1. shown \subseteq told /\ told \subseteq shown BY <1>9
  <2> QED BY <2>1
<1> QED BY <1>10 DEF shown, told, F

(* Publishing adds the order of exam and teaching and nothing else.        *)
LEMMA FrozenAgrees ==
  ASSUME RowsKnown, CohortsKept, WholeMinutes
  PROVE  LET issues == [e \in semester.exams |-> ExamIssues(semester, e)]
         IN  {f \in Findings(Content(issues), Now) : f.issue \notin DialogOnly}
               = Findings(Content(NoIssues), Now)
<1> DEFINE issues == [e \in semester.exams |-> ExamIssues(semester, e)]
<1>1. ASSUME NEW f \in EvaluateOccurrences(CalendarRecords, Now) PROVE f.issue \notin DialogOnly
  <2>1. CASE InConflict(CalendarRecords, f)
    <3>1. PICK x \in CalendarRecords, y \in CalendarRecords : \E i \in Shared(x, y) :
                 f = Finding(i, {x.ref, y.ref})
      BY <2>1 DEF InConflict
    <3>2. f.issue \in Shared(x, y) BY <3>1, FindingParts
    <3> QED BY <3>2, SharedAreOverlaps DEF Overlaps, DialogOnly
  <2>2. CASE AtIssue(CalendarRecords, Now, f)
    <3>1. PICK x \in CalendarRecords : \E i \in Issues(x, Now) : f = Finding(i, {x.ref})
      BY <2>2 DEF AtIssue
    <3>2. f.issue \in Issues(x, Now) BY <3>1, FindingParts
    <3> QED BY <3>2, IssuesAmong DEF DialogOnly
  <2> QED BY <2>1, <2>2, FoundIs
<1>2. ASSUME NEW f, OfProfile(f) PROVE f.issue \notin DialogOnly
  <2>1. PICK s \in semester.teaching : \E i \in ProfileIssues(Taught(s)) :
               f = Finding(i, {TeachingRef(s)})
    BY <1>2 DEF OfProfile
  <2>2. f.issue \in ProfileIssues(Taught(s)) BY <2>1, FindingParts
  <2>3. \A o, from, until, windows :
          /\ PeriodIssues(o, from, until) \cap DialogOnly = {}
          /\ WindowIssues(o, windows) \cap DialogOnly = {}
    BY DEF PeriodIssues, WindowIssues, DialogOnly
  <2> QED BY <2>2, <2>3 DEF ProfileIssues
<1>3. ASSUME NEW e \in semester.exams
      PROVE  {i \in KeptOf(e, issues[e]) : i \notin DialogOnly} = KeptOf(e, NoIssues[e])
  <2>1. issues[e] \ DOMAIN Rederived \subseteq DialogOnly BY ExamIssuesAmong
  <2>2. NoIssues[e] = {} BY DEF NoIssues
  <2>3. "OUTSIDE_RECOMMENDED_WINDOW" \notin DialogOnly BY DEF DialogOnly
  <2> HIDE DEF issues
  <2> QED BY <2>1, <2>2, <2>3 DEF KeptOf
<1> HIDE DEF issues
<1>4. \A f : KeptWith(f, NoIssues) <=> KeptWith(f, issues) /\ f.issue \notin DialogOnly
  <2>1. ASSUME NEW f, KeptWith(f, NoIssues) PROVE KeptWith(f, issues) /\ f.issue \notin DialogOnly
    <3>1. PICK e \in semester.exams : \E i \in KeptOf(e, NoIssues[e]) : f = Finding(i, {ExamRef(e)})
      BY <2>1 DEF KeptWith
    <3>2. PICK i \in KeptOf(e, NoIssues[e]) : f = Finding(i, {ExamRef(e)}) BY <3>1
    <3>3. i \in KeptOf(e, issues[e]) /\ i \notin DialogOnly BY <1>3
    <3>4. KeptWith(f, issues) BY <3>2, <3>3 DEF KeptWith
    <3>5. f.issue = i BY <3>2, FindingParts
    <3> QED BY <3>3, <3>4, <3>5
  <2>2. ASSUME NEW f, KeptWith(f, issues), f.issue \notin DialogOnly PROVE KeptWith(f, NoIssues)
    <3>1. PICK e \in semester.exams : \E i \in KeptOf(e, issues[e]) : f = Finding(i, {ExamRef(e)})
      BY <2>2 DEF KeptWith
    <3>2. PICK i \in KeptOf(e, issues[e]) : f = Finding(i, {ExamRef(e)}) BY <3>1
    <3>3. i \in KeptOf(e, NoIssues[e]) BY <1>3, <2>2, <3>2, FindingParts
    <3> QED BY <3>2, <3>3 DEF KeptWith
  <2> QED BY <2>1, <2>2
<1>5. ASSUME NEW f
      PROVE  f \in Findings(Content(issues), Now) /\ f.issue \notin DialogOnly <=>
               f \in Findings(Content(NoIssues), Now)
  BY <1>1, <1>2, <1>4, FindingsAre
<1>6. {f \in Findings(Content(issues), Now) : f.issue \notin DialogOnly}
        = Findings(Content(NoIssues), Now)
  <2> DEFINE F == Findings(Content(issues), Now)
             G == Findings(Content(NoIssues), Now)
  <2>1. \A f : f \in F /\ f.issue \notin DialogOnly <=> f \in G BY <1>5
  <2> HIDE DEF F, G
  <2>2. {f \in F : f.issue \notin DialogOnly} = G BY <2>1
  <2> QED BY <2>2 DEF F, G
<1> QED BY <1>6 DEF issues

(* The units of a course are those of its sessions in the calendar.        *)
LEMMA SameUnits ==
  ASSUME RowsKnown, NEW c
  PROVE  Scheduled({o \in Content(NoIssues) : o.course = c /\ o.kind = "teaching"})
           = Scheduled(TeachingOf(semester, c))
<1> DEFINE S == TeachingOf(semester, c)
           R == {o \in Content(NoIssues) : o.course = c /\ o.kind = "teaching"}
           h == [s \in S |-> Taught(s)]
<1>1. \A s : Taught(s).course = s.course /\ Taught(s).kind = "teaching" /\ Taught(s).units = s.units
             /\ Taught(s).ref = TeachingRef(s)
  BY DEF Taught, TeachingOccurrence, TeachingRef
<1>2. \A e : ExamOccurrence(e, NoIssues[e]).kind # "teaching"
  BY DEF ExamOccurrence
<1>3. IsFiniteSet(S) /\ \A s \in S : s \in semester.teaching /\ s.units \in Int
  BY FS_Subset DEF TeachingOf, RowsKnown
<1>4. \A s \in S, t \in S : Taught(s) = Taught(t) => s = t
  BY <1>1, <1>3, RefsDiffer DEF RowsKnown, Named
<1>5. \A s \in S : Taught(s) \in R
  BY <1>1 DEF Content, TeachingOf
<1>6. \A o \in R : \E s \in S : o = Taught(s)
  BY <1>1, <1>2 DEF Content, TeachingOf
<1> HIDE DEF R, S
<1>7. h \in Bijection(S, R) /\ \A s \in S : h[s].units = s.units
  BY <1>1, <1>4, <1>5, <1>6 DEF Bijection, Injection, Surjection, IsInjective
<1> HIDE DEF h
<1>8. Scheduled(R) = Scheduled(S)
  BY <1>3, <1>7, SameSum
<1> QED BY <1>8 DEF R, S

(* A course with a condition in the dialog needs review.                   *)
LEMMA ConditionsNeedReview ==
  ASSUME RowsKnown, CohortsKept, WholeMinutes, NEW c \in Courses(semester),
         \A e \in semester.exams : e.course = c => ExamIssues(semester, e) \cap DialogOnly = {},
         Conditions(semester, c) # {}
  PROVE  LET total == [d \in Courses(semester) |-> Now.course[d].total]
         IN  c \in NeedsReview(total, Content(NoIssues), Findings(Content(NoIssues), Now), {})
<1> DEFINE total == [d \in Courses(semester) |-> Now.course[d].total]
           C == Content(NoIssues)
           F == Findings(Content(NoIssues), Now)
           teaching == {o \in C : o.course = c /\ o.kind = "teaching"}
<1>1. /\ c \in DOMAIN total /\ total[c] = Now.course[c].total
      /\ Scheduled(teaching) = Scheduled(TeachingOf(semester, c))
  BY SameUnits
<1>2. ASSUME Remaining(Now.course[c].total, TeachingOf(semester, c)) > 0
      PROVE  Remaining(total[c], teaching) > 0
  BY <1>1, <1>2 DEF Remaining
<1>3. ASSUME NEW s \in TeachingOf(semester, c), DialogAlerts(semester)[s] # {}
      PROVE  \E o \in C : o.course = c /\ \E f \in F : o.ref \in f.sessions
  <2>1. s \in semester.teaching /\ s.course = c BY DEF TeachingOf
  <2>2. Told(DialogAlerts(semester), s) # {} BY <1>3, AlertsAreTold
  <2>3. Shown(F, s) # {} BY <2>1, <2>2, DialogTells, CalendarShows
  <2> HIDE DEF F
  <2>4. \E f \in F : TeachingRef(s) \in f.sessions BY <2>3, ShownAreFound
  <2>5. Taught(s) \in C /\ Taught(s).course = c /\ Taught(s).ref = TeachingRef(s)
    BY <2>1 DEF Content, Taught, TeachingOccurrence, TeachingRef
  <2> HIDE DEF C
  <2> QED BY <2>4, <2>5
<1>4. ASSUME NEW e \in semester.exams, e.course = c
      PROVE  LET o == ExamOccurrence(e, NoIssues[e])
             IN  o \in C /\ o.course = c /\ o.ref = ExamRef(e)
  BY <1>4 DEF Content, ExamOccurrence, ExamRef
<1>5. ASSUME NEW e \in semester.exams, e.course = c, ExamIssues(semester, e) # {}
      PROVE  \E o \in C : o.course = c /\ \E f \in F : o.ref \in f.sessions
  <2>1. ExamIssues(semester, e) \cap DialogOnly = {} BY <1>5
  <2>2. TeachingOf(semester, e.course) # {}
    BY <2>1 DEF ExamIssues, DialogOnly
  <2>3. PICK i \in DOMAIN Rederived : i \in ExamIssues(semester, e)
    BY <1>5, <2>1, ExamIssuesAmong
  <2>4. ExamWrong(e, Rederived[i]) BY <2>2, <2>3, ExamIssueIsWrong
  <2>5. Rederived[i] \notin CalendarOnly BY <2>3, RederivedIs DEF CalendarOnly
  <2>6. \E f \in F : ExamRef(e) \in f.sessions
    BY <2>4, <2>5, CalendarShowsExam
  <2> HIDE DEF C, F
  <2> QED BY <1>4, <1>5, <2>6
<1>6. ASSUME NEW e \in semester.exams, e.course = c, Outside(e)
      PROVE  \E o \in C : o.course = c /\ \E f \in F : o.ref \in f.sessions
  <2> DEFINE f == Finding("OUTSIDE_RECOMMENDED_WINDOW", {ExamRef(e)})
  <2>1. "OUTSIDE_RECOMMENDED_WINDOW" \in KeptOf(e, NoIssues[e]) BY <1>6 DEF KeptOf
  <2>2. KeptWith(f, NoIssues) BY <2>1 DEF KeptWith
  <2>3. ExamRef(e) \in f.sessions BY FindingParts
  <2> HIDE DEF f
  <2>4. f \in F BY <2>2, FindingsAre
  <2> HIDE DEF C, F
  <2> QED BY <1>4, <1>6, <2>3, <2>4
<1>7. \/ Remaining(Now.course[c].total, TeachingOf(semester, c)) > 0
      \/ \E s \in TeachingOf(semester, c) : DialogAlerts(semester)[s] # {}
      \/ \E e \in semester.exams : e.course = c /\ (ExamIssues(semester, e) # {} \/ Outside(e))
  BY DEF Conditions, Now
<1> HIDE DEF C, F
<1>8. Remaining(total[c], teaching) > 0 \/ \E o \in C : o.course = c /\
        \E f \in F : o.ref \in f.sessions
  <2> HIDE DEF teaching
  <2> QED BY <1>2, <1>3, <1>5, <1>6, <1>7
<1>9. c \in NeedsReview(total, C, F, {})
  <2> HIDE DEF total
  <2> QED BY <1>1, <1>8 DEF NeedsReview
<1> QED BY <1>9 DEF C, F

(* Whoever has such rows sees the same in all views.                       *)
LEMMA RowsAgree ==
  ASSUME semester # NotSaved => RowsKnown
  PROVE  ViewsAgree
<1> DEFINE working == WorkingContent(semester)
           findings == Findings(working, semester.facts)
           frozen == Findings(PublishedContent(Captured(semester)), semester.facts)
           examShown(e) ==
             {f.issue : f \in {f \in findings : <<"exam", e.ref>> \in f.sessions}} \ CalendarOnly
           examTold(e) == {Rederived[issue] : issue \in ExamIssues(semester, e) \ DialogOnly}
           total == [c \in Courses(semester) |-> semester.facts.course[c].total]
           issues == [e \in semester.exams |-> ExamIssues(semester, e)]
<1> SUFFICES ASSUME RowsKnown, CohortsKept, WholeMinutes
             PROVE  /\ \A s \in semester.teaching : Shown(findings, s) = Told(DialogAlerts(semester), s)
                    /\ StudyTypesKept => \A s \in semester.teaching :
                         Told(PageAlerts(semester), s) = Shown(findings, s)
                    /\ \A e \in semester.exams : TeachingOf(semester, e.course) # {} =>
                         examShown(e) = examTold(e)
                    /\ {f \in frozen : f.issue \notin DialogOnly} = findings
                    /\ \A c \in Courses(semester) :
                         (\A e \in semester.exams : e.course = c =>
                           ExamIssues(semester, e) \cap DialogOnly = {})
                         /\ Conditions(semester, c) # {} =>
                              c \in NeedsReview(total, working, findings, {})
  BY DEF ViewsAgree
<1>1. /\ semester.facts = Now
      /\ working = Content(NoIssues)
      /\ findings = Findings(Content(NoIssues), Now)
      /\ frozen = Findings(Content(issues), Now)
      /\ total = [c \in Courses(semester) |-> Now.course[c].total]
  BY WorkingIsContent, PublishedIsContent DEF Now
<1> HIDE DEF working, findings, frozen, total
<1>2. \A s \in semester.teaching : Shown(findings, s) = Told(DialogAlerts(semester), s)
  BY <1>1, DialogTells, CalendarShows
<1>3. ASSUME StudyTypesKept, NEW s \in semester.teaching
      PROVE  Told(PageAlerts(semester), s) = Shown(findings, s)
  BY <1>1, <1>3, PageTells, CalendarShows
<1>4. ASSUME NEW e \in semester.exams, TeachingOf(semester, e.course) # {}
      PROVE  examShown(e) = examTold(e)
  <2>1. examShown(e) = {f.issue : f \in {f \in findings : ExamRef(e) \in f.sessions}} \ CalendarOnly
    BY DEF ExamRef
  <2> HIDE DEF examShown
  <2> QED BY <1>1, <1>4, <2>1, ExamsAgree
<1>5. {f \in frozen : f.issue \notin DialogOnly} = findings
  BY <1>1, FrozenAgrees
<1>6. ASSUME NEW c \in Courses(semester),
             \A e \in semester.exams : e.course = c => ExamIssues(semester, e) \cap DialogOnly = {},
             Conditions(semester, c) # {}
      PROVE  c \in NeedsReview(total, working, findings, {})
  BY <1>1, <1>6, ConditionsNeedReview
<1> QED BY <1>2, <1>3, <1>4, <1>5, <1>6
-----------------------------------------------------------------------------
(* What the search offers once it has come to its second objective.        *)
OfferThere == stage > 1 => offer.arrangement \in Space(problem)

LEMMA NextOffer == Inv /\ OfferThere /\ [Next]_vars => OfferThere'
<1> SUFFICES ASSUME Inv, OfferThere, [Next]_vars PROVE OfferThere' OBVIOUS
<1>1. CASE SolveNothing
  BY <1>1 DEF SolveNothing, OfferThere, Unfinished
<1>2. CASE Stop BY <1>2 DEF Stop, OfferThere
<1>3. ASSUME NEW a \in Space(problem), ShowSolution(a) PROVE OfferThere'
  BY <1>3 DEF ShowSolution, OfferThere, Decoded
<1>4. ASSUME NEW a \in Space(problem), NothingGenerated(a) PROVE OfferThere'
  BY <1>4 DEF NothingGenerated, OfferThere
<1>5. ASSUME NEW a \in Space(problem), SolveOptimal(a) PROVE OfferThere'
  BY <1>5 DEF SolveOptimal, OfferThere, Decoded
<1>6. ASSUME NEW a \in Space(problem), NEW bound, SolveFeasible(a, bound) PROVE OfferThere'
  BY <1>6 DEF SolveFeasible, OfferThere, Unfinished, Decoded
<1>7. CASE UNCHANGED vars BY <1>7 DEF vars, OfferThere
<1> QED BY <1>1, <1>2, <1>3, <1>4, <1>5, <1>6, <1>7 DEF Next

(* The rows of teaching, whatever the courses of the catalog are.          *)
TaughtRows(rows, courses) ==
  /\ IsFiniteSet(rows) /\ Named(rows)
  /\ \A s \in rows : s.course \in courses /\ s.start \in Int /\ s.end \in Int /\ s.units \in Int

LEMMA AcceptedRows ==
  ASSUME NEW n \in Problems, NEW a \in Space(n)
  PROVE  TaughtRows(Accepted(Input(n), Arrangement(n, a)), DOMAIN Input(n).facts.course)
<1> DEFINE p == Input(n)
           sessions == Arrangement(n, a)
           kept == {d \in p.drafts : d.course \notin p.selected}
           rows == Accepted(p, sessions)
<1>1. Prepared(p) /\ Admitted(p, sessions, [c \in p.selected |-> Offered(p, c)])
  BY InputAssumption, SolutionsAssumption
<1>2. /\ IsFiniteSet(p.drafts) /\ IsFiniteSet(sessions)
      /\ p.selected \subseteq DOMAIN p.facts.course
      /\ \A d \in p.drafts : /\ d.course \in DOMAIN p.facts.course
                            /\ d.start \in Nat /\ d.end \in Nat /\ d.units \in Nat
                            /\ \A other \in p.drafts : other.ref = d.ref => other = d
  BY SavedAssumption
<1> HIDE DEF p, sessions
<1>3. rows = kept \cup sessions BY DEF Accepted
<1>4. IsFiniteSet(rows)
  <2>1. kept \in SUBSET p.drafts OBVIOUS
  <2> HIDE DEF kept, rows
  <2>2. IsFiniteSet(kept) BY <1>2, <2>1, FS_Subset
  <2> QED BY <1>2, <1>3, <2>2, FS_Union
<1>5. ASSUME NEW s \in sessions
      PROVE  s.course \in DOMAIN p.facts.course /\ s.start \in Int /\ s.end \in Int /\ s.units \in Int
  <2>1. s.course \in p.selected /\ Candidate(p, s.course, s) BY <1>1, AdmittedSessions
  <2>2. p.facts.course[s.course].min \in Nat /\ p.facts.course[s.course].max \in Nat
    BY <1>1, <2>1, PreparedCourse
  <2> QED BY <1>2, <2>1, <2>2 DEF Candidate
<1>6. ASSUME NEW s \in rows, NEW t \in rows, s.ref = t.ref PROVE s = t
  <2>1. CASE s \in sessions BY <1>1, <1>6, <2>1, RefsAreUnique
  <2>2. CASE t \in sessions BY <1>1, <1>6, <2>2, RefsAreUnique
  <2>3. CASE s \in kept /\ t \in kept BY <1>2, <1>6, <2>3
  <2> QED BY <1>3, <2>1, <2>2, <2>3
<1>7. TaughtRows(rows, DOMAIN p.facts.course)
  BY <1>2, <1>3, <1>4, <1>5, <1>6 DEF TaughtRows, Named
<1> QED BY <1>7 DEF rows, p, sessions

(* An edit leaves a session its id and its course.                         *)
LEMMA EditedRows ==
  ASSUME NEW rows, NEW courses, TaughtRows(rows, courses), NEW s \in rows, NEW entry \in Entries
  PROVE  TaughtRows((rows \ {s}) \cup {Edited(s, entry)}, courses)
<1> DEFINE t == Edited(s, entry)
           edited == (rows \ {s}) \cup {t}
<1>1. t.ref = s.ref /\ t.course = s.course /\ t.start = entry.start /\ t.end = entry.end
      /\ t.units = Kept(entry.units, s.units)
  BY DEF Edited
<1>2. t.start \in Int /\ t.end \in Int /\ t.units \in Int
  BY <1>1, EntriesAssumption DEF TaughtRows, Kept
<1> HIDE DEF t
<1>3. IsFiniteSet(edited)
  BY FS_RemoveElement, FS_AddElement DEF TaughtRows
<1>4. ASSUME NEW x \in edited, NEW y \in edited, x.ref = y.ref PROVE x = y
  <2>1. CASE x \in rows \ {s} /\ y \in rows \ {s} BY <1>4, <2>1 DEF TaughtRows, Named
  <2>2. CASE x = t /\ y = t BY <2>2
  <2>3. CASE x = t /\ y \in rows \ {s} BY <1>1, <1>4, <2>3 DEF TaughtRows, Named
  <2>4. CASE x \in rows \ {s} /\ y = t BY <1>1, <1>4, <2>4 DEF TaughtRows, Named
  <2> QED BY <2>1, <2>2, <2>3, <2>4
<1>5. \A x \in edited : x.course \in courses /\ x.start \in Int /\ x.end \in Int /\ x.units \in Int
  BY <1>1, <1>2 DEF TaughtRows
<1> QED BY <1>3, <1>4, <1>5 DEF TaughtRows, Named, t

(* What a saved semester is: the rows of teaching, and the exams and the   *)
(* facts of its problem, which the catalog may have changed since.         *)
SavedRow(n, plan) ==
  LET p == Input(n)
  IN  /\ DOMAIN plan = {"teaching", "exams", "facts", "studyType", "edited", "changed"}
      /\ plan.exams = p.exams
      /\ plan.facts \in CatalogChanges(p.facts) \cup {p.facts}
      /\ plan.changed \in BOOLEAN /\ (plan.changed = FALSE => plan.facts = p.facts)
      /\ TaughtRows(plan.teaching, DOMAIN p.facts.course)

SavedInv == semester # NotSaved => \E n \in Problems : SavedRow(n, semester)

LEMMA SavedAreKnown == SavedInv => (semester # NotSaved => RowsKnown)
<1> SUFFICES ASSUME SavedInv, semester # NotSaved PROVE RowsKnown OBVIOUS
<1>1. PICK n \in Problems : SavedRow(n, semester) BY DEF SavedInv
<1> DEFINE p == Input(n)
<1>2. /\ semester.exams = p.exams
      /\ semester.facts \in CatalogChanges(p.facts) \cup {p.facts}
      /\ TaughtRows(semester.teaching, DOMAIN p.facts.course)
  BY <1>1 DEF SavedRow
<1>3. /\ \A e \in p.exams : e.start \in Nat /\ e.end \in Nat
      /\ Named(p.exams)
      /\ \A facts \in CatalogChanges(p.facts) \cup {p.facts} :
           /\ Catalog(facts)
           /\ DOMAIN facts.course = DOMAIN p.facts.course
           /\ \A e \in p.exams : e.room \in DOMAIN facts.capacity
  BY SavedAssumption DEF Named
<1> HIDE DEF p
<1>4. /\ Catalog(semester.facts)
      /\ DOMAIN semester.facts.course = DOMAIN p.facts.course
      /\ \A e \in p.exams : e.room \in DOMAIN semester.facts.capacity
  BY <1>2, <1>3
<1> QED BY <1>2, <1>3, <1>4 DEF RowsKnown, TaughtRows

LEMMA SavedStepInv == Inv /\ OfferThere /\ SavedInv /\ [SavedNext]_<<vars, semester>> => SavedInv'
<1> SUFFICES ASSUME Inv, OfferThere, SavedInv, [SavedNext]_<<vars, semester>> PROVE SavedInv'
  OBVIOUS
<1>1. CASE UNCHANGED semester BY <1>1 DEF SavedInv, SavedRow
<1>2. CASE Accept
  <2>1. problem \in Problems /\ offer.arrangement \in Space(problem)
    BY <1>2 DEF Accept, Inv, OfferThere
  <2> DEFINE p == Input(problem)
             rows == Accepted(p, Arrangement(problem, offer.arrangement))
  <2>2. TaughtRows(rows, DOMAIN p.facts.course) BY <2>1, AcceptedRows
  <2>3. PICK types : semester' = [teaching |-> rows, exams |-> p.exams, facts |-> p.facts,
                                  studyType |-> types, edited |-> FALSE, changed |-> FALSE]
    BY <1>2 DEF Accept
  <2> HIDE DEF p, rows
  <2>4. /\ DOMAIN semester' = {"teaching", "exams", "facts", "studyType", "edited", "changed"}
        /\ semester'.teaching = rows /\ semester'.exams = p.exams /\ semester'.facts = p.facts
        /\ semester'.changed = FALSE
    BY <2>3
  <2>5. SavedRow(problem, semester')
    BY <2>2, <2>4 DEF SavedRow, p
  <2> QED BY <2>1, <2>5 DEF SavedInv
<1>3. ASSUME semester # NotSaved, NEW s \in semester.teaching,
               NEW entry \in Entries, EditSession(s, entry)
      PROVE  SavedInv'
  <2>1. PICK n \in Problems : SavedRow(n, semester) BY <1>3 DEF SavedInv
  <2> DEFINE rows == (semester.teaching \ {s}) \cup {Edited(s, entry)}
  <2>2. TaughtRows(rows, DOMAIN Input(n).facts.course)
    BY <2>1, EditedRows DEF SavedRow
  <2>3. semester' = [semester EXCEPT !.teaching = rows, !.edited = TRUE]
    BY <1>3 DEF EditSession
  <2> HIDE DEF rows
  <2>4. /\ DOMAIN semester' = DOMAIN semester
        /\ semester'.teaching = rows /\ semester'.exams = semester.exams
        /\ semester'.facts = semester.facts /\ semester'.changed = semester.changed
    BY <2>1, <2>3 DEF SavedRow
  <2>5. SavedRow(n, semester')
    BY <2>1, <2>2, <2>4 DEF SavedRow
  <2> QED BY <2>5 DEF SavedInv
<1>4. ASSUME semester # NotSaved, NEW facts \in CatalogChanges(semester.facts), ChangeCatalog(facts)
      PROVE  SavedInv'
  <2>1. PICK n \in Problems : SavedRow(n, semester) BY <1>4 DEF SavedInv
  <2>2. facts \in CatalogChanges(Input(n).facts)
    BY <1>4, <2>1 DEF SavedRow, ChangeCatalog
  <2>3. semester' = [semester EXCEPT !.facts = facts, !.changed = TRUE]
    BY <1>4 DEF ChangeCatalog
  <2>4. /\ DOMAIN semester' = DOMAIN semester
        /\ semester'.teaching = semester.teaching /\ semester'.exams = semester.exams
        /\ semester'.facts = facts /\ semester'.changed = TRUE
    BY <2>1, <2>3 DEF SavedRow
  <2>5. SavedRow(n, semester')
    BY <2>1, <2>2, <2>4 DEF SavedRow
  <2> QED BY <2>5 DEF SavedInv
<1> QED BY <1>1, <1>2, <1>3, <1>4 DEF SavedNext, SavedStep

(* However a planned semester is edited and its catalog changes, the four  *)
(* views agree on what is wrong with it: for every prepared input, every   *)
(* arrangement that may be accepted for it, every edit and every change.   *)
THEOREM ViewsAgreeAlways == SavedSpec => []ViewsAgree
<1>1. SavedInit => Inv /\ OfferThere /\ SavedInv
  BY InitInv DEF SavedInit, SavedInv, Init, OfferThere
<1>2. Inv /\ OfferThere /\ SavedInv /\ [SavedNext]_<<vars, semester>> =>
        (Inv /\ OfferThere /\ SavedInv)'
  <2>1. [SavedNext]_<<vars, semester>> => [Next]_vars BY DEF SavedNext
  <2> QED BY <2>1, NextInv, NextOffer, SavedStepInv
<1>3. SavedInv => ViewsAgree BY SavedAreKnown, RowsAgree
<1> QED BY <1>1, <1>2, <1>3, PTL DEF SavedSpec
-----------------------------------------------------------------------------
(* A session at another time of its day, and the sessions that are like it *)
(* in all but the time.                                                    *)
Moved(p, s, start) == Session(p, s.course, s.date, start, s.units, s.lecturer, s.room)

LEMMA MovedIs ==
  ASSUME NEW p, NEW s, NEW start
  PROVE  LET m == Moved(p, s, start)
         IN  /\ m.course = s.course /\ m.cohort = p.facts.course[s.course].cohort
             /\ m.date = s.date /\ m.ref = <<s.course, s.date>> /\ m.units = s.units
             /\ m.lecturer = s.lecturer /\ m.room = s.room
             /\ m.start = start /\ m.end = start + Duration(s.units)
BY DEF Moved, Session

(* What the exact sessions of a course are.                                *)
Exact(p, c, s) == s = Moved(p, s, s.start) /\ Candidate(p, c, s)

LEMMA ExactAre ==
  ASSUME NEW p, Prepared(p), NEW c \in p.selected, NEW s
  PROVE  s \in ExactSessions(p, c) <=> Exact(p, c, s)
<1>0. /\ p.facts.constraints[c].from \in Int /\ p.facts.constraints[c].until \in Int
      /\ \A w \in Windows(p, c) : w.from \in 0..DayEnd /\ w.until \in 0..DayEnd
      /\ DayEnd \in Nat
  BY PreparedCourse, TimesAssumption
<1>1. ASSUME s \in ExactSessions(p, c) PROVE Exact(p, c, s)
  <2>1. PICK date \in p.facts.constraints[c].from..p.facts.constraints[c].until,
             start \in 0..DayEnd, units \in p.facts.course[c].min..p.facts.course[c].max,
             lecturer \in p.facts.lecturers[c], room \in p.facts.rooms[c] :
          s = Session(p, c, date, start, units, lecturer, room)
    BY <1>1 DEF ExactSessions
  <2>2. ExactSession(p, s, Protected(p))
    BY <1>1 DEF ExactSessions
  <2>3. /\ s.course = c /\ s.ref = <<c, date>> /\ s.date = date /\ s.units = units
        /\ s.start = start /\ s.end = start + Duration(units)
        /\ s.lecturer = lecturer /\ s.room = room
    BY <2>1 DEF Session
  <2>4. s = Moved(p, s, s.start)
    BY <2>1, <2>3 DEF Moved
  <2>5. start \in Nat /\ date \in Int
    BY <1>0, <2>1
  <2>6. Duration(units) \in Nat \ {0}
    <3>1. units \in Nat \ {0} BY <2>1, PreparedCourse
    <3> QED BY <3>1, DurationIsPositive
  <2>7. /\ s.start \in Nat /\ s.end \in Nat
        /\ s.end - s.start = Duration(s.units) /\ s.start < s.end
    BY <2>3, <2>5, <2>6
  <2>8. s \notin Protected(p)
    <3>1. s \notin {d \in p.drafts : d.course \notin p.selected} BY <2>3
    <3>2. BeforeExams(p, s) BY <2>2 DEF ExactSession
    <3>3. s \notin ActiveExams(p) BY <2>3, <2>5, <2>7, <3>2 DEF BeforeExams
    <3> QED BY <3>1, <3>3 DEF Protected
  <2>9. \A f \in Protected(p) : Meet(s, f) => Shared(s, f) = {}
    BY <2>2, <2>8 DEF ExactSession
  <2> QED BY <2>2, <2>3, <2>4, <2>5, <2>7, <2>9 DEF Exact, Candidate, ExactSession
<1>2. ASSUME Exact(p, c, s) PROVE s \in ExactSessions(p, c)
  <2>1. s = Session(p, c, s.date, s.start, s.units, s.lecturer, s.room)
    BY <1>2 DEF Exact, Candidate, Moved
  <2>2. s.start \in 0..DayEnd
    BY <1>0, <1>2 DEF Exact, Candidate
  <2>3. s.date \in p.facts.constraints[c].from..p.facts.constraints[c].until
    BY <1>0, <1>2 DEF Exact, Candidate, Planned
  <2>4. s.lecturer \in p.facts.lecturers[c] /\ s.room \in p.facts.rooms[c]
        /\ s.units \in p.facts.course[c].min..p.facts.course[c].max
    BY <1>2 DEF Exact, Candidate, UsableLecturers, UsableRooms
  <2>5. ExactSession(p, s, Protected(p))
    BY <1>2 DEF Exact, Candidate, ExactSession
  <2> QED BY <2>1, <2>2, <2>3, <2>4, <2>5 DEF ExactSessions
<1> QED BY <1>1, <1>2

(* The offered ones are those that start at a start time.                  *)
LEMMA OfferedAre ==
  ASSUME NEW p, Prepared(p), NEW c \in p.selected, NEW s
  PROVE  s \in Offered(p, c) <=> Exact(p, c, s) /\ s.start \in StartTimes(p, s.date)
<1>1. ASSUME s \in Offered(p, c) PROVE Exact(p, c, s) /\ s.start \in StartTimes(p, s.date)
  <2>1. PICK date \in TeachingDates(p, c) : s \in SessionsAt(p, c, date, StartTimes(p, date))
    BY <1>1 DEF Offered
  <2>2. PICK start \in StartTimes(p, date), units \in p.facts.course[c].min..p.facts.course[c].max,
             lecturer \in UsableLecturers(p, c), room \in UsableRooms(p, c) :
          s = Session(p, c, date, start, units, lecturer, room)
    BY <2>1 DEF SessionsAt
  <2>3. /\ s.course = c /\ s.date = date /\ s.units = units /\ s.start = start
        /\ s.lecturer = lecturer /\ s.room = room
    BY <2>2 DEF Session
  <2>4. Candidate(p, c, s)
    BY <1>1, OfferedAreCandidates
  <2> QED BY <2>2, <2>3, <2>4 DEF Exact, Moved
<1>2. ASSUME Exact(p, c, s), s.start \in StartTimes(p, s.date) PROVE s \in Offered(p, c)
  <2>0. p.facts.constraints[c].from \in Int /\ p.facts.constraints[c].until \in Int
    BY PreparedCourse
  <2>1. s = Session(p, c, s.date, s.start, s.units, s.lecturer, s.room)
    BY <1>2 DEF Exact, Candidate, Moved
  <2>2. ASSUME NEW field \in {"cohort", "lecturer", "room"} PROVE ~ Occupied(p, s, field)
    <3> SUFFICES ASSUME NEW f \in Protected(p), Meet(s, f), f[field] = s[field] PROVE FALSE
      BY DEF Occupied
    <3>1. Shared(s, f) = {} BY <1>2 DEF Exact, Candidate
    <3>2. s.lecturer # f.lecturer /\ s.room # f.room /\ s.cohort # f.cohort BY <3>1 DEF Shared
    <3> QED BY <2>2, <3>2
  <2>3. Bookable(p, s)
    BY <1>2, <2>2 DEF Bookable, Exact, Candidate
  <2>4. s.date \in TeachingDates(p, c)
    BY <1>2, <2>0 DEF Exact, Candidate, Planned, TeachingDates
  <2>5. s \in SessionsAt(p, c, s.date, StartTimes(p, s.date))
    BY <1>2, <2>1, <2>3 DEF Exact, Candidate, SessionsAt
  <2> QED BY <2>4, <2>5 DEF Offered
<1> QED BY <1>1, <1>2

(* How late an exact session starts, and how long it may last.             *)
LEMMA ExactFits ==
  ASSUME NEW p, Prepared(p), NEW c \in p.selected, NEW s, Candidate(p, c, s)
  PROVE  /\ Duration(s.units) \in Durations(p, s.date) /\ Duration(s.units) \in Nat \ {0}
         /\ s.start <= Latest(p, s.date) /\ s.start < DayEnd
<1>1. PICK w \in Windows(p, c) : w.day = Weekday(s.date) /\ w.from <= s.start /\ s.end <= w.until
  BY DEF Candidate
<1>2. /\ w.from \in Nat /\ w.until \in Nat /\ w.until <= DayEnd /\ DayEnd \in Nat
  BY PreparedCourse, TimesAssumption
<1>3. /\ s.start \in Nat /\ s.end \in Nat /\ s.end - s.start = Duration(s.units) /\ s.start < s.end
      /\ s.units \in p.facts.course[c].min..p.facts.course[c].max
      /\ Planned(p, c, s.date)
  BY DEF Candidate
<1>4. Duration(s.units) \in Nat \ {0} /\ s.end = s.start + Duration(s.units)
  <2>1. s.units \in Nat \ {0} BY <1>3, PreparedCourse
  <2> QED BY <1>3, <2>1, DurationIsPositive
<1>5. Duration(s.units) <= w.until - w.from /\ s.start <= w.until - Duration(s.units) /\ s.start < DayEnd
  BY <1>1, <1>2, <1>3, <1>4
<1>6. Duration(s.units) \in Durations(p, s.date)
  BY <1>1, <1>3, <1>5 DEF Durations
<1>7. w \in WindowsOn(p, s.date)
  BY <1>1, <1>3 DEF WindowsOn
<1>8. Latest(p, s.date) \in Int /\ w.until - Duration(s.units) <= Latest(p, s.date)
  BY <1>6, <1>7, LatestBounds
<1> QED BY <1>2, <1>3, <1>4, <1>5, <1>6, <1>8

(* A session that does not start at a seed fits one tick earlier too.      *)
LEMMA PeriodEndsThere ==
  ASSUME NEW p, Prepared(p), NEW c \in p.selected, NEW s, Candidate(p, c, s),
         NEW resource \in p.facts.lecturers[c] \cup p.facts.rooms[c],
         ~ Unavailable(p.facts.periods, resource, s), s.start \in Nat \ {0},
         NEW m, m.date = s.date, m.start = s.start - 1, m.end = s.end - 1,
         Unavailable(p.facts.periods, resource, m)
  PROVE  s.start \in Seeds(p, s.date)
<1>1. PICK period \in p.facts.periods : period.resource = resource /\ Touches(period, m)
  BY DEF Unavailable
<1>2. ~ Touches(period, s)
  BY <1>1 DEF Unavailable
<1>3. /\ period.start \in Nat /\ period.end \in Nat
      /\ s.start \in Nat /\ s.end \in Nat /\ s.date \in Int
  BY DEF Prepared, Candidate
<1>4. /\ s.start - 1 < period.end => s.start <= period.end
      /\ s.end - 1 > period.start => s.end > period.start
  BY <1>3
<1>5. /\ period.end = s.start
      /\ IF period.recurring THEN Weekday(s.date) \in period.weekdays ELSE period.last = s.date
  <2>1. CASE period.recurring
    <3>1. Weekday(s.date) \in period.weekdays /\ s.start - 1 < period.end /\ s.end - 1 > period.start
      BY <1>1, <2>1 DEF Touches
    <3>2. ~ (s.start < period.end)
      BY <1>2, <1>4, <2>1, <3>1 DEF Touches
    <3> QED BY <1>3, <2>1, <3>1, <3>2
  <2>2. CASE ~ period.recurring
    <3>1. /\ s.date < period.last \/ (s.date = period.last /\ s.start - 1 < period.end)
          /\ s.date > period.first \/ (s.date = period.first /\ s.end - 1 > period.start)
      BY <1>1, <2>2 DEF Touches
    <3>2. ~ (s.date < period.last \/ (s.date = period.last /\ s.start < period.end))
      BY <1>2, <1>4, <2>2, <3>1 DEF Touches
    <3> QED BY <1>3, <2>2, <3>1, <3>2
  <2> QED BY <2>1, <2>2
<1>6. period.end \in PeriodEnds(p, c, s.date)
  BY <1>1, <1>5 DEF PeriodEnds
<1>7. Planned(p, c, s.date)
  BY DEF Candidate
<1> QED BY <1>5, <1>6, <1>7 DEF Seeds

LEMMA OneEarlier ==
  ASSUME NEW p, Prepared(p), NEW c \in p.selected, NEW s, Exact(p, c, s),
         s.start \notin Seeds(p, s.date)
  PROVE  s.start \in Nat \ {0} /\ Candidate(p, c, Moved(p, s, s.start - 1))
<1> DEFINE m == Moved(p, s, s.start - 1)
<1>0. Candidate(p, c, s) /\ s = Moved(p, s, s.start)
  BY DEF Exact
<1>1. PICK w \in Windows(p, c) : w.day = Weekday(s.date) /\ w.from <= s.start /\ s.end <= w.until
  BY <1>0 DEF Candidate
<1>2. /\ s.start \in Nat /\ s.end \in Nat /\ s.end - s.start = Duration(s.units) /\ s.start < s.end
      /\ s.course = c /\ s.date \in Int /\ Planned(p, c, s.date)
  BY <1>0 DEF Candidate
<1>3. w.from \in Nat /\ w.until \in Nat
  BY PreparedCourse, TimesAssumption
<1>4. Duration(s.units) \in Nat \ {0}
  BY <1>0, ExactFits
<1>5. w.from # s.start
  <2>1. w \in WindowsOn(p, s.date) BY <1>1, <1>2 DEF WindowsOn
  <2> QED BY <2>1 DEF Seeds
<1>6. s.start \in Nat \ {0} /\ w.from <= s.start - 1
  BY <1>1, <1>2, <1>3, <1>5
<1>7. /\ m.course = s.course /\ m.ref = <<s.course, s.date>> /\ m.date = s.date /\ m.units = s.units
      /\ m.lecturer = s.lecturer /\ m.room = s.room /\ m.cohort = s.cohort
      /\ m.start = s.start - 1 /\ m.end = (s.start - 1) + Duration(s.units)
  <2>1. s.cohort = p.facts.course[s.course].cohort BY <1>0, MovedIs
  <2> QED BY <2>1, MovedIs
<1> HIDE DEF m
<1>8. /\ m.start \in Nat /\ m.end \in Nat /\ m.end = s.end - 1
      /\ m.end - m.start = Duration(m.units) /\ m.start < m.end
  BY <1>2, <1>4, <1>6, <1>7
<1>9. w.from <= m.start /\ m.end <= w.until /\ w.day = Weekday(m.date)
  BY <1>1, <1>2, <1>3, <1>6, <1>7, <1>8
<1>10. BeforeExams(p, m)
  <2>1. BeforeExams(p, s) BY <1>0 DEF Candidate
  <2>2. \A e \in ActiveExams(p) : e.start \in Nat BY DEF ActiveExams, Prepared
  <2>3. \A e \in ActiveExams(p) : s.end <= e.start => m.end <= e.start BY <1>2, <1>8, <2>2
  <2> QED BY <1>7, <2>1, <2>3 DEF BeforeExams
<1>11. ~ Unavailable(p.facts.periods, m.lecturer, m) /\ ~ Unavailable(p.facts.periods, m.room, m)
  <2>1. s.lecturer \in p.facts.lecturers[c] /\ s.room \in p.facts.rooms[c]
    BY <1>0 DEF Candidate, UsableLecturers, UsableRooms
  <2>2. ~ Unavailable(p.facts.periods, s.lecturer, s) /\ ~ Unavailable(p.facts.periods, s.room, s)
    BY <1>0 DEF Candidate
  <2> QED BY <1>0, <1>6, <1>7, <1>8, <2>1, <2>2, PeriodEndsThere
<1>12. ASSUME NEW f \in Protected(p), Meet(m, f) PROVE Shared(m, f) = {}
  <2>1. f.start \in Nat /\ f.end \in Nat BY DEF Protected, ActiveExams, Prepared
  <2>2. f.date = s.date /\ s.start - 1 < f.end /\ f.start < s.end - 1 BY <1>7, <1>8, <1>12 DEF Meet
  <2>3. f.end # s.start
    <3>1. f.end \in {t.end : t \in {t \in Protected(p) : t.date = s.date}} BY <2>2
    <3> QED BY <3>1 DEF Seeds
  <2>4. Meet(s, f) BY <1>2, <2>1, <2>2, <2>3 DEF Meet
  <2>5. Shared(s, f) = {} BY <1>0, <2>4 DEF Candidate
  <2> QED BY <1>7, <2>5 DEF Shared
<1>13. Candidate(p, c, m)
  <2>1. /\ s.units \in p.facts.course[c].min..p.facts.course[c].max
        /\ s.date \notin p.unavailable \cup p.facts.holidays
        /\ s.lecturer \in UsableLecturers(p, c) /\ s.room \in UsableRooms(p, c)
    BY <1>0 DEF Candidate
  <2> QED BY <1>2, <1>7, <1>8, <1>9, <1>10, <1>11, <1>12, <2>1 DEF Candidate
<1> QED BY <1>6, <1>13 DEF m
-----------------------------------------------------------------------------
(* The sessions of an arrangement at other times: each is exact, and no two*)
(* of them collide.                                                        *)
Packed(p, a, at) ==
  /\ \A s \in a : Candidate(p, s.course, Moved(p, s, at[s]))
  /\ \A s, t \in a : s # t /\ Meet(Moved(p, s, at[s]), Moved(p, t, at[t]))
                       => Shared(Moved(p, s, at[s]), Moved(p, t, at[t])) = {}

(* A session that stands where nothing keeps it from moving to the left.   *)
Behind(a, at, s, t) == t # s /\ t.date = s.date /\ at[s] = at[t] + Duration(t.units)
Held(p, a, at, s) == at[s] \in Seeds(p, s.date) \/ \E t \in a : Behind(a, at, s, t)

(* Of the ways to pack an arrangement one has the earliest starts: the     *)
(* ticks below the starts of its sessions are the fewest.                  *)
Below(a, at) == {pair \in a \X (0..DayEnd) : pair[2] < at[pair[1]]}

LEMMA StartsOfPacked ==
  ASSUME NEW p, Prepared(p), NEW a, \A s \in a : s.course \in p.selected,
         NEW at \in [a -> Nat], Packed(p, a, at), NEW s \in a
  PROVE  /\ Exact(p, s.course, Moved(p, s, at[s]))
         /\ at[s] \in Nat /\ at[s] < DayEnd /\ at[s] <= Latest(p, s.date)
         /\ Duration(s.units) \in Durations(p, s.date) /\ Duration(s.units) \in Nat \ {0}
<1> DEFINE m == Moved(p, s, at[s])
<1>1. Candidate(p, s.course, m)
  BY DEF Packed
<1>2. m.course = s.course /\ m.date = s.date /\ m.units = s.units /\ m.start = at[s]
      /\ m.lecturer = s.lecturer /\ m.room = s.room
  BY MovedIs
<1>3. m = Moved(p, m, m.start)
  BY <1>2 DEF Moved
<1> HIDE DEF m
<1>4. /\ Duration(m.units) \in Durations(p, m.date) /\ Duration(m.units) \in Nat \ {0}
      /\ m.start <= Latest(p, m.date) /\ m.start < DayEnd
  BY <1>1, ExactFits
<1> QED BY <1>1, <1>2, <1>3, <1>4 DEF Exact, m

LEMMA MovedEarlier ==
  ASSUME NEW p, Prepared(p), NEW a, \A s \in a : s.course \in p.selected,
         NEW at \in [a -> Nat], Packed(p, a, at), NEW s \in a, ~ Held(p, a, at, s)
  PROVE  /\ at[s] \in Nat \ {0}
         /\ Packed(p, a, [at EXCEPT ![s] = at[s] - 1])
<1> DEFINE m == Moved(p, s, at[s])
           e == Moved(p, s, at[s] - 1)
           to == [at EXCEPT ![s] = at[s] - 1]
<1>1. /\ m.course = s.course /\ m.date = s.date /\ m.units = s.units /\ m.start = at[s]
      /\ m.lecturer = s.lecturer /\ m.room = s.room /\ m.end = at[s] + Duration(s.units)
      /\ e.date = s.date /\ e.start = at[s] - 1 /\ e.end = (at[s] - 1) + Duration(s.units)
      /\ e.lecturer = m.lecturer /\ e.room = m.room /\ e.cohort = m.cohort
  BY MovedIs
<1>2. Moved(p, m, at[s] - 1) = e
  BY <1>1 DEF Moved
<1>3. Exact(p, s.course, m) /\ at[s] \in Nat /\ Duration(s.units) \in Nat \ {0}
  BY StartsOfPacked
<1>4. at[s] \in Nat \ {0} /\ Candidate(p, s.course, e)
  <2>1. m.start \notin Seeds(p, m.date) BY <1>1 DEF Held
  <2> HIDE DEF m, e
  <2> QED BY <1>1, <1>2, <1>3, <2>1, OneEarlier
<1>5. /\ to \in [a -> Nat] /\ to[s] = at[s] - 1 /\ \A t \in a : t # s => to[t] = at[t]
  BY <1>4
<1>6. ASSUME NEW t \in a, t # s, Meet(e, Moved(p, t, at[t]))
      PROVE  Shared(e, Moved(p, t, at[t])) = {}
  <2> DEFINE n == Moved(p, t, at[t])
  <2>1. n.date = t.date /\ n.start = at[t] /\ n.end = at[t] + Duration(t.units)
    BY MovedIs
  <2>2. at[t] \in Nat /\ Duration(t.units) \in Nat \ {0}
    BY StartsOfPacked
  <2>3. at[s] # at[t] + Duration(t.units) \/ t.date # s.date
    BY <1>6 DEF Held, Behind
  <2>4. Meet(e, n) => Shared(m, n) = {} \/ ~ Meet(m, n)
    BY <1>6 DEF Packed
  <2> HIDE DEF m, n, e
  <2>5. Meet(e, n) => Meet(m, n)
    BY <1>1, <1>3, <2>1, <2>2, <2>3 DEF Meet
  <2>6. Shared(e, n) = Shared(m, n)
    BY <1>1 DEF Shared
  <2> QED BY <1>6, <2>4, <2>5, <2>6 DEF n
<1>7. ASSUME NEW x, NEW y PROVE Meet(x, y) <=> Meet(y, x)
  BY DEF Meet
<1>8. Packed(p, a, to)
  <2> HIDE DEF to
  <2>1. ASSUME NEW t \in a PROVE Candidate(p, t.course, Moved(p, t, to[t]))
    BY <1>4, <1>5, <2>1 DEF Packed
  <2>2. ASSUME NEW t \in a, NEW u \in a, t # u, Meet(Moved(p, t, to[t]), Moved(p, u, to[u]))
        PROVE  Shared(Moved(p, t, to[t]), Moved(p, u, to[u])) = {}
    <3>1. CASE t # s /\ u # s
      BY <1>5, <2>2, <3>1 DEF Packed
    <3>2. CASE t = s
      BY <1>5, <1>6, <2>2, <3>2
    <3>3. CASE u = s
      <4> DEFINE n == Moved(p, t, at[t])
      <4>1. t # s /\ Moved(p, t, to[t]) = n /\ Moved(p, u, to[u]) = e BY <1>5, <2>2, <3>3
      <4> HIDE DEF n, e
      <4>2. Meet(e, n) BY <1>7, <2>2, <4>1
      <4>3. Shared(e, n) = {} BY <1>6, <4>1, <4>2 DEF n
      <4>4. Shared(n, e) = Shared(e, n) BY DEF Shared
      <4> QED BY <4>1, <4>3, <4>4
    <3> QED BY <3>1, <3>2, <3>3
  <2> QED BY <2>1, <2>2 DEF Packed
<1> QED BY <1>4, <1>8

LEMMA LeftShifted ==
  ASSUME NEW p, Prepared(p), NEW a, IsFiniteSet(a), \A s \in a : s.course \in p.selected,
         NEW from \in [a -> Nat], Packed(p, a, from)
  PROVE  \E at \in [a -> Nat] : Packed(p, a, at) /\ \A s \in a : Held(p, a, at, s)
<1> DEFINE N == {n \in Nat : \E at \in [a -> Nat] : Packed(p, a, at) /\ Cardinality(Below(a, at)) = n}
<1>1. ASSUME NEW at \in [a -> Nat]
      PROVE  IsFiniteSet(Below(a, at)) /\ Cardinality(Below(a, at)) \in Nat
  <2>1. IsFiniteSet(0..DayEnd) BY TimesAssumption, FS_Interval
  <2>2. IsFiniteSet(a \X (0..DayEnd)) BY <2>1, FS_Product
  <2>3. Below(a, at) \in SUBSET (a \X (0..DayEnd)) BY DEF Below
  <2>4. IsFiniteSet(Below(a, at)) BY <2>2, <2>3, FS_Subset
  <2> QED BY <2>4, FS_CardinalityType
<1>2. N \in SUBSET Nat /\ N # {}
  BY <1>1
<1>3. PICK at \in [a -> Nat] : Packed(p, a, at) /\ \A n \in N : Cardinality(Below(a, at)) <= n
  <2>1. Min(N) \in N /\ \A n \in N : Min(N) <= n
    <3> HIDE DEF N
    <3> QED BY <1>2, MinOfNats
  <2> QED BY <2>1
<1>4. ASSUME NEW s \in a, ~ Held(p, a, at, s) PROVE FALSE
  <2> DEFINE to == [at EXCEPT ![s] = at[s] - 1]
  <2>1. at[s] \in Nat \ {0} /\ Packed(p, a, to)
    BY <1>3, <1>4, MovedEarlier
  <2>2. to \in [a -> Nat] /\ to[s] = at[s] - 1 /\ \A t \in a : t # s => to[t] = at[t]
    BY <2>1
  <2> HIDE DEF to
  <2>3. Cardinality(Below(a, to)) \in N
    BY <1>1, <2>1, <2>2
  <2>4. at[s] < DayEnd
    BY <1>3, StartsOfPacked
  <2>5. <<s, at[s] - 1>> \in Below(a, at) /\ <<s, at[s] - 1>> \notin Below(a, to)
    BY <2>1, <2>2, <2>4, TimesAssumption DEF Below
  <2>6. Below(a, to) \subseteq Below(a, at)
    <3> SUFFICES ASSUME NEW t \in a, NEW k \in 0..DayEnd, k < to[t] PROVE k < at[t]
      BY DEF Below
    <3>1. at[t] \in Nat /\ to[t] \in Nat /\ to[t] <= at[t] BY <2>1, <2>2
    <3>2. k \in Int BY TimesAssumption
    <3> QED BY <3>1, <3>2
  <2>7. /\ Cardinality(Below(a, to)) <= Cardinality(Below(a, at))
        /\ Cardinality(Below(a, at)) = Cardinality(Below(a, to)) => Below(a, at) = Below(a, to)
    <3>1. IsFiniteSet(Below(a, at)) BY <1>1
    <3> QED BY <2>6, <3>1, FS_Subset
  <2>8. Cardinality(Below(a, to)) \in Nat /\ Cardinality(Below(a, at)) \in Nat
    BY <1>1, <2>2
  <2> QED BY <1>3, <2>3, <2>5, <2>7, <2>8
<1> QED BY <1>3, <1>4

(* There every session starts at one of the start times that are tried.    *)
LEMMA HeldAtStarts ==
  ASSUME NEW p, Prepared(p), NEW a, \A s \in a : s.course \in p.selected,
         NEW at \in [a -> Nat], Packed(p, a, at), \A s \in a : Held(p, a, at, s)
  PROVE  \A s \in a : at[s] \in StartTimes(p, s.date)
<1> SUFFICES ASSUME NEW b \in a, at[b] \notin StartTimes(p, b.date) PROVE FALSE
  OBVIOUS
<1> DEFINE N == {n \in Nat : \E s \in a : at[s] = n /\ n \notin StartTimes(p, s.date)}
<1>1. N \in SUBSET Nat /\ at[b] \in N
  OBVIOUS
<1>2. PICK s \in a : at[s] \in N /\ at[s] \notin StartTimes(p, s.date) /\ \A n \in N : at[s] <= n
  <2>1. Min(N) \in N /\ \A n \in N : Min(N) <= n
    <3> HIDE DEF N
    <3> QED BY <1>1, MinOfNats
  <2> QED BY <2>1
<1>3. /\ at[s] \in Nat /\ at[s] <= Latest(p, s.date)
      /\ Duration(s.units) \in Durations(p, s.date)
  BY StartsOfPacked
<1>4. at[s] \notin Seeds(p, s.date)
  BY <1>2, <1>3, SeedsStart
<1>5. PICK t \in a : Behind(a, at, s, t)
  BY <1>4 DEF Held
<1>6. /\ at[t] \in Nat /\ Duration(t.units) \in Nat \ {0}
      /\ Duration(t.units) \in Durations(p, t.date)
  BY StartsOfPacked
<1>7. t.date = s.date /\ at[s] = at[t] + Duration(t.units)
  BY <1>5 DEF Behind
<1>8. at[t] < at[s]
  BY <1>6, <1>7
<1>9. at[t] \in StartTimes(p, s.date)
  <2>1. at[t] \notin N BY <1>2, <1>3, <1>6, <1>8
  <2> QED BY <1>6, <1>7, <2>1
<1> QED BY <1>2, <1>3, <1>6, <1>7, <1>9, StartsFollow
-----------------------------------------------------------------------------
(* The same sessions at other times: what an arrangement is worth does not *)
(* depend on the times.                                                    *)
SameButTimes(s, t) ==
  /\ t.course = s.course /\ t.cohort = s.cohort /\ t.date = s.date
  /\ t.units = s.units /\ t.lecturer = s.lecturer /\ t.room = s.room
Retimed(h, a, b) == h \in Bijection(a, b) /\ \A s \in a : SameButTimes(s, h[s])

LEMMA RetimedIs ==
  ASSUME NEW a, NEW b, NEW h, Retimed(h, a, b)
  PROVE  /\ h \in [a -> b] /\ \A t \in b : \E s \in a : h[s] = t
         /\ \A s, t \in a : h[s] = h[t] => s = t
BY DEF Retimed, Bijection, Injection, Surjection, IsInjective

LEMMA RetimedPlans ==
  ASSUME NEW a, NEW b, NEW h, Retimed(h, a, b), NEW c
  PROVE  Retimed([s \in PlanOf(a, c) |-> h[s]], PlanOf(a, c), PlanOf(b, c))
<1>1. /\ h \in [a -> b] /\ \A t \in b : \E s \in a : h[s] = t
      /\ \A s, t \in a : h[s] = h[t] => s = t
      /\ \A s \in a : SameButTimes(s, h[s]) /\ h[s].course = s.course
  BY RetimedIs DEF Retimed, SameButTimes
<1>2. PlanOf(a, c) \subseteq a /\ \A s \in PlanOf(a, c) : h[s] \in PlanOf(b, c)
  BY <1>1 DEF PlanOf
<1>3. \A t \in PlanOf(b, c) : \E s \in PlanOf(a, c) : h[s] = t
  BY <1>1 DEF PlanOf
<1> DEFINE g == [s \in PlanOf(a, c) |-> h[s]]
<1>4. g \in Bijection(PlanOf(a, c), PlanOf(b, c))
  BY <1>1, <1>2, <1>3 DEF Bijection, Injection, Surjection, IsInjective
<1> QED BY <1>1, <1>2, <1>4 DEF Retimed

LEMMA SameSize ==
  ASSUME NEW S, NEW T, IsFiniteSet(S), NEW h, h \in [S -> T],
         \A t \in T : \E s \in S : h[s] = t, \A s, t \in S : h[s] = h[t] => s = t
  PROVE  Cardinality(T) = Cardinality(S)
<1>1. ExistsBijection(S, T)
  BY DEF ExistsBijection, Bijection, Injection, Surjection, IsInjective
<1> QED BY <1>1, FS_Bijection

LEMMA SameWeeklyPairs ==
  ASSUME NEW a, NEW b, NEW h, Retimed(h, a, b), IsFiniteSet(a)
  PROVE  WeeklyPairs(b) = WeeklyPairs(a)
<1>1. /\ h \in [a -> b] /\ \A t \in b : \E s \in a : h[s] = t
      /\ \A s, t \in a : h[s] = h[t] => s = t
      /\ \A s \in a : h[s].date = s.date
  BY RetimedIs DEF Retimed, SameButTimes
<1> DEFINE Pairs(x) == {pair \in kSubset(2, x) : \A s, t \in pair : Week(s.date) = Week(t.date)}
           Of(pair) == {h[s] : s \in pair}
           g == [pair \in Pairs(a) |-> Of(pair)]
<1>2. ASSUME NEW pair \in SUBSET a PROVE Cardinality(Of(pair)) = Cardinality(pair)
  <2>1. IsFiniteSet(pair) BY FS_Subset
  <2> DEFINE k == [s \in pair |-> h[s]]
             T == Of(pair)
  <2>2. /\ k \in [pair -> T] /\ \A t \in T : \E s \in pair : k[s] = t
        /\ \A s, t \in pair : k[s] = k[t] => s = t
    BY <1>1
  <2> HIDE DEF k, T
  <2>3. Cardinality(T) = Cardinality(pair) BY <2>1, <2>2, SameSize
  <2> QED BY <2>3 DEF T
<1>3. ASSUME NEW pair \in Pairs(a) PROVE Of(pair) \in Pairs(b)
  <2>1. pair \in SUBSET a /\ Cardinality(pair) = 2 /\ \A s, t \in pair : Week(s.date) = Week(t.date)
    BY DEF kSubset
  <2>2. Of(pair) \in SUBSET b BY <1>1, <2>1
  <2>3. \A s, t \in Of(pair) : Week(s.date) = Week(t.date) BY <1>1, <2>1
  <2>4. Cardinality(Of(pair)) = 2 BY <1>2, <2>1
  <2> HIDE DEF Of
  <2> QED BY <2>2, <2>3, <2>4 DEF kSubset
<1>4. ASSUME NEW q \in Pairs(b) PROVE \E pair \in Pairs(a) : Of(pair) = q
  <2>1. q \in SUBSET b /\ Cardinality(q) = 2 /\ \A s, t \in q : Week(s.date) = Week(t.date)
    BY DEF kSubset
  <2> DEFINE pair == {s \in a : h[s] \in q}
  <2>2. Of(pair) = q BY <1>1, <2>1
  <2>3. pair \in SUBSET a /\ \A s, t \in pair : Week(s.date) = Week(t.date)
    BY <1>1, <2>1
  <2> HIDE DEF pair
  <2>4. Cardinality(pair) = 2 BY <1>2, <2>1, <2>2, <2>3
  <2>5. pair \in Pairs(a) BY <2>3, <2>4 DEF kSubset
  <2> QED BY <2>2, <2>5
<1>5. ASSUME NEW x \in SUBSET a, NEW y \in SUBSET a, Of(x) = Of(y) PROVE x = y
  <2>1. ASSUME NEW s \in x PROVE s \in y
    <3>1. h[s] \in Of(y) BY <1>5
    <3> QED BY <1>1, <3>1
  <2>2. ASSUME NEW s \in y PROVE s \in x
    <3>1. h[s] \in Of(x) BY <1>5
    <3> QED BY <1>1, <3>1
  <2> QED BY <2>1, <2>2
<1>6. Pairs(a) \subseteq SUBSET a
  BY DEF kSubset
<1>7. IsFiniteSet(Pairs(a))
  <2>1. IsFiniteSet(SUBSET a) BY FS_SUBSET
  <2> HIDE DEF Pairs
  <2> QED BY <1>6, <2>1, FS_Subset
<1> HIDE DEF Of
<1>8. /\ g \in [Pairs(a) -> Pairs(b)] /\ \A q \in Pairs(b) : \E pair \in Pairs(a) : g[pair] = q
      /\ \A x, y \in Pairs(a) : g[x] = g[y] => x = y
  <2> HIDE DEF Pairs
  <2> QED BY <1>3, <1>4, <1>5, <1>6
<1>9. WeeklyPairs(b) = Cardinality(Pairs(b)) /\ WeeklyPairs(a) = Cardinality(Pairs(a))
  BY DEF WeeklyPairs
<1> HIDE DEF Pairs, g
<1> QED BY <1>7, <1>8, <1>9, SameSize

LEMMA SameChanges ==
  ASSUME NEW a, NEW b, NEW h, Retimed(h, a, b), IsFiniteSet(a), NEW field \in {"lecturer", "room"}
  PROVE  Changes(b, field) = Changes(a, field)
<1>1. /\ h \in [a -> b] /\ \A t \in b : \E s \in a : h[s] = t
      /\ \A s, t \in a : h[s] = h[t] => s = t
      /\ \A s \in a : h[s].date = s.date /\ h[s][field] = s[field]
  <2>1. \A s \in a : h[s].date = s.date /\ h[s].lecturer = s.lecturer /\ h[s].room = s.room
    BY DEF Retimed, SameButTimes
  <2> QED BY <2>1, RetimedIs
<1> DEFINE Before(x, s) == {t \in x : t.date < s.date}
           Changed(x, s) == Before(x, s) # {} /\ \E t \in Before(x, s) :
                              (\A u \in Before(x, s) : u.date <= t.date) /\ t[field] # s[field]
           All(x) == {s \in x : Changed(x, s)}
           g == [s \in All(a) |-> h[s]]
<1>2. ASSUME NEW s \in a, NEW t \in a PROVE t \in Before(a, s) <=> h[t] \in Before(b, h[s])
  BY <1>1
<1>3. ASSUME NEW s \in a, NEW r \in Before(b, h[s]) PROVE \E t \in Before(a, s) : h[t] = r
  BY <1>1, <1>2
<1>4. \A s \in a : Before(a, s) \subseteq a
  OBVIOUS
<1> HIDE DEF Before
<1>5. ASSUME NEW s \in a PROVE Changed(a, s) <=> Changed(b, h[s])
  <2>1. ASSUME Changed(a, s) PROVE Changed(b, h[s])
    <3>1. PICK t \in Before(a, s) : (\A u \in Before(a, s) : u.date <= t.date) /\ t[field] # s[field]
      BY <2>1
    <3>2. h[t] \in Before(b, h[s]) /\ h[t][field] # h[s][field] BY <1>1, <1>2, <1>4, <3>1
    <3>3. \A u \in Before(b, h[s]) : u.date <= h[t].date BY <1>1, <1>3, <1>4, <3>1
    <3> QED BY <3>2, <3>3
  <2>2. ASSUME Changed(b, h[s]) PROVE Changed(a, s)
    <3>1. PICK r \in Before(b, h[s]) :
            (\A u \in Before(b, h[s]) : u.date <= r.date) /\ r[field] # h[s][field]
      BY <2>2
    <3>2. PICK t \in Before(a, s) : h[t] = r BY <1>3
    <3>3. t[field] # s[field] BY <1>1, <1>4, <3>1, <3>2
    <3>4. \A u \in Before(a, s) : u.date <= t.date BY <1>1, <1>2, <1>4, <3>1, <3>2
    <3> QED BY <3>2, <3>3, <3>4
  <2> QED BY <2>1, <2>2
<1>6. Changes(b, field) = Cardinality(All(b)) /\ Changes(a, field) = Cardinality(All(a))
  BY DEF Changes, Before
<1> HIDE DEF Changed
<1>7. IsFiniteSet(All(a))
  <2>1. All(a) \in SUBSET a OBVIOUS
  <2> HIDE DEF All
  <2> QED BY <2>1, FS_Subset
<1>8. /\ g \in [All(a) -> All(b)] /\ \A r \in All(b) : \E s \in All(a) : g[s] = r
      /\ \A s, t \in All(a) : g[s] = g[t] => s = t
  BY <1>1, <1>5
<1> HIDE DEF All, g
<1> QED BY <1>6, <1>7, <1>8, SameSize

LEMMA SameUnitsOf ==
  ASSUME NEW a, NEW b, NEW h, Retimed(h, a, b), IsFiniteSet(a), \A s \in a : s.units \in Int
  PROVE  UnitsOf(b) = UnitsOf(a)
<1>1. UnitsOf(a) = Scheduled(a) /\ UnitsOf(b) = Scheduled(b)
  BY DEF UnitsOf, SumOver, Scheduled
<1>2. h \in Bijection(a, b) /\ \A s \in a : h[s].units = s.units
  BY DEF Retimed, SameButTimes
<1> QED BY <1>1, <1>2, SameSum

Deviations(p, a) == SumOver(a, LAMBDA s : Deviation(p, s.course, s.units))

LEMMA DeviationsAreTotal ==
  ASSUME NEW p, NEW a
  PROVE  Deviations(p, a) = Total([s \in a |-> Deviation(p, s.course, s.units)], a)
<1> DEFINE v == [s \in a |-> Deviation(p, s.course, s.units)]
           F(f) == [T \in SUBSET a |-> IF T = {} THEN 0
                      ELSE Deviation(p, AnyOf(T).course, AnyOf(T).units) + f[T \ {AnyOf(T)}]]
           G(f) == [T \in SUBSET a |-> IF T = {} THEN 0 ELSE v[AnyOf(T)] + f[T \ {AnyOf(T)}]]
<1>1. ASSUME NEW f PROVE F(f) = G(f)
  <2>1. \A T \in SUBSET a : T # {} => Deviation(p, AnyOf(T).course, AnyOf(T).units) = v[AnyOf(T)]
    BY DEF AnyOf
  <2> QED BY <2>1
<1>2. (CHOOSE f : f = F(f)) = (CHOOSE f : f = G(f))
  <2> HIDE DEF F, G
  <2> QED BY <1>1, Zenon
<1> QED BY <1>2 DEF Deviations, Total, SumOver, MapThenSumSet, MapThenFoldSet, AnyOf

LEMMA SameDeviations ==
  ASSUME NEW p, Prepared(p), NEW a, NEW b, NEW h, Retimed(h, a, b), IsFiniteSet(a),
         \A s \in a : s.units \in Int /\ s.course \in p.selected
  PROVE  Deviations(p, b) = Deviations(p, a)
<1> DEFINE v == [s \in a |-> Deviation(p, s.course, s.units)]
           w == [s \in b |-> Deviation(p, s.course, s.units)]
<1>1. /\ h \in [a -> b] /\ \A t \in b : \E s \in a : h[s] = t
      /\ h \in Bijection(a, b)
      /\ \A s \in a : h[s].course = s.course /\ h[s].units = s.units
  BY RetimedIs DEF Retimed, SameButTimes
<1>2. ASSUME NEW c \in p.selected, NEW units \in Int PROVE Deviation(p, c, units) \in Int
  <2>1. p.facts.course[c].preferredTwice \in Int BY DEF Prepared
  <2> QED BY <2>1 DEF Deviation, Abs
<1>3. v \in [a -> Int] /\ \A s \in a : w[h[s]] = v[s]
  BY <1>1, <1>2
<1>4. w \in [b -> Int]
  BY <1>1, <1>2
<1>5. Deviations(p, a) = Total(v, a) /\ Deviations(p, b) = Total(w, b)
  BY DeviationsAreTotal
<1> HIDE DEF v, w
<1> QED BY <1>1, <1>3, <1>4, <1>5, SameTotal

(* Sums whose terms are the same.                                          *)
PairsOfAll(p, a) == SumCourses(p, LAMBDA c : WeeklyPairs(PlanOf(a, c)))
ChangesOfAll(p, a, field) == SumCourses(p, LAMBDA c : Changes(PlanOf(a, c), field))

LEMMA SameWeeklyPairsOfAll ==
  ASSUME NEW p, NEW a, NEW b,
         \A c \in p.selected : WeeklyPairs(PlanOf(a, c)) = WeeklyPairs(PlanOf(b, c))
  PROVE  PairsOfAll(p, a) = PairsOfAll(p, b)
<1> DEFINE F(x, f) == [T \in SUBSET p.selected |-> IF T = {} THEN 0
                         ELSE WeeklyPairs(PlanOf(x, AnyOf(T))) + f[T \ {AnyOf(T)}]]
<1>1. ASSUME NEW f PROVE F(a, f) = F(b, f)
  <2>1. \A T \in SUBSET p.selected : T # {} =>
          WeeklyPairs(PlanOf(a, AnyOf(T))) = WeeklyPairs(PlanOf(b, AnyOf(T)))
    BY DEF AnyOf
  <2> QED BY <2>1
<1>2. (CHOOSE f : f = F(a, f)) = (CHOOSE f : f = F(b, f))
  <2> HIDE DEF F
  <2> QED BY <1>1, Zenon
<1> QED BY <1>2 DEF PairsOfAll, SumCourses, SumOver, MapThenSumSet, MapThenFoldSet, AnyOf

LEMMA SameChangesOfAll ==
  ASSUME NEW p, NEW a, NEW b, NEW field,
         \A c \in p.selected : Changes(PlanOf(a, c), field) = Changes(PlanOf(b, c), field)
  PROVE  ChangesOfAll(p, a, field) = ChangesOfAll(p, b, field)
<1> DEFINE F(x, f) == [T \in SUBSET p.selected |-> IF T = {} THEN 0
                         ELSE Changes(PlanOf(x, AnyOf(T)), field) + f[T \ {AnyOf(T)}]]
<1>1. ASSUME NEW f PROVE F(a, f) = F(b, f)
  <2>1. \A T \in SUBSET p.selected : T # {} =>
          Changes(PlanOf(a, AnyOf(T)), field) = Changes(PlanOf(b, AnyOf(T)), field)
    BY DEF AnyOf
  <2> QED BY <2>1
<1>2. (CHOOSE f : f = F(a, f)) = (CHOOSE f : f = F(b, f))
  <2> HIDE DEF F
  <2> QED BY <1>1, Zenon
<1> QED BY <1>2 DEF ChangesOfAll, SumCourses, SumOver, MapThenSumSet, MapThenFoldSet, AnyOf

(* The rooms of a cohort on a date, and the cohorts' dates.                *)
TaughtWith(p, a) ==
  {s \in a \cup Protected(p) : s.cohort \in {p.facts.course[c].cohort : c \in p.selected}}
DaysTaught(p, a) == {<<s.cohort, s.date>> : s \in TaughtWith(p, a)}
RoomsOn(p, a, d) == {s.room : s \in {t \in TaughtWith(p, a) : <<t.cohort, t.date>> = d}}

LEMMA SameRooms ==
  ASSUME NEW p, NEW a, NEW b, NEW h, Retimed(h, a, b)
  PROVE  DaysTaught(p, a) = DaysTaught(p, b) /\ \A d : RoomsOn(p, a, d) = RoomsOn(p, b, d)
<1>1. /\ h \in [a -> b] /\ \A t \in b : \E s \in a : h[s] = t
      /\ \A s \in a : h[s].cohort = s.cohort /\ h[s].date = s.date /\ h[s].room = s.room
  BY RetimedIs DEF Retimed, SameButTimes
<1>2. ASSUME NEW s \in TaughtWith(p, a)
      PROVE  \E t \in TaughtWith(p, b) : t.cohort = s.cohort /\ t.date = s.date /\ t.room = s.room
  <2>1. CASE s \in a
    <3>1. h[s] \in TaughtWith(p, b) BY <1>1, <2>1 DEF TaughtWith
    <3> QED BY <1>1, <2>1, <3>1
  <2>2. CASE s \in Protected(p) BY <2>2 DEF TaughtWith
  <2> QED BY <2>1, <2>2 DEF TaughtWith
<1>3. ASSUME NEW t \in TaughtWith(p, b)
      PROVE  \E s \in TaughtWith(p, a) : t.cohort = s.cohort /\ t.date = s.date /\ t.room = s.room
  <2>1. CASE t \in b
    <3>1. PICK s \in a : h[s] = t BY <1>1, <2>1
    <3>2. s \in TaughtWith(p, a) BY <1>1, <3>1 DEF TaughtWith
    <3> QED BY <1>1, <3>1, <3>2
  <2>2. CASE t \in Protected(p) BY <2>2 DEF TaughtWith
  <2> QED BY <2>1, <2>2 DEF TaughtWith
<1>4. DaysTaught(p, a) = DaysTaught(p, b)
  BY <1>2, <1>3 DEF DaysTaught
<1>5. ASSUME NEW d PROVE RoomsOn(p, a, d) = RoomsOn(p, b, d)
  BY <1>2, <1>3 DEF RoomsOn
<1> QED BY <1>4, <1>5

LEMMA SameExtraRooms ==
  ASSUME NEW p, NEW a, NEW b, NEW h, Retimed(h, a, b)
  PROVE  ExtraRooms(p, b) = ExtraRooms(p, a)
<1> DEFINE Rooms(x) == SumOver(DaysTaught(p, x), LAMBDA d : Cardinality(RoomsOn(p, x, d)) - 1)
<1>1. ExtraRooms(p, a) = Rooms(a) /\ ExtraRooms(p, b) = Rooms(b)
  BY DEF ExtraRooms, DaysTaught, RoomsOn, TaughtWith
<1> DEFINE D == DaysTaught(p, a)
           F(x, f) == [T \in SUBSET D |-> IF T = {} THEN 0
                         ELSE (Cardinality(RoomsOn(p, x, AnyOf(T))) - 1) + f[T \ {AnyOf(T)}]]
<1>2. ASSUME NEW f PROVE F(a, f) = F(b, f)
  BY SameRooms
<1>3. (CHOOSE f : f = F(a, f)) = (CHOOSE f : f = F(b, f))
  <2> HIDE DEF F
  <2> QED BY <1>2, Zenon
<1>4. DaysTaught(p, b) = D
  BY SameRooms
<1>5. SumOver(D, LAMBDA d : Cardinality(RoomsOn(p, a, d)) - 1)
        = SumOver(D, LAMBDA d : Cardinality(RoomsOn(p, b, d)) - 1)
  BY <1>3 DEF SumOver, MapThenSumSet, MapThenFoldSet, AnyOf
<1> HIDE DEF D
<1>6. Rooms(a) = SumOver(D, LAMBDA d : Cardinality(RoomsOn(p, a, d)) - 1)
  BY DEF D
<1>7. Rooms(b) = SumOver(D, LAMBDA d : Cardinality(RoomsOn(p, b, d)) - 1)
  BY <1>4
<1> HIDE DEF Rooms
<1> QED BY <1>1, <1>5, <1>6, <1>7

LEMMA SameQuality ==
  ASSUME NEW p, Prepared(p), NEW a, NEW b, NEW h, Retimed(h, a, b), IsFiniteSet(a),
         \A s \in a : s.units \in Int /\ s.course \in p.selected
  PROVE  Quality(p, b) = Quality(p, a)
<1>1. ASSUME NEW c
      PROVE  /\ WeeklyPairs(PlanOf(a, c)) = WeeklyPairs(PlanOf(b, c))
             /\ Changes(PlanOf(a, c), "lecturer") = Changes(PlanOf(b, c), "lecturer")
             /\ Changes(PlanOf(a, c), "room") = Changes(PlanOf(b, c), "room")
  <2> DEFINE g == [s \in PlanOf(a, c) |-> h[s]]
  <2>1. Retimed(g, PlanOf(a, c), PlanOf(b, c)) BY RetimedPlans
  <2>2. IsFiniteSet(PlanOf(a, c))
    <3>1. PlanOf(a, c) \in SUBSET a BY DEF PlanOf
    <3> QED BY <3>1, FS_Subset
  <2> HIDE DEF g
  <2> QED BY <2>1, <2>2, SameWeeklyPairs, SameChanges
<1>2. PairsOfAll(p, a) = PairsOfAll(p, b)
  BY <1>1, SameWeeklyPairsOfAll
<1>3. ChangesOfAll(p, a, "lecturer") = ChangesOfAll(p, b, "lecturer")
  BY <1>1, SameChangesOfAll
<1>4. ChangesOfAll(p, a, "room") = ChangesOfAll(p, b, "room")
  BY <1>1, SameChangesOfAll
<1>5. ExtraRooms(p, b) = ExtraRooms(p, a)
  BY SameExtraRooms
<1>6. Deviations(p, b) = Deviations(p, a)
  BY SameDeviations
<1>7. UnitsOf(b) = UnitsOf(a)
  BY SameUnitsOf
<1>8. ScheduleShape(p, b) = ScheduleShape(p, a)
  BY <1>2, <1>6 DEF ScheduleShape, Deviations, PairsOfAll
<1> QED BY <1>3, <1>4, <1>5, <1>7, <1>8 DEF Quality, ChangesOfAll
-----------------------------------------------------------------------------
(* Units of a plan with and without a session.                             *)
LEMMA UnitsAdd ==
  ASSUME NEW T, IsFiniteSet(T), \A s \in T : s.units \in Int, NEW s \in T
  PROVE  /\ UnitsOf(T) = s.units + UnitsOf(T \ {s})
         /\ UnitsOf(T \ {s}) \in Int
<1> DEFINE v == [t \in T |-> t.units]
           R == T \ {s}
           w == [t \in R |-> t.units]
<1>1. v \in [T -> Int] /\ w \in [R -> Int] /\ v[s] = s.units /\ \A t \in R : w[t] = v[t]
  OBVIOUS
<1>2. UnitsOf(T) = Total(v, T) /\ UnitsOf(R) = Total(w, R)
  BY UnitsAreTotal DEF UnitsOf, SumOver, Scheduled
<1>3. IsFiniteSet(R) /\ SUBSET R \subseteq SUBSET T /\ R \in SUBSET T
  BY FS_RemoveElement
<1> HIDE DEF v, w, R
<1>4. PICK f \in [SUBSET T -> Int] : Counts(v, f, T) /\ Total(v, T) = f[T]
  BY <1>1, TotalCounts
<1>5. PICK g \in [SUBSET R -> Int] : Counts(w, g, R) /\ Total(w, R) = g[R]
  BY <1>1, <1>3, TotalCounts
<1>6. f[T] = v[s] + f[T \ {s}]
  <2>1. \A U \in SUBSET T : \A t \in U : Adds(v, f, U, t) BY <1>1, <1>4, AnyOrder
  <2> QED BY <2>1 DEF Adds
<1> DEFINE P == {U \in SUBSET R : f[U] = g[U]}
<1>7. {} \in P
  <2>1. f[{}] = 0 BY <1>4 DEF Counts, Sums
  <2>2. g[{}] = 0 BY <1>5 DEF Counts, Sums
  <2> QED BY <2>1, <2>2
<1>8. \A U \in SUBSET R : U # {} /\ U \ {AnyOf(U)} \in P => U \in P
  <2> SUFFICES ASSUME NEW U \in SUBSET R, U # {}, f[U \ {AnyOf(U)}] = g[U \ {AnyOf(U)}]
               PROVE  f[U] = g[U]
    OBVIOUS
  <2>1. w[AnyOf(U)] = v[AnyOf(U)] BY <1>1 DEF AnyOf
  <2>2. f[U] = v[AnyOf(U)] + f[U \ {AnyOf(U)}] BY <1>3, <1>4 DEF Counts, Sums
  <2>3. g[U] = w[AnyOf(U)] + g[U \ {AnyOf(U)}] BY <1>5 DEF Counts, Sums
  <2> QED BY <2>1, <2>2, <2>3
<1> HIDE DEF P
<1>9. SUBSET R \subseteq P
  BY <1>3, <1>7, <1>8, OneByOne
<1>10. f[R] = g[R]
  BY <1>9 DEF P
<1> QED BY <1>1, <1>2, <1>4, <1>5, <1>6, <1>10 DEF R

LEMMA NoUnits == UnitsOf({}) = 0
<1> DEFINE v == [t \in {} |-> t.units]
<1>1. UnitsOf({}) = Total(v, {})
  BY UnitsAreTotal DEF UnitsOf, SumOver, Scheduled
<1>2. IsFiniteSet({}) /\ v \in [{} -> Int]
  BY FS_EmptySet
<1> HIDE DEF v
<1>3. PICK f \in [SUBSET {} -> Int] : Counts(v, f, {}) /\ Total(v, {}) = f[{}]
  BY <1>2, TotalCounts
<1>4. f[{}] = 0
  BY <1>3 DEF Counts, Sums
<1> QED BY <1>1, <1>3, <1>4

(* What the fold over the dates of a course collects: its plans.           *)
Plans(p, c, sessions, dates) ==
  {plan \in SUBSET {t \in sessions : t.date \in dates} :
     /\ \A s, t \in plan : s.date = t.date => s = t
     /\ UnitsOf(plan) <= p.facts.course[c].total}
WithDate(p, c, sessions, date, plans) ==
  plans \cup {plan \in {q \cup {s} : q \in plans, s \in {t \in sessions : t.date = date}} :
                UnitsOf(plan) <= p.facts.course[c].total}

LEMMA PlansWithDate ==
  ASSUME NEW p, NEW c, p.facts.course[c].total \in Nat,
         NEW sessions, IsFiniteSet(sessions), \A s \in sessions : s.units \in Nat,
         NEW dates, NEW date \in dates
  PROVE  WithDate(p, c, sessions, date, Plans(p, c, sessions, dates \ {date}))
           = Plans(p, c, sessions, dates)
<1> DEFINE total == p.facts.course[c].total
           Fewer == Plans(p, c, sessions, dates \ {date})
<1>1. ASSUME NEW plan \in WithDate(p, c, sessions, date, Fewer)
      PROVE  plan \in Plans(p, c, sessions, dates)
  <2>1. CASE plan \in Fewer BY <2>1 DEF Plans
  <2>2. CASE plan \notin Fewer
    <3>1. PICK q \in Fewer, s \in {t \in sessions : t.date = date} :
            plan = q \cup {s} /\ UnitsOf(plan) <= total
      <4> HIDE DEF Fewer
      <4> QED BY <1>1, <2>2 DEF WithDate
    <3>2. /\ q \subseteq sessions /\ \A t \in q : t.date \in dates /\ t.date # date
          /\ \A t, u \in q : t.date = u.date => t = u
      BY DEF Plans
    <3>3. plan \in SUBSET {t \in sessions : t.date \in dates} BY <3>1, <3>2
    <3>4. \A t, u \in plan : t.date = u.date => t = u
      <4>1. \A t \in plan : t \in q \/ t = s BY <3>1
      <4>2. s.date = date BY <3>1
      <4> QED BY <3>2, <4>1, <4>2
    <3> QED BY <3>1, <3>3, <3>4 DEF Plans
  <2> QED BY <2>1, <2>2
<1>2. ASSUME NEW plan \in Plans(p, c, sessions, dates)
      PROVE  plan \in WithDate(p, c, sessions, date, Fewer)
  <2>1. /\ plan \subseteq sessions /\ \A t \in plan : t.date \in dates
        /\ \A t, u \in plan : t.date = u.date => t = u
        /\ UnitsOf(plan) <= total
    BY DEF Plans
  <2>2. CASE \A t \in plan : t.date # date
    <3>1. plan \in Fewer BY <2>1, <2>2 DEF Plans
    <3> QED BY <3>1 DEF WithDate
  <2>3. CASE ~ (\A t \in plan : t.date # date)
    <3>1. PICK s \in plan : s.date = date BY <2>3
    <3> DEFINE q == plan \ {s}
    <3>2. IsFiniteSet(plan) /\ \A t \in plan : t.units \in Int
      BY <2>1, FS_Subset
    <3>3. UnitsOf(plan) = s.units + UnitsOf(q) /\ UnitsOf(q) \in Int
      BY <3>2, UnitsAdd
    <3>4. s.units \in Nat /\ s \in sessions BY <2>1
    <3>5. UnitsOf(q) <= total BY <2>1, <3>3, <3>4
    <3>6. \A t \in q : t.date # date BY <2>1, <3>1
    <3>7. q \in Fewer
      <4>1. q \in SUBSET {t \in sessions : t.date \in dates \ {date}} BY <2>1, <3>6
      <4>2. \A t, u \in q : t.date = u.date => t = u BY <2>1
      <4> HIDE DEF q
      <4> QED BY <3>5, <4>1, <4>2 DEF Plans
    <3>8. plan = q \cup {s} OBVIOUS
    <3> HIDE DEF q, Fewer
    <3> QED BY <2>1, <3>1, <3>4, <3>7, <3>8 DEF WithDate
  <2> QED BY <2>2, <2>3
<1> QED BY <1>1, <1>2

LEMMA NoPlans ==
  ASSUME NEW p, NEW c, p.facts.course[c].total \in Nat, NEW sessions
  PROVE  Plans(p, c, sessions, {}) = {{}}
<1>1. {t \in sessions : t.date \in {}} = {} /\ UnitsOf({}) <= p.facts.course[c].total
  BY NoUnits
<1> QED BY <1>1 DEF Plans

LEMMA CoursePlansAre ==
  ASSUME NEW p, NEW c, p.facts.course[c].total \in Nat,
         NEW sessions, IsFiniteSet(sessions), \A s \in sessions : s.units \in Nat
  PROVE  CoursePlans(p, c, sessions) = Plans(p, c, sessions, {s.date : s \in sessions})
<1> DEFINE D == {s.date : s \in sessions}
           Step(T, f) == IF T = {} THEN {{}}
                         ELSE WithDate(p, c, sessions, AnyOf(T), f[T \ {AnyOf(T)}])
           F == CHOOSE f : f = [T \in SUBSET D |-> Step(T, f)]
           e == [T \in SUBSET D |-> Plans(p, c, sessions, T)]
<1>1. CoursePlans(p, c, sessions) = F[D]
  BY DEF CoursePlans, FoldSet, MapThenFoldSet, WithDate, AnyOf
<1>2. IsFiniteSet(D)
  <2> DEFINE h == [s \in sessions |-> s.date]
  <2>1. h \in Surjection(sessions, D) BY DEF Surjection
  <2> HIDE DEF h, D
  <2> QED BY <2>1, FS_Surjection
<1> HIDE DEF D
<1>3. ASSUME NEW T \in SUBSET D PROVE e[T] = Step(T, e)
  <2>1. CASE T = {} BY <2>1, NoPlans
  <2>2. CASE T # {}
    <3>1. AnyOf(T) \in T BY <2>2 DEF AnyOf
    <3>2. e[T \ {AnyOf(T)}] = Plans(p, c, sessions, T \ {AnyOf(T)}) OBVIOUS
    <3> QED BY <2>2, <3>1, <3>2, PlansWithDate
  <2> QED BY <2>1, <2>2
<1>4. e = [T \in SUBSET D |-> Step(T, e)]
  <2>1. \A T \in SUBSET D : e[T] = Step(T, e) BY <1>3
  <2> HIDE DEF Step
  <2> QED BY <2>1
<1>5. F = [T \in SUBSET D |-> Step(T, F)]
  <2> HIDE DEF Step, e
  <2> QED BY <1>4
<1> HIDE DEF F
<1> DEFINE P == {T \in SUBSET D : F[T] = Plans(p, c, sessions, T)}
<1>6. {} \in P
  <2>1. F[{}] = {{}} BY <1>5
  <2> QED BY <2>1, NoPlans
<1>7. \A T \in SUBSET D : T # {} /\ T \ {AnyOf(T)} \in P => T \in P
  <2> SUFFICES ASSUME NEW T \in SUBSET D, T # {},
                      F[T \ {AnyOf(T)}] = Plans(p, c, sessions, T \ {AnyOf(T)})
               PROVE  F[T] = Plans(p, c, sessions, T)
    OBVIOUS
  <2>1. AnyOf(T) \in T BY DEF AnyOf
  <2>2. F[T] = WithDate(p, c, sessions, AnyOf(T), F[T \ {AnyOf(T)}]) BY <1>5
  <2> QED BY <2>1, <2>2, PlansWithDate
<1> HIDE DEF P
<1>8. SUBSET D \subseteq P
  BY <1>2, <1>6, <1>7, OneByOne
<1>9. F[D] = Plans(p, c, sessions, D)
  BY <1>8 DEF P
<1> QED BY <1>1, <1>9 DEF D

(* What the fold over the courses collects: the admitted arrangements.     *)
Lists(p, offered) ==
  \A c \in p.selected : IsFiniteSet(offered[c]) /\ \A s \in offered[c] : s.course = c /\ s.units \in Nat

IsPlan(p, plan, c) ==
  /\ \A s, t \in plan : s.date = t.date => s = t
  /\ UnitsOf(plan) <= p.facts.course[c].total
Some(p, offered, C) ==
  {a \in SUBSET UNION {offered[c] : c \in C} :
     /\ \A c \in C : IsPlan(p, PlanOf(a, c), c)
     /\ \A c, d \in C : c # d => Disjoint(PlanOf(a, c), PlanOf(a, d))}
WithCourse(p, offered, c, found) ==
  {pair[1] \cup pair[2] : pair \in {q \in found \X CoursePlans(p, c, offered[c]) : Disjoint(q[1], q[2])}}

LEMMA CoursePlansIn ==
  ASSUME NEW p, Prepared(p), NEW offered, Lists(p, offered), NEW c \in p.selected, NEW plan
  PROVE  plan \in CoursePlans(p, c, offered[c]) <=> plan \subseteq offered[c] /\ IsPlan(p, plan, c)
<1> DEFINE D == {s.date : s \in offered[c]}
<1>1. p.facts.course[c].total \in Nat /\ IsFiniteSet(offered[c]) /\ \A s \in offered[c] : s.units \in Nat
  BY DEF Prepared, Lists
<1>2. CoursePlans(p, c, offered[c]) = Plans(p, c, offered[c], D)
  BY <1>1, CoursePlansAre
<1>3. {t \in offered[c] : t.date \in D} = offered[c]
  OBVIOUS
<1> HIDE DEF D
<1> QED BY <1>2, <1>3 DEF Plans, IsPlan

LEMMA DisjointIsMutual ==
  ASSUME NEW a, NEW b, Disjoint(a, b)
  PROVE  Disjoint(b, a)
<1> SUFFICES ASSUME NEW s \in b, NEW t \in a, Meet(s, t) PROVE Shared(s, t) = {}
  BY DEF Disjoint
<1>1. Meet(t, s) BY DEF Meet
<1>2. Shared(t, s) = {} BY <1>1 DEF Disjoint
<1> QED BY <1>2 DEF Shared

LEMMA SomeWithCourse ==
  ASSUME NEW p, Prepared(p), NEW offered, Lists(p, offered),
         NEW C \in SUBSET p.selected, NEW x \in C
  PROVE  WithCourse(p, offered, x, Some(p, offered, C \ {x})) = Some(p, offered, C)
<1> DEFINE Fewer == Some(p, offered, C \ {x})
<1>0. x \in p.selected /\ \A c \in C : \A s \in offered[c] : s.course = c
  BY DEF Lists
<1>1. ASSUME NEW a \in WithCourse(p, offered, x, Fewer) PROVE a \in Some(p, offered, C)
  <2>1. PICK pair \in Fewer \X CoursePlans(p, x, offered[x]) :
          Disjoint(pair[1], pair[2]) /\ a = pair[1] \cup pair[2]
    BY <1>1 DEF WithCourse
  <2> DEFINE q == pair[1]
             plan == pair[2]
  <2>2. q \in Fewer /\ plan \in CoursePlans(p, x, offered[x]) /\ Disjoint(q, plan) /\ a = q \cup plan
    BY <2>1
  <2> HIDE DEF q, plan
  <2>3. plan \subseteq offered[x] /\ IsPlan(p, plan, x)
    BY <1>0, <2>2, CoursePlansIn
  <2>4. /\ q \subseteq UNION {offered[c] : c \in C \ {x}}
        /\ \A c \in C \ {x} : IsPlan(p, PlanOf(q, c), c)
        /\ \A c, d \in C \ {x} : c # d => Disjoint(PlanOf(q, c), PlanOf(q, d))
    BY <2>2 DEF Some
  <2>5. \A s \in q : s.course \in C \ {x} BY <1>0, <2>4
  <2>6. \A s \in plan : s.course = x BY <1>0, <2>3
  <2>7. PlanOf(a, x) = plan /\ \A c \in C \ {x} : PlanOf(a, c) = PlanOf(q, c)
    BY <2>2, <2>5, <2>6 DEF PlanOf
  <2>8. a \subseteq UNION {offered[c] : c \in C}
    BY <2>2, <2>3, <2>4
  <2>9. \A c \in C : IsPlan(p, PlanOf(a, c), c)
    BY <2>3, <2>4, <2>7
  <2>10. ASSUME NEW c \in C, NEW d \in C, c # d PROVE Disjoint(PlanOf(a, c), PlanOf(a, d))
    <3>1. \A e : Disjoint(PlanOf(q, e), plan) BY <2>2 DEF Disjoint, PlanOf
    <3>2. \A e : Disjoint(plan, PlanOf(q, e)) BY <3>1, DisjointIsMutual
    <3> QED BY <2>4, <2>7, <2>10, <3>1, <3>2
  <2> QED BY <2>8, <2>9, <2>10 DEF Some
<1>2. ASSUME NEW a \in Some(p, offered, C) PROVE a \in WithCourse(p, offered, x, Fewer)
  <2>1. /\ a \subseteq UNION {offered[c] : c \in C}
        /\ \A c \in C : IsPlan(p, PlanOf(a, c), c)
        /\ \A c, d \in C : c # d => Disjoint(PlanOf(a, c), PlanOf(a, d))
    BY DEF Some
  <2> DEFINE q == {s \in a : s.course # x}
             plan == PlanOf(a, x)
  <2>2. \A s \in a : s.course \in C /\ s \in offered[s.course] BY <1>0, <2>1
  <2>3. plan \in CoursePlans(p, x, offered[x])
    <3>1. plan \subseteq offered[x] BY <2>2 DEF PlanOf
    <3> QED BY <1>0, <2>1, <3>1, CoursePlansIn
  <2>4. \A c \in C \ {x} : PlanOf(q, c) = PlanOf(a, c)
    BY DEF PlanOf
  <2>5. q \subseteq UNION {offered[c] : c \in C \ {x}}
    BY <2>2
  <2>6. Disjoint(q, plan)
    <3> SUFFICES ASSUME NEW s \in q, NEW t \in plan, Meet(s, t) PROVE Shared(s, t) = {}
      BY DEF Disjoint
    <3>1. s \in PlanOf(a, s.course) /\ s.course \in C /\ s.course # x BY <2>2 DEF PlanOf
    <3> QED BY <2>1, <3>1 DEF Disjoint
  <2>7. a = q \cup plan
    BY DEF PlanOf
  <2> HIDE DEF q, plan
  <2>8. q \in Fewer
    BY <2>1, <2>4, <2>5 DEF Some
  <2> HIDE DEF Fewer
  <2>9. <<q, plan>> \in Fewer \X CoursePlans(p, x, offered[x]) /\ <<q, plan>>[1] = q /\ <<q, plan>>[2] = plan
    BY <2>3, <2>8
  <2> QED BY <2>6, <2>7, <2>9 DEF WithCourse
<1> QED BY <1>1, <1>2

LEMMA SomeOfNone ==
  ASSUME NEW p, NEW offered
  PROVE  Some(p, offered, {}) = {{}}
BY DEF Some

LEMMA ArrangementsAre ==
  ASSUME NEW p, Prepared(p), NEW offered, Lists(p, offered), NEW a
  PROVE  a \in Arrangements(p, offered) <=> Admitted(p, a, offered)
<1> DEFINE D == p.selected
           Step(T, f) == IF T = {} THEN {{}}
                         ELSE WithCourse(p, offered, AnyOf(T), f[T \ {AnyOf(T)}])
           F == CHOOSE f : f = [T \in SUBSET D |-> Step(T, f)]
           e == [T \in SUBSET D |-> Some(p, offered, T)]
<1>1. Arrangements(p, offered) = F[D]
  BY DEF Arrangements, FoldSet, MapThenFoldSet, WithCourse, AnyOf
<1>2. IsFiniteSet(D)
  BY DEF Prepared
<1>3. ASSUME NEW T \in SUBSET D PROVE e[T] = Step(T, e)
  <2>1. CASE T = {} BY <2>1, SomeOfNone
  <2>2. CASE T # {}
    <3>1. AnyOf(T) \in T BY <2>2 DEF AnyOf
    <3>2. e[T \ {AnyOf(T)}] = Some(p, offered, T \ {AnyOf(T)}) OBVIOUS
    <3> QED BY <2>2, <3>1, <3>2, SomeWithCourse
  <2> QED BY <2>1, <2>2
<1>4. e = [T \in SUBSET D |-> Step(T, e)]
  <2>1. \A T \in SUBSET D : e[T] = Step(T, e) BY <1>3
  <2> HIDE DEF Step, D
  <2> QED BY <2>1
<1>5. F = [T \in SUBSET D |-> Step(T, F)]
  <2> HIDE DEF Step, e, D
  <2> QED BY <1>4
<1> HIDE DEF F
<1> DEFINE P == {T \in SUBSET D : F[T] = Some(p, offered, T)}
<1>6. {} \in P
  <2>1. F[{}] = {{}} BY <1>5
  <2> QED BY <2>1, SomeOfNone
<1>7. \A T \in SUBSET D : T # {} /\ T \ {AnyOf(T)} \in P => T \in P
  <2> SUFFICES ASSUME NEW T \in SUBSET D, T # {},
                      F[T \ {AnyOf(T)}] = Some(p, offered, T \ {AnyOf(T)})
               PROVE  F[T] = Some(p, offered, T)
    OBVIOUS
  <2>1. AnyOf(T) \in T BY DEF AnyOf
  <2>2. F[T] = WithCourse(p, offered, AnyOf(T), F[T \ {AnyOf(T)}]) BY <1>5
  <2> QED BY <2>1, <2>2, SomeWithCourse
<1> HIDE DEF P
<1>8. SUBSET D \subseteq P
  <2> HIDE DEF D
  <2> QED BY <1>2, <1>6, <1>7, OneByOne
<1>9. F[D] = Some(p, offered, D)
  BY <1>8 DEF P
<1>10. a \in Some(p, offered, p.selected) <=> Admitted(p, a, offered)
  BY DEF Some, Admitted, IsPlan, PlanOf
<1> QED BY <1>1, <1>9, <1>10
-----------------------------------------------------------------------------
(* The exact sessions are finitely many.                                   *)
LEMMA ExactAreFinite ==
  ASSUME NEW p, Prepared(p), NEW c \in p.selected
  PROVE  IsFiniteSet(ExactSessions(p, c)) /\ Offered(p, c) \in SUBSET ExactSessions(p, c)
<1> DEFINE Dates == p.facts.constraints[c].from..p.facts.constraints[c].until
           Units4 == p.facts.course[c].min..p.facts.course[c].max
           L == p.facts.lecturers[c]
           R == p.facts.rooms[c]
           T == Dates \X ((0..DayEnd) \X (Units4 \X (L \X R)))
           h == [s \in ExactSessions(p, c) |-> <<s.date, <<s.start, <<s.units, <<s.lecturer, s.room>>>>>>>>]
<1>1. IsFiniteSet(T)
  <2>1. IsFiniteSet(Dates) /\ IsFiniteSet(0..DayEnd) /\ IsFiniteSet(Units4)
    <3>1. /\ p.facts.constraints[c].from \in Int /\ p.facts.constraints[c].until \in Int
          /\ p.facts.course[c].min \in Int /\ p.facts.course[c].max \in Int
          /\ 0 \in Int /\ DayEnd \in Int
      BY PreparedCourse, TimesAssumption
    <3> QED BY <3>1, FS_Interval
  <2>2. IsFiniteSet(L) /\ IsFiniteSet(R)
    BY DEF Prepared
  <2> HIDE DEF Dates, Units4, L, R
  <2>3. IsFiniteSet(L \X R) BY <2>2, FS_Product
  <2>4. IsFiniteSet(Units4 \X (L \X R)) BY <2>1, <2>3, FS_Product
  <2>5. IsFiniteSet((0..DayEnd) \X (Units4 \X (L \X R))) BY <2>1, <2>4, FS_Product
  <2> QED BY <2>1, <2>5, FS_Product
<1>2. ASSUME NEW s \in ExactSessions(p, c)
      PROVE  h[s] \in T /\ s = Session(p, c, s.date, s.start, s.units, s.lecturer, s.room)
  <2>1. Exact(p, c, s) BY ExactAre
  <2>2. s = Session(p, c, s.date, s.start, s.units, s.lecturer, s.room)
    BY <2>1 DEF Exact, Candidate, Moved
  <2>3. s.lecturer \in L /\ s.room \in R /\ s.units \in Units4
    BY <2>1 DEF Exact, Candidate, UsableLecturers, UsableRooms
  <2>4. s.date \in Dates
    BY <2>1, PreparedCourse DEF Exact, Candidate, Planned
  <2>5. s.start \in 0..DayEnd
    <3>1. s.start < DayEnd /\ s.start \in Nat BY <2>1, ExactFits DEF Exact, Candidate
    <3> QED BY <3>1, TimesAssumption
  <2> HIDE DEF Dates, Units4, L, R
  <2> QED BY <2>2, <2>3, <2>4, <2>5
<1>3. h \in Injection(ExactSessions(p, c), T)
  <2>1. h \in [ExactSessions(p, c) -> T] BY <1>2
  <2>2. ASSUME NEW s \in ExactSessions(p, c), NEW t \in ExactSessions(p, c), h[s] = h[t] PROVE s = t
    <3>1. /\ s.date = t.date /\ s.start = t.start /\ s.units = t.units
          /\ s.lecturer = t.lecturer /\ s.room = t.room
      BY <2>2
    <3> HIDE DEF h
    <3> QED BY <1>2, <3>1
  <2> HIDE DEF h, T
  <2> QED BY <2>1, <2>2 DEF Injection, IsInjective
<1> HIDE DEF h, T
<1>4. IsFiniteSet(ExactSessions(p, c))
  BY <1>1, <1>3, FS_Injection
<1>5. Offered(p, c) \subseteq ExactSessions(p, c)
  BY OfferedAre, ExactAre
<1> QED BY <1>4, <1>5

AllExact(p) == [c \in p.selected |-> ExactSessions(p, c)]
AllOffered(p) == [c \in p.selected |-> Offered(p, c)]

LEMMA ListsOfSessions ==
  ASSUME NEW p, Prepared(p)
  PROVE  Lists(p, AllExact(p)) /\ Lists(p, AllOffered(p))
<1>1. ASSUME NEW c \in p.selected
      PROVE  /\ IsFiniteSet(AllExact(p)[c]) /\ IsFiniteSet(AllOffered(p)[c])
             /\ AllOffered(p)[c] \subseteq AllExact(p)[c]
             /\ \A s \in AllExact(p)[c] : s.course = c /\ s.units \in Nat
  <2>1. AllExact(p)[c] = ExactSessions(p, c) /\ AllOffered(p)[c] = Offered(p, c)
    BY DEF AllExact, AllOffered
  <2>2. IsFiniteSet(ExactSessions(p, c)) /\ Offered(p, c) \in SUBSET ExactSessions(p, c)
    BY ExactAreFinite
  <2>3. IsFiniteSet(Offered(p, c)) BY <2>2, FS_Subset
  <2>4. ASSUME NEW s \in ExactSessions(p, c) PROVE s.course = c /\ s.units \in Nat
    <3>1. s.course = c /\ s.units \in p.facts.course[c].min..p.facts.course[c].max
      BY ExactAre DEF Exact, Candidate
    <3> QED BY <3>1, PreparedCourse
  <2> QED BY <2>1, <2>2, <2>3, <2>4
<1> QED BY <1>1 DEF Lists

(* What is offered is among the exact arrangements.                        *)
LEMMA OfferedArrangementsAreExact ==
  ASSUME NEW p, Prepared(p), NEW a, Admitted(p, a, AllOffered(p))
  PROVE  Admitted(p, a, AllExact(p))
<1>1. \A c \in p.selected : AllOffered(p)[c] \subseteq AllExact(p)[c]
  BY ExactAreFinite DEF AllOffered, AllExact
<1>2. a \subseteq UNION {AllExact(p)[c] : c \in p.selected}
  BY <1>1 DEF Admitted
<1> QED BY <1>2 DEF Admitted

LEMMA ExactArrangements ==
  ASSUME NEW p, Prepared(p), NEW a, Admitted(p, a, AllExact(p))
  PROVE  /\ IsFiniteSet(a)
         /\ \A s \in a : s.course \in p.selected /\ Exact(p, s.course, s) /\ s.units \in Nat
         /\ \A s, t \in a : s.course = t.course /\ s.date = t.date => s = t
         /\ \A s, t \in a : s # t /\ Meet(s, t) => Shared(s, t) = {}
<1> DEFINE offered == AllExact(p)
<1>1. \A c \in p.selected : \A s \in offered[c] : s.course = c /\ s.units \in Nat
  BY ListsOfSessions DEF Lists
<1>2. \A c \in p.selected : \A s \in offered[c] : Exact(p, c, s)
  BY ExactAre DEF AllExact
<1>3. IsFiniteSet(a)
  <2>1. IsFiniteSet({offered[c] : c \in p.selected}) /\ \A T \in {offered[c] : c \in p.selected} : IsFiniteSet(T)
    <3> DEFINE h == [c \in p.selected |-> offered[c]]
               T == {offered[c] : c \in p.selected}
    <3>1. h \in Surjection(p.selected, T) BY DEF Surjection
    <3>2. IsFiniteSet(p.selected) BY DEF Prepared
    <3>3. \A x \in T : IsFiniteSet(x) BY ListsOfSessions DEF Lists
    <3> HIDE DEF h, T
    <3>4. IsFiniteSet(T) BY <3>1, <3>2, FS_Surjection
    <3> QED BY <3>3, <3>4 DEF T
  <2>2. IsFiniteSet(UNION {offered[c] : c \in p.selected})
    <3> HIDE DEF offered
    <3> QED BY <2>1, FS_UNION
  <2>3. a \in SUBSET UNION {offered[c] : c \in p.selected} BY DEF Admitted
  <2> HIDE DEF offered
  <2> QED BY <2>2, <2>3, FS_Subset
<1>4. Admitted(p, a, offered)
  OBVIOUS
<1> HIDE DEF offered
<1>5. /\ \A s \in a : s.course \in p.selected /\ s \in offered[s.course]
      /\ \A s, t \in a : s.course = t.course /\ s.date = t.date => s = t
      /\ \A s, t \in a : s # t /\ Meet(s, t) => Shared(s, t) = {}
  BY <1>1, <1>4, AdmittedAre
<1> QED BY <1>1, <1>2, <1>3, <1>5
-----------------------------------------------------------------------------
(* Every arrangement of exact sessions has a counterpart of offered ones,  *)
(* which is worth the same (_candidate_start_times: "Event closure contains*)
(* a left-shifted representative of every feasible packing").              *)
THEOREM LeftShiftedRepresentative ==
  ASSUME NEW p, Prepared(p), NEW a, Admitted(p, a, AllExact(p))
  PROVE  \E b : Admitted(p, b, AllOffered(p)) /\ Quality(p, b) = Quality(p, a)
<1> DEFINE from == [s \in a |-> s.start]
<1>1. /\ IsFiniteSet(a)
      /\ \A s \in a : s.course \in p.selected /\ Exact(p, s.course, s) /\ s.units \in Nat
      /\ \A s, t \in a : s.course = t.course /\ s.date = t.date => s = t
      /\ \A s, t \in a : s # t /\ Meet(s, t) => Shared(s, t) = {}
  BY ExactArrangements
<1>2. \A s \in a : s.start \in Nat /\ Moved(p, s, s.start) = s /\ Candidate(p, s.course, s)
  BY <1>1 DEF Exact, Candidate
<1>3. from \in [a -> Nat] /\ \A s \in a : from[s] = s.start
  BY <1>2
<1> HIDE DEF from
<1>4. Packed(p, a, from)
  BY <1>1, <1>2, <1>3 DEF Packed
<1>5. PICK at \in [a -> Nat] : Packed(p, a, at) /\ \A s \in a : Held(p, a, at, s)
  BY <1>1, <1>3, <1>4, LeftShifted
<1>6. \A s \in a : at[s] \in StartTimes(p, s.date)
  BY <1>1, <1>5, HeldAtStarts
<1> DEFINE h == [s \in a |-> Moved(p, s, at[s])]
           b == {Moved(p, s, at[s]) : s \in a}
<1>7. ASSUME NEW s \in a
      PROVE  /\ h[s] \in b /\ SameButTimes(s, h[s]) /\ h[s].start = at[s]
             /\ Exact(p, s.course, h[s])
  <2>1. h[s] = Moved(p, s, at[s]) OBVIOUS
  <2>2. s.cohort = p.facts.course[s.course].cohort BY <1>2, MovedIs
  <2>3. Exact(p, s.course, Moved(p, s, at[s])) BY <1>1, <1>5, StartsOfPacked
  <2>4. SameButTimes(s, Moved(p, s, at[s])) /\ Moved(p, s, at[s]).start = at[s]
    BY <2>2, MovedIs DEF SameButTimes
  <2> QED BY <2>1, <2>3, <2>4
<1>8. \A t \in b : \E s \in a : h[s] = t
  OBVIOUS
<1>9. \A s, t \in a : s # t /\ Meet(h[s], h[t]) => Shared(h[s], h[t]) = {}
  <2>1. \A s \in a : h[s] = Moved(p, s, at[s]) OBVIOUS
  <2> HIDE DEF h
  <2> QED BY <1>5, <2>1 DEF Packed
<1>10. \A s \in a : h[s] = Moved(p, s, at[s])
  OBVIOUS
<1>11. h \in [a -> b]
  OBVIOUS
<1> HIDE DEF h, b
<1>12. \A s \in a : h[s].course = s.course /\ h[s].date = s.date
  BY <1>7 DEF SameButTimes
<1>13. Retimed(h, a, b)
  <2>1. \A s, t \in a : h[s] = h[t] => s = t BY <1>1, <1>12
  <2>2. h \in Bijection(a, b)
    BY <1>8, <1>11, <2>1 DEF Bijection, Injection, Surjection, IsInjective
  <2> QED BY <1>7, <2>2 DEF Retimed
<1>14. Quality(p, b) = Quality(p, a)
  BY <1>1, <1>13, SameQuality
<1> DEFINE offered == AllOffered(p)
<1>15. ASSUME NEW s \in a PROVE h[s] \in offered[s.course]
  <2>1. h[s] \in Offered(p, s.course)
    BY <1>1, <1>6, <1>7, <1>12, OfferedAre
  <2> QED BY <1>1, <2>1 DEF AllOffered
<1> HIDE DEF offered
<1>16. b \subseteq UNION {offered[c] : c \in p.selected}
  BY <1>1, <1>8, <1>15
<1>17. ASSUME NEW c \in p.selected
       PROVE  /\ \A s, t \in PlanOf(b, c) : s.date = t.date => s = t
              /\ UnitsOf(PlanOf(b, c)) <= p.facts.course[c].total
  <2>1. \A s, t \in PlanOf(b, c) : s.date = t.date => s = t
    BY <1>1, <1>8, <1>12 DEF PlanOf
  <2> DEFINE g == [s \in PlanOf(a, c) |-> h[s]]
  <2>2. Retimed(g, PlanOf(a, c), PlanOf(b, c)) BY <1>13, RetimedPlans
  <2>3. IsFiniteSet(PlanOf(a, c)) /\ \A s \in PlanOf(a, c) : s.units \in Int
    <3>1. PlanOf(a, c) \in SUBSET a BY DEF PlanOf
    <3> QED BY <1>1, <3>1, FS_Subset
  <2> HIDE DEF g
  <2>4. UnitsOf(PlanOf(b, c)) = UnitsOf(PlanOf(a, c)) BY <2>2, <2>3, SameUnitsOf
  <2>5. UnitsOf(PlanOf(a, c)) <= p.facts.course[c].total BY DEF Admitted, PlanOf
  <2> QED BY <2>1, <2>4, <2>5
<1>18. ASSUME NEW c \in p.selected, NEW d \in p.selected, c # d
       PROVE  Disjoint(PlanOf(b, c), PlanOf(b, d))
  <2> SUFFICES ASSUME NEW x \in PlanOf(b, c), NEW y \in PlanOf(b, d), Meet(x, y)
               PROVE  Shared(x, y) = {}
    BY DEF Disjoint
  <2>1. x \in b /\ x.course = c /\ y \in b /\ y.course = d BY DEF PlanOf
  <2>2. \E s \in a, t \in a : h[s] = x /\ h[t] = y BY <1>8, <2>1
  <2>3. PICK s \in a, t \in a : h[s] = x /\ h[t] = y BY <2>2
  <2>4. s # t BY <1>12, <1>18, <2>1, <2>3
  <2> QED BY <1>9, <2>3, <2>4
<1>19. Admitted(p, b, offered)
  BY <1>16, <1>17, <1>18 DEF Admitted, PlanOf
<1> QED BY <1>14, <1>19 DEF offered
-----------------------------------------------------------------------------
(* Which of two qualities is better is decided by the first that differs.  *)
LEMMA PreferredOne ==
  ASSUME NEW q \in [1..5 -> Int], NEW r \in [1..5 -> Int], ~ Preferred(q, r), ~ Preferred(r, q)
  PROVE  q = r
<1>1. ASSUME NEW k \in 1..5, \A j \in 1..5 : j < k => q[j] = r[j] PROVE q[k] = r[k]
  <2>1. ~ Better(k, q[k], r[k]) /\ ~ Better(k, r[k], q[k])
    BY <1>1 DEF Preferred
  <2>2. q[k] \in Int /\ r[k] \in Int
    OBVIOUS
  <2> QED BY <2>1, <2>2 DEF Better
<1>2. q[1] = r[1]
  BY <1>1
<1>3. q[2] = r[2]
  BY <1>1, <1>2
<1>4. q[3] = r[3]
  BY <1>1, <1>2, <1>3
<1>5. q[4] = r[4]
  BY <1>1, <1>2, <1>3, <1>4
<1>6. q[5] = r[5]
  BY <1>1, <1>2, <1>3, <1>4, <1>5
<1> QED BY <1>2, <1>3, <1>4, <1>5, <1>6

(* What an element of the space is worth.                                  *)
ValuesOf(n, x) == [k \in 1..5 |-> Value(n, x, k)]

LEMMA SpaceIs ==
  ASSUME NEW n \in Problems, NEW x \in Space(n)
  PROVE  /\ Admitted(Input(n), Arrangement(n, x), AllOffered(Input(n)))
         /\ ValuesOf(n, x) \in [1..5 -> Int] /\ ValuesOf(n, x) = Quality(Input(n), Arrangement(n, x))
<1>1. Admitted(Input(n), Arrangement(n, x), AllOffered(Input(n)))
  BY SolutionsAssumption DEF AllOffered
<1> DEFINE w == Worth(Input(n), Arrangement(n, x), AllOffered(Input(n)))
           q == Quality(Input(n), Arrangement(n, x))
<1>2. \A k \in Stages : Value(n, x, k) = w[k]
  BY SpaceAssumption DEF AllOffered
<1>3. w[1] = q[1] /\ w[2] = q[2] /\ w[3] = q[3] /\ w[4] = q[4] /\ w[5] = q[5]
  BY DEF Worth, Quality
<1>4. DOMAIN q = 1..5 /\ q = [k \in 1..5 |-> q[k]]
  BY DEF Quality
<1> HIDE DEF w, q
<1>5. \A k \in 1..5 : k \in Stages /\ Value(n, x, k) \in Int
  BY ValueAssumption DEF Stages
<1>6. \A k \in 1..5 : Value(n, x, k) = q[k]
  BY <1>2, <1>3, <1>5
<1>7. ValuesOf(n, x) = q /\ ValuesOf(n, x) \in [1..5 -> Int]
  BY <1>4, <1>5, <1>6 DEF ValuesOf
<1> QED BY <1>1, <1>7 DEF q

(* The best quality of all exact arrangements is that of one that is as    *)
(* good as any in the space.                                               *)
LEMMA BestInSpace ==
  ASSUME NEW n \in Problems, NEW x \in Space(n),
         \A y \in Space(n) : ~ Preferred(ValuesOf(n, y), ValuesOf(n, x))
  PROVE  ValuesOf(n, x) = Best(n)
<1> DEFINE p == Input(n)
           qualities == {Quality(p, a) : a \in Arrangements(p, AllExact(p))}
<1>1. Prepared(p)
  BY InputAssumption
<1>2. Best(n) = CHOOSE q \in qualities : \A r \in qualities : ~ Preferred(r, q)
  BY BestAssumption DEF BestQuality, AllExact
<1>3. ValuesOf(n, x) \in qualities
  <2>1. Admitted(p, Arrangement(n, x), AllExact(p))
    BY <1>1, SpaceIs, OfferedArrangementsAreExact
  <2>2. Arrangement(n, x) \in Arrangements(p, AllExact(p))
    BY <1>1, <2>1, ListsOfSessions, ArrangementsAre
  <2> QED BY <2>2, SpaceIs
<1>4. ASSUME NEW q \in qualities PROVE \E y \in Space(n) : q = ValuesOf(n, y)
  <2>1. PICK a \in Arrangements(p, AllExact(p)) : q = Quality(p, a)
    OBVIOUS
  <2>2. Admitted(p, a, AllExact(p))
    BY <1>1, ListsOfSessions, ArrangementsAre
  <2>3. PICK b : Admitted(p, b, AllOffered(p)) /\ Quality(p, b) = Quality(p, a)
    BY <1>1, <2>2, LeftShiftedRepresentative
  <2>4. b \in Arrangements(p, AllOffered(p))
    BY <1>1, <2>3, ListsOfSessions, ArrangementsAre
  <2>5. PICK y \in Space(n) : b = Arrangement(n, y)
    BY <2>4, SpaceAssumption DEF AllOffered
  <2>6. ValuesOf(n, y) = Quality(p, b)
    BY <2>5, SpaceIs
  <2> QED BY <2>1, <2>3, <2>6
<1> HIDE DEF qualities
<1>5. \A r \in qualities : ~ Preferred(r, ValuesOf(n, x))
  BY <1>4
<1>6. Best(n) \in qualities /\ \A r \in qualities : ~ Preferred(r, Best(n))
  <2>1. \E q \in qualities : \A r \in qualities : ~ Preferred(r, q)
    BY <1>3, <1>5
  <2> QED BY <1>2, <2>1
<1>7. PICK y \in Space(n) : Best(n) = ValuesOf(n, y)
  BY <1>4, <1>6
<1>8. ~ Preferred(ValuesOf(n, x), ValuesOf(n, y)) /\ ~ Preferred(ValuesOf(n, y), ValuesOf(n, x))
  BY <1>3, <1>6, <1>7
<1>9. ValuesOf(n, x) \in [1..5 -> Int] /\ ValuesOf(n, y) \in [1..5 -> Int]
  BY SpaceIs
<1> QED BY <1>7, <1>8, <1>9, PreferredOne

LEMMA ProvenLosesNothing ==
  TypeOK /\ ProvenIsBest => PlannedStartsLoseNothing
<1> SUFFICES ASSUME TypeOK, ProvenIsBest, offer # NoOffer, offer.proof[5] = "proven"
             PROVE  ValuesOf(problem, offer.arrangement) = Best(problem)
  BY DEF PlannedStartsLoseNothing, ValuesOf
<1>1. problem \in Problems /\ offer.arrangement \in Space(problem)
  BY DEF TypeOK
<1>2. 5 \in Stages /\ \A k \in 1..5 : k \in Stages /\ (k < 5 \/ k = 5)
  BY DEF Stages
<1>3. \A k \in 1..5 : offer.proof[k] = "proven"
  BY <1>2 DEF ProvenIsBest
<1> DEFINE x == offer.arrangement
<1>4. ASSUME NEW y \in Space(problem), Preferred(ValuesOf(problem, y), ValuesOf(problem, x))
      PROVE  FALSE
  <2>1. PICK k \in 1..5 : /\ Better(k, ValuesOf(problem, y)[k], ValuesOf(problem, x)[k])
                          /\ \A j \in 1..5 : j < k => ValuesOf(problem, y)[j] = ValuesOf(problem, x)[j]
    BY <1>4 DEF Preferred
  <2>2. /\ Better(k, Value(problem, y, k), Value(problem, x, k))
        /\ \A j \in 1..5 : j < k => Value(problem, y, j) = Value(problem, x, j)
    BY <2>1 DEF ValuesOf
  <2>3. \A j \in Stages : j < k => j \in 1..5
    BY <2>1 DEF Stages
  <2>4. Agree(y, x, k)
    BY <2>2, <2>3 DEF Agree
  <2> QED BY <1>2, <1>3, <2>2, <2>4 DEF ProvenIsBest
<1> HIDE DEF x
<1>5. ValuesOf(problem, x) = Best(problem)
  BY <1>1, <1>4, BestInSpace DEF x
<1> QED BY <1>5 DEF x

(* The few start times that are tried lose nothing: an offer that is proven*)
(* up to the room changes is as good as any exact arrangement, at whatever *)
(* tick its sessions start.                                                *)
THEOREM PlannedStartsLoseNothingAlways == Spec => []PlannedStartsLoseNothing
BY TypeCorrect, ProvenIsBestAlways, ProvenLosesNothing, PTL
=============================================================================
