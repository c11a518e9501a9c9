--------------------------- MODULE SemesterSearch ---------------------------
(***************************************************************************)
(* The search of optimize_semester in                                      *)
(* backend/app/services/semester_optimization.py as the solver process     *)
(* runs it (optimization_worker.py: generated sessions only, unproven      *)
(* results allowed): one objective after the other, each solved under the  *)
(* values proven for the ones before it.  Whatever is found on the way is  *)
(* offered to the planner with what is proven about it.  Which             *)
(* arrangements a problem has and what they are worth is given.            *)
(***************************************************************************)
EXTENDS Integers, FiniteSets

CONSTANTS
  Problems,      (* prepared inputs                                         *)
  Space(_),      (* the arrangements that satisfy the constraints           *)
  Value(_, _, _),(* of an arrangement of a problem, for an objective        *)
  Required(_),   (* units of the selected courses                           *)
  None

Objectives == <<"total_units", "conflicts", "schedule_shape", "lecturer_changes",
                "room_changes", "retained_drafts", "canonical_temporal", "canonical_resource">>
Stages == 1..8
Maximised == {1, 6}
Units(p, a) == Value(p, a, 1)

ASSUME ValueAssumption == \A p \in Problems : \A a \in Space(p) : \A k \in Stages : Value(p, a, k) \in Int
ASSUME RequiredAssumption ==
  \A p \in Problems : Required(p) \in Nat /\ \A a \in Space(p) : Units(p, a) <= Required(p)
ASSUME NoneAssumption == None \notin Int /\ \A p \in Problems : None \notin Space(p)

VARIABLES
  problem,
  stage,      (* index of the objective that is being solved; 9 at the end  *)
  proven,     (* objective_values: proven[k] for every k < stage            *)
  incumbent,  (* the best arrangement the running solve has shown, or None  *)
  offer,      (* last_candidate                                             *)
  outcome

vars == <<problem, stage, proven, incumbent, offer, outcome>>

Statuses == {"proven", "unfinished", "not_attempted"}
Outcomes == {"searching", "result", "timeout", "cancelled"}
NoOffer == [arrangement |-> None, proof |-> [k \in Stages |-> "not_attempted"],
            optimal |-> FALSE, bound |-> None]
Searching == outcome = "searching" /\ stage \in Stages

Init ==
  /\ problem \in Problems
  /\ stage = 1
  /\ proven = [k \in Stages |-> 0]
  /\ incumbent = None
  /\ offer = NoOffer
  /\ outcome = "searching"

Better(k, x, y) == IF k \in Maximised THEN x > y ELSE x < y

(* Mutant of Pinned: the value of the objective just proven is not added   *)
(* to the model before the next one is solved.                             *)
PinnedBefore(a) == \A k \in Stages : k + 1 < stage => Value(problem, a, k) = proven[k]

(* A solution of the model with the proven values pinned.                  *)
Pinned(a) == \A k \in Stages : k < stage => Value(problem, a, k) = proven[k]

(* Solutions of the running solve improve from one to the next; the last   *)
(* one is at least as good as the one shown before.                        *)
Improves(a) ==
  /\ Pinned(a)
  /\ incumbent # None => Better(stage, Value(problem, a, stage), Value(problem, incumbent, stage))

Reachable(a) == Pinned(a) /\ (a = incumbent \/ Improves(a))

Optimal(a) ==
  /\ Pinned(a)
  /\ \A b \in Space(problem) : Pinned(b) => ~ Better(stage, Value(problem, b, stage), Value(problem, a, stage))

(* Mutant of UpperBound: without a bound of the solver, what is scheduled. *)
ScheduledAsBound(scheduled, bound) ==
  IF bound = None \/ bound < scheduled THEN scheduled
  ELSE IF bound < Required(problem) THEN bound ELSE Required(problem)

(* valid_unit_upper_bound                                                  *)
UpperBound(scheduled, bound) ==
  IF bound = None \/ bound < scheduled THEN None
  ELSE IF bound < Required(problem) THEN bound ELSE Required(problem)

(* A bound the solver may report for the first objective.                  *)
BoundsUnits(bound) == \A b \in Space(problem) : Units(problem, b) <= bound

(* What decode says of a solution when the first n objectives are proven.  *)
Decoded(a, n, bound) ==
  [arrangement |-> a,
   proof |-> [k \in Stages |-> IF k <= n THEN "proven"
                               ELSE IF k = stage THEN "unfinished" ELSE "not_attempted"],
   optimal |-> n = 8,
   bound |-> IF n >= 1 THEN Units(problem, a) ELSE UpperBound(Units(problem, a), bound)]

Unfinished(candidate) ==
  [arrangement |-> candidate.arrangement, proof |-> [candidate.proof EXCEPT ![stage] = "unfinished"],
   optimal |-> FALSE, bound |-> candidate.bound]

(* on_solution_callback: an empty solution is kept to itself, and one that *)
(* follows another too quickly is not sent.                                *)
ShowSolution(a) ==
  /\ Searching
  /\ Improves(a)
  /\ incumbent' = a
  /\ \/ Units(problem, a) > 0 /\ offer' = Decoded(a, stage - 1, None)
     \/ UNCHANGED offer
  /\ UNCHANGED <<problem, stage, proven, outcome>>

(* NoGeneratedAlternative                                                  *)
NothingGenerated(a) ==
  /\ Searching
  /\ Units(problem, a) <= 0
  /\ Reachable(a)
  /\ outcome' = "timeout"
  /\ UNCHANGED <<problem, stage, proven, incumbent, offer>>

SolveOptimal(a) ==
  /\ Searching
  /\ Reachable(a) /\ Optimal(a)
  /\ Units(problem, a) > 0
  /\ proven' = [proven EXCEPT ![stage] = Value(problem, a, stage)]
  /\ offer' = Decoded(a, stage, None)
  /\ stage' = stage + 1
  /\ incumbent' = None
  /\ outcome' = IF stage = 8 THEN "result" ELSE "searching"
  /\ UNCHANGED problem

(* The time is up with a solution that is not proven; the bound is the     *)
(* solver's.                                                               *)
SolveFeasible(a, bound) ==
  /\ Searching
  /\ Reachable(a)
  /\ Units(problem, a) > 0
  /\ BoundsUnits(bound)
  /\ offer' = Unfinished(Decoded(a, stage - 1, bound))
  /\ outcome' = "result"
  /\ UNCHANGED <<problem, stage, proven, incumbent>>

(* The time is up between two objectives, or before the first solution.    *)
SolveNothing ==
  /\ Searching
  /\ incumbent = None
  /\ IF offer = NoOffer THEN outcome' = "timeout" /\ UNCHANGED offer
     ELSE outcome' = "result" /\ offer' = Unfinished(offer)
  /\ UNCHANGED <<problem, stage, proven, incumbent>>

(* The owner is gone or the planner has cancelled.                         *)
Stop ==
  /\ Searching
  /\ outcome' = "cancelled"
  /\ UNCHANGED <<problem, stage, proven, incumbent, offer>>

Next ==
  \/ SolveNothing \/ Stop
  \/ \E a \in Space(problem) :
       \/ ShowSolution(a) \/ NothingGenerated(a) \/ SolveOptimal(a)
       \/ \E bound \in 0..(Required(problem) + 1) : SolveFeasible(a, bound)

Spec == Init /\ [][Next]_vars
-----------------------------------------------------------------------------
(* The search and its offers hold what they should.                        *)
TypeOK ==
  /\ problem \in Problems
  /\ stage \in 1..9
  /\ proven \in [Stages -> Int]
  /\ incumbent \in Space(problem) \cup {None}
  /\ \/ offer = NoOffer
     \/ offer \in [arrangement : Space(problem), proof : [Stages -> Statuses],
                   optimal : BOOLEAN, bound : Nat \cup {None}]
  /\ outcome \in Outcomes

(* What an offer calls proven is so (I-006 FR-015): everything before a    *)
(* proven objective is proven too, no arrangement of the problem is as good*)
(* in all of that and better in it, and only an offer that is proven for   *)
(* all objectives is called optimal.                                       *)
Agree(a, b, k) == \A j \in Stages : j < k => Value(problem, a, j) = Value(problem, b, j)
ProvenIsBest ==
  offer # NoOffer =>
    /\ \A k \in Stages : offer.proof[k] = "proven" =>
         /\ \A j \in Stages : j < k => offer.proof[j] = "proven"
         /\ \A b \in Space(problem) :
              Agree(b, offer.arrangement, k) =>
                ~ Better(k, Value(problem, b, k), Value(problem, offer.arrangement, k))
    /\ offer.optimal => \A k \in Stages : offer.proof[k] = "proven"

(* The units an offer says are possible at most are so.                    *)
BoundHolds ==
  offer # NoOffer /\ offer.bound # None =>
    \A b \in Space(problem) : Units(problem, b) <= offer.bound

(* What the planner is told about an offer, which may be shown at any      *)
(* moment of the search and outlives a deadline, is true of the whole      *)
(* space and not only of what has been tried.                              *)
OffersAreHonest == ProvenIsBest /\ BoundHolds
=============================================================================
