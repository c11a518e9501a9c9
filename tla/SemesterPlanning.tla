-------------------------- MODULE SemesterPlanning --------------------------
(***************************************************************************)
(* The search of SemesterSearch over the arrangements of TeachingPlacement:*)
(* what the solver process of backend/app/services/optimization_worker.py  *)
(* computes from a prepared input, and what the checks of the found        *)
(* arrangement and of the accepted drafts say of it.                       *)
(***************************************************************************)
EXTENDS SemesterSearch, TeachingPlacement

CONSTANTS
  Input(_),           (* the prepared input of a problem                     *)
  Arrangement(_, _),  (* the sessions of an element of its space             *)
  Best(_)             (* the best quality of a problem, computed once        *)

(* Every input is what load_operation prepares.                            *)
ASSUME InputAssumption == \A n \in Problems : Prepared(Input(n))

(* The solver keeps its promise: its solutions satisfy its model.          *)
ASSUME SolutionsAssumption ==
  \A n \in Problems :
    LET offered == [c \in Input(n).selected |-> Offered(Input(n), c)]
    IN  \A a \in Space(n) : Admitted(Input(n), Arrangement(n, a), offered)

(* It misses none of the solutions, and takes them for what they are worth.*)
ASSUME SpaceAssumption ==
  \A n \in Problems :
    LET offered == [c \in Input(n).selected |-> Offered(Input(n), c)]
    IN  /\ Arrangements(Input(n), offered) \subseteq {Arrangement(n, a) : a \in Space(n)}
        /\ \A a \in Space(n) :
             LET worth == Worth(Input(n), Arrangement(n, a), offered)
             IN  \A k \in Stages : Value(n, a, k) = worth[k]

ProblemRequired(p) == SumCourses(Input(p), LAMBDA c : Input(p).facts.course[c].total)

(* Every exact session there is, at whatever tick it starts.               *)
ExactSessions(p, c) ==
  {s \in UNION {{Session(p, c, date, start, units, lecturer, room) :
            start \in 0..DayEnd, units \in p.facts.course[c].min..p.facts.course[c].max,
            lecturer \in p.facts.lecturers[c], room \in p.facts.rooms[c]} :
              date \in p.facts.constraints[c].from..p.facts.constraints[c].until} :
     ExactSession(p, s, Protected(p))}

(* The units, shape, lecturer changes and room changes of an arrangement.  *)
Quality(p, a) ==
  <<UnitsOf(a), 0, ScheduleShape(p, a),
    SumCourses(p, LAMBDA c : Changes(PlanOf(a, c), "lecturer")),
    SumCourses(p, LAMBDA c : Changes(PlanOf(a, c), "room")) + ExtraRooms(p, a)>>

(* The best of these in their order, over all exact sessions.              *)
Preferred(x, y) ==
  \E k \in 1..5 : Better(k, x[k], y[k]) /\ \A j \in 1..5 : j < k => x[j] = y[j]
BestQuality(p) ==
  LET qualities == {Quality(p, a) :
                      a \in Arrangements(p, [c \in p.selected |-> ExactSessions(p, c)])}
  IN  CHOOSE q \in qualities : \A r \in qualities : ~ Preferred(r, q)

ASSUME BestAssumption == \A n \in Problems : Best(n) = BestQuality(Input(n))
-----------------------------------------------------------------------------
(* Whatever is offered passes the check of exact candidates                *)
(* (validate_exact_candidate), and once it is accepted none of its         *)
(* sessions raises an alert on the schedule page                           *)
(* (collect_validation_alerts): three pieces of code that test the same    *)
(* rules each in their own way.                                            *)
OffersAreSafe ==
  offer # NoOffer =>
    LET p == Input(problem)
        sessions == Arrangement(problem, offer.arrangement)
        alerts == ValidationAlerts(Accepted(p, sessions), p.facts)
    IN  /\ ValidExactCandidate(p, sessions)
        /\ \A s \in sessions : alerts[s] = {}

(* The few start times that are tried lose nothing: an offer that is proven*)
(* up to the room changes is as good in all of that as any exact           *)
(* arrangement, at whatever minute its sessions start                      *)
(* (_candidate_start_times: "No arbitrary time grid or rounding excludes   *)
(* sub-minute availability boundaries").                                   *)
PlannedStartsLoseNothing ==
  offer # NoOffer /\ offer.proof[5] = "proven" =>
    [k \in 1..5 |-> Value(problem, offer.arrangement, k)] = Best(problem)
=============================================================================
