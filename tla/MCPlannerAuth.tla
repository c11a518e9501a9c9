---------------------------- MODULE MCPlannerAuth ----------------------------
(* Planner accounts of small installations, for TLC. *)
EXTENDS PlannerAuth, TLC

Symmetry == Permutations(Clients) \cup Permutations(Passwords) \cup Permutations(Secrets)

(* Bounds: one browser over several accounts for a short time, or several  *)
(* browsers over one account whose administration is left alone, for a     *)
(* time in which blocks and sessions end.                                  *)
OneBrowser ==
  /\ Cardinality({c \in Clients : request[c] # Idle \/ list[c] # None}) <= 1
  /\ clock <= 1 /\ logins <= 2
OneAccount ==
  /\ \A a \in Accounts : Exists(a) => a = 1 /\ account[a].revision <= 1
  /\ \A c \in Clients :
       list[c] = None /\ (request[c] # Idle /\ request[c].kind = "login" => request[c].account = 1)
OneBrowserOrOneAccount == OneBrowser \/ OneAccount
=============================================================================
