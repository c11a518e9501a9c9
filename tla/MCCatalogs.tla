---------------------------- MODULE MCCatalogs ----------------------------
(* Small catalogs for TLC. *)
EXTENDS Catalogs, TLC

CONSTANTS s1, k1, y1, c1, l1, m1, u1

(* One record of each kind, the others are still to be created. *)
OneOfEach ==
  [r \in Records |->
     IF r \in {s1, k1, y1, c1, l1, m1, u1}
     THEN [active |-> TRUE, revision |-> 1,
           value |-> IF r = c1 THEN [semester |-> s1, cohort |-> k1, type |-> y1, owner |-> NoRow, size |-> 0]
                     ELSE IF r = s1 THEN Value(NoRow, NoRow, MaxDay)
                     ELSE IF r = u1 THEN Value(NoRow, l1, 1)
                     ELSE Value(NoRow, NoRow, IF r \in {k1, m1} THEN 1 ELSE 0)]
     ELSE NoRow]
OwnLinks == [c \in Courses |-> IF c = c1 THEN {l1, m1} ELSE {}]

(* No planner and no holiday is special at the start. *)
InterchangeableIds == Permutations(Planners) \cup Permutations(Holidays)
=============================================================================
