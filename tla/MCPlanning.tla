----------------------------- MODULE MCPlanning -----------------------------
(* Small semesters for TLC: two or three teaching days of twelve ticks, a   *)
(* unit of four ticks and a break of two, two lecturers and two rooms.      *)
EXTENDS SavedSemester, Sequences, TLC

Once(resource, date, start, end) ==
  [resource |-> resource, recurring |-> FALSE, weekdays |-> {}, first |-> date, last |-> date,
   start |-> start, end |-> end]
Weekly(resource, day, start, end) ==
  [Once(resource, 0, start, end) EXCEPT !.recurring = TRUE, !.weekdays = {day}]
Taught(course, cohort, date, start, end, lecturer, room) ==
  [ref |-> <<course, date>>, course |-> course, cohort |-> cohort, date |-> date, start |-> start,
   end |-> end, units |-> 1, lecturer |-> lecturer, room |-> room]
Examined(course, cohort, date, start, end, lecturer, room, required) ==
  [ref |-> <<course, date>>, course |-> course, cohort |-> cohort, date |-> date, start |-> start,
   end |-> end, units |-> 1, lecturer |-> lecturer, room |-> room, required |-> required,
   first |-> 0, last |-> 0]
Window(day, from, until) == [day |-> day, from |-> from, until |-> until]

Base == [
  facts |-> [
    course |-> [A |-> [cohort |-> "a", total |-> 3, min |-> 1, max |-> 2, preferredTwice |-> 4],
                B |-> [cohort |-> "b", total |-> 1, min |-> 1, max |-> 1, preferredTwice |-> 2],
                C |-> [cohort |-> "c", total |-> 1, min |-> 1, max |-> 1, preferredTwice |-> 2]],
    size |-> [A |-> 10, B |-> 10, C |-> 10],
    capacity |-> 11 :> 20 @@ 12 :> 20,
    lecturers |-> [A |-> {1}, B |-> {1}, C |-> {2}],
    rooms |-> [A |-> {11}, B |-> {11}, C |-> {12}],
    activeLecturers |-> {1, 2}, activeRooms |-> {11, 12},
    periods |-> {}, holidays |-> {},
    constraints |-> [A |-> [from |-> 0, until |-> 1, studyType |-> "day"],
                     B |-> [from |-> 0, until |-> 1, studyType |-> "day"],
                     C |-> [from |-> 0, until |-> 1, studyType |-> "day"]],
    windows |-> [day |-> {Window(0, 0, 12), Window(1, 0, 12)},
                 short |-> {Window(0, 4, 10), Window(1, 2, 8)}]],
  drafts |-> {}, exams |-> {}, today |-> 0, unavailable |-> {}, selected |-> {"A"}]

Both == [Base EXCEPT !.selected = {"A", "B"}]
OneDay(p, c) == [p EXCEPT !.facts.constraints[c].until = 0]
TwoLecturers(p) == [p EXCEPT !.facts.lecturers["A"] = {1, 2}]
TwoRooms(p) == [p EXCEPT !.facts.rooms["A"] = {11, 12}]

Inputs == <<
  (* the lecturer is away at the start of a day, once and every week        *)
  [Base EXCEPT !.facts.periods = {Once(1, 0, 0, 2)}, !.facts.course["A"].total = 4],
  [Base EXCEPT !.facts.periods = {Weekly(1, 1, 4, 6), Weekly(11, 0, 10, 12)}],
  (* other teaching, and exams of this and of another course                *)
  [OneDay(Both, "B") EXCEPT !.drafts = {Taught("C", "c", 0, 0, 2, 1, 12), Taught("C", "a", 1, 8, 12, 2, 12)}],
  [Base EXCEPT !.exams = {Examined("C", "c", 0, 2, 6, 2, 11, 30), Examined("A", "a", 1, 6, 10, 2, 12, 10)}],
  [Base EXCEPT !.exams = {Examined("A", "a", 0, 6, 10, 2, 12, 10)}, !.today = 1],
  (* days without teaching, drafts that are replaced, a past exam           *)
  [Both EXCEPT !.facts.holidays = {1}, !.drafts = {Taught("A", "a", 0, 2, 6, 1, 11)}],
  [Both EXCEPT !.unavailable = {0}, !.facts.course["B"].cohort = "a",
               !.facts.lecturers["B"] = {2}, !.facts.rooms["B"] = {12}],
  (* a choice of lecturers and rooms                                        *)
  TwoLecturers([Base EXCEPT !.facts.periods = {Once(1, 0, 0, 8), Once(2, 1, 4, 8)}]),
  TwoLecturers([Both EXCEPT !.facts.activeLecturers = {2}]),
  TwoRooms([Base EXCEPT !.facts.capacity[11] = 5, !.drafts = {Taught("C", "a", 1, 0, 2, 2, 11)}]),
  TwoRooms([OneDay(OneDay(Both, "A"), "B") EXCEPT !.facts.course["B"].cohort = "a"]),
  (* one week apart, and windows of two study types                         *)
  [Base EXCEPT !.facts.constraints["A"].until = 7],
  [OneDay(Both, "B") EXCEPT !.facts.constraints["B"].studyType = "short"],
  (* nothing can be planned                                                 *)
  [Base EXCEPT !.facts.capacity[11] = 5]
>>

ProblemIds == 1..Len(Inputs)
InputOf(p) == Inputs[p]

(* Computed once: the candidates, the arrangements and their worth.  An     *)
(* element of a space is the place of an arrangement in a sequence.         *)
Candidates == [p \in ProblemIds |-> [c \in Inputs[p].selected |-> Offered(Inputs[p], c)]]
Listed(S) == FoldSet(LAMBDA a, list : Append(list, a), <<>>, S)
Spaces == [p \in ProblemIds |-> Listed(Arrangements(Inputs[p], Candidates[p]))]
Worths == [p \in ProblemIds |->
  [n \in 1..Len(Spaces[p]) |-> Worth(Inputs[p], Spaces[p][n], Candidates[p])]]
Bests == [p \in ProblemIds |-> BestQuality(Inputs[p])]

SpaceOf(p) == 1..Len(Spaces[p])
ArrangementOf(p, n) == Spaces[p][n]
ValueOf(p, n, k) == Worths[p][n][k]
BestOf(p) == Bests[p]
RequiredOf(p) == ProblemRequired(p)

(* After a search: a session is moved to the other day, to one of three     *)
(* times (one with seconds), lecturers and rooms, or is made longer; one    *)
(* fact of the catalog changes.                                             *)
Entry(date, start, end, lecturer, room, units) ==
  [date |-> date, start |-> start, end |-> end, lecturer |-> lecturer, room |-> room, units |-> units]
EntriesOf ==
  {Entry(date, start, start + 4, lecturer, room, None) :
     date \in {0, 1}, start \in {0, 3, 4}, lecturer \in {1, 2, None}, room \in {11, 12}}
  \cup {Entry(date, 0, 10, None, 11, units) : date \in {0, 1}, units \in {0, 2}}

CatalogChangesOf(facts) == {
  [facts EXCEPT !.holidays = {0, 1}],
  [facts EXCEPT !.activeLecturers = {2}],
  [facts EXCEPT !.activeRooms = {12}],
  [facts EXCEPT !.rooms["A"] = {12}, !.lecturers["A"] = {2}],
  [facts EXCEPT !.capacity[12] = 5],
  [facts EXCEPT !.size["A"] = 30, !.course["A"].total = 5],
  [facts EXCEPT !.periods = @ \cup {Once(2, 0, 1, 7), Weekly(12, 1, 2, 7)}],
  [facts EXCEPT !.windows["day"] = {Window(0, 2, 8)}],
  [facts EXCEPT !.windows["day"] = {}],
  [facts EXCEPT !.constraints["A"].until = 0],
  [facts EXCEPT !.constraints["A"].studyType = "short"],
  [facts EXCEPT !.course["A"].cohort = "b"]}
=============================================================================
