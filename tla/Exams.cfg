CONSTANTS
  c1 = c1
  c2 = c2
  l1 = l1
  l2 = l2
  r1 = r1
  Courses = {c1, c2}
  Lecturers = {l1, l2}
  Rooms = {r1}
  CohortOf <- OwnCohorts
  Plans <- FirstOrSecondDay
  Catalogs <- LastDayMayClose
  Proposals <- AllDays
  Durations = {1}
  Planners = {p1}
  Revisions = {v1, v2}
  NoSnapshot = NoSnapshot
  RecommendFrom = 1
  RecommendUntil = 1
  MaxDay = 2
  DayLength = 3
  MaxRevision = 3
SPECIFICATION Spec
CONSTRAINT OneCourseOrOneRevision
SYMMETRY RevisionSymmetry
CHECK_DEADLOCK FALSE
INVARIANTS
  ExamsNeverCollide
  OneActiveExam
PROPERTIES
  PlacedExamsFit
  GeneratedFromFresh
