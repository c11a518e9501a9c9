CONSTANTS
  r1 = r1
  r2 = r2
  Planners = {p1}
  Courses = {c1, c2}
  Dates = {1, 2}
  Rooms = {r1}
  Plans <- SmallPlans
  Tabs = {t1, t2}
  PlanningPeriods = {o1, o2}
  NoDraft = NoDraft
  NoOverride = NoOverride
  Idle = Idle
  TotalUnits = 2
  MaxRevision = 3
  MaxDrafts = 2
  Ops = {op1}
  None = None
  MaxInputs = 2
  MaxCrashes = 1
SPECIFICATION TeachingSpec
CHECK_DEADLOCK FALSE
CONSTRAINT DraftsOrPeriods
INVARIANTS
  DraftsOwnSessions
  ConfirmationCurrent
  SavedOnceOverItsInputs
  FinalizationReplacesNothing
  NothingLeftBehind
  AnswerNeverLost
PROPERTIES
  EndingsStand
  ComputationSettles
