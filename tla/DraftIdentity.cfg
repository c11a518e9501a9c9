CONSTANTS
  r1 = r1
  r2 = r2
  Planners = {p1}
  Courses = {c1}
  Dates = {1, 2}
  Rooms = {r1}
  Plans <- SmallPlans
  Tabs = {t1, t2}
  PlanningPeriods = {o1, o2}
  NoDraft = NoDraft
  NoOverride = NoOverride
  Idle = Idle
  TotalUnits = 2
  MaxRevision = 3
  MaxDrafts = 2
SPECIFICATION DraftSpec
CHECK_DEADLOCK FALSE
CONSTRAINT DraftsOrPeriods
INVARIANT IdentityPinsDraft
