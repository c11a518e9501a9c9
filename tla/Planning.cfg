CONSTANTS
  Unit = 4
  Break = 2
  DayEnd = 12
  Minute = 2
  None = None
  NotSaved = NotSaved
  HolidaysMissing = HolidaysMissing
  Problems <- ProblemIds
  Space <- SpaceOf
  Value <- ValueOf
  Required <- RequiredOf
  Input <- InputOf
  Arrangement <- ArrangementOf
  Best <- BestOf
  Entries <- EntriesOf
  CatalogChanges <- CatalogChangesOf
SPECIFICATION SavedSpec
CHECK_DEADLOCK FALSE
INVARIANTS
  OffersAreHonest
  OffersAreSafe
  PlannedStartsLoseNothing
  ViewsAgree
