CONSTANTS
  s1 = s1
  k1 = k1
  y1 = y1
  c1 = c1
  l1 = l1
  m1 = m1
  u1 = u1
  Semesters = {s1}
  Cohorts = {k1}
  StudyTypes = {y1}
  Windows = {w1}
  Courses = {c1}
  Lecturers = {l1}
  Rooms = {m1}
  Periods = {u1}
  Holidays = {h1, h2}
  Planners = {p1, p2}
  NoRow = NoRow
  MaxDay = 2
  MaxSize = 2
  MaxWrites = 3
  MaxPublished = 1
  FirstRows <- OneOfEach
  FirstLinks <- OwnLinks
SPECIFICATION CatalogSpec
CHECK_DEADLOCK FALSE
SYMMETRY InterchangeableIds
INVARIANTS
  RevisionTellsChange
PROPERTIES
  DeletionSpares
