CONSTANTS
  Planners = {p1}
  Teaching = {t1}
  Exams = {e1}
  Cohorts = {c1}
  NoSnapshot = NoSnapshot
  NoPreparation = NoPreparation
  MaxRevisions = 2
  MaxEvents = 6
SPECIFICATION Spec
CHECK_DEADLOCK FALSE
INVARIANT PublicationNeverFails
