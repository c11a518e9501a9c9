CONSTANTS
  Planners = {p1}
  Teaching = {t1}
  Exams = {e1}
  Cohorts = {c1}
  NoSnapshot = NoSnapshot
  NoPreparation = NoPreparation
  MaxRevisions = 1
  MaxEvents = 2
  Generations = {g1, g2}
  MaxCompletions = 3
SPECIFICATION OutcomesSpec
SYMMETRY Symmetry
CHECK_DEADLOCK FALSE
PROPERTY OutcomesAreLatest
