CONSTANTS
  Planners = {p1, p2}
  Teaching = {t1, t2}
  Exams = {e1}
  Cohorts = {c1, c2}
  NoSnapshot = NoSnapshot
  NoPreparation = NoPreparation
  MaxRevisions = 2
  MaxEvents = 6
SPECIFICATION WorkspaceSpec
CHECK_DEADLOCK FALSE
SYMMETRY Symmetry
CONSTRAINT OneWorksBesideIt
INVARIANTS
  SingleWorkingSinglePublished
  TokenPinsHistory
  HistoryExplainsRows
  SavedContentSurvives
PROPERTIES
  PublishedAsShown
  ImplementsRevisionStates
  WorkspaceOfOneRevision
