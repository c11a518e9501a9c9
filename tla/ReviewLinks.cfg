CONSTANTS
  Revisions = {v1, v2}
  Contents = {c1}
  NoContent = NoContent
  Lecturers = {l1}
  Browsers = {b1}
  Submissions = {s1}
  Comments = {t1, t2}
  NoComment = NoComment
  Durations = {1}
  Idle = Idle
  MaxLinks = 3
  MaxFeedback = 1
  MaxTime = 1
SPECIFICATION Spec
CHECK_DEADLOCK FALSE
SYMMETRY CommentSymmetry
INVARIANTS
  ActiveLinksAreCurrent
PROPERTIES
  EndedLinksStayEnded
  AccessOnlyByUsableLinks
  FeedbackStoredOnce
