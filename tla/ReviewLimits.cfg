CONSTANTS
  Requests = {q1, q2, q3, q4}
  Sources = {s1}
  ViewLimit = 2
  ViewWindow = 2
  ViewBlock = 2
  MinuteLimit = 1
  MinuteWindow = 1
  HourLimit = 2
  HourWindow = 3
  SourceLimit = 3
  SourceWindow = 2
  SourceBlock = 3
  Retention = 4
  MaxWait = 1
  MaxTime = 4
SPECIFICATION Spec
CHECK_DEADLOCK FALSE
SYMMETRY Symmetry
INVARIANTS
  RequestsWithinLimits
  UnknownLinksBlock
PROPERTIES
  BlocksLast
