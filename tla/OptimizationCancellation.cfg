CONSTANTS
  Ops = {o1}
  None = None
  MaxInputs = 1
  MaxCrashes = 0
SPECIFICATION FairSpec
CHECK_DEADLOCK FALSE
PROPERTIES
  NoTerminalToActive
