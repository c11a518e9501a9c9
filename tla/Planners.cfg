CONSTANTS
  MaxAccounts = 2
  Clients = {b1, b2}
  Passwords = {w1, w2}
  NoPassword = NoPassword
  Secrets = {s1, s2}
  None = None
  Idle = Idle
  FailureLimit = 2
  BlockTime = 1
  IdleTime = 1
  SessionTime = 2
  AccessTime = 1
  MaxLogins = 3
  MaxRevision = 3
  MaxTime = 3
SPECIFICATION Spec
CONSTRAINT OneBrowserOrOneAccount
CHECK_DEADLOCK FALSE
SYMMETRY Symmetry
INVARIANTS
  OneUsableAdministrator
  AccessFitsItsAccount
  SessionsMatchPasswords
  FailuresBlock
PROPERTIES
  RetiredStaysRetired
  ActsOnWhatIsListed
  BlocksHold
