SPECIFICATION FairSpec
CONSTANTS
  NONE = NONE
  Accounts = {a1}
  Jobs = {j1, j2}
  MaxAttempts = 2
  Faults = {"provider", "db", "vault", "queue"}
  Crashes = TRUE
INVARIANTS
  TypeOK
  RunsTell
  BadgeTells
PROPERTY JobsEnd
CHECK_DEADLOCK FALSE
