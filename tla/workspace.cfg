SPECIFICATION WorkspaceSpec
CONSTANTS
  NONE = NONE
  Emails = {m1, m2}
  Tenants = {t1, t2}
  MetaAccounts = {a1}
  Portals = {b1}
  Pickers = {s1}
  Requests = {r1, r2}
  ByHand = TRUE
  MaxClients = 2
  MaxRows = 2
SYMMETRY MCSymmetry
INVARIANTS
  SignInsAgree
  ConnectionsAtHome
  FirstSyncFollows
CHECK_DEADLOCK FALSE
