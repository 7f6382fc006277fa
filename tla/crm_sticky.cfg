SPECIFICATION Spec
CONSTANTS
  NONE = NONE
  e1 = e1
  e2 = e2
  k1 = k1
  bx = bx
  amo = amo
  fresh = fresh
  paid = paid
  junk = junk
  Deals = {e1}
  Contacts = {}
  Stages = {fresh, paid, junk}
  Conns = {bx}
  HomeOf <- MCHomeOf
  KeepsHistory = {bx}
  ConnectedAt = 0
  DayLength = 1
  InitialMapping <- MCMapped
  Dtos <- MCNoDtos
  Remaps = {}
  MaxTime = 3
  MaxVersion = 3
PROPERTIES
  WonIsSticky
CHECK_DEADLOCK FALSE
