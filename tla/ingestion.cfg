SPECIFICATION IngestionSpec
CONSTANTS
  NONE = NONE
  e1 = e1
  e2 = e2
  k1 = k1
  bx = bx
  amo = amo
  fresh = fresh
  paid = paid
  junk = junk
  Deals = {e1}
  Contacts = {k1}
  Stages = {fresh, paid}
  Conns = {bx}
  HomeOf <- MCHomeOf
  KeepsHistory = {bx}
  ConnectedAt = 1
  DayLength = 1
  InitialMapping <- MCNoMapping
  Dtos <- MCDisagree
  Remaps = {r1, r2}
  MaxTime = 3
  MaxVersion = 2
  Ids <- MCIds
  PageSize = 2
  MaxPages = 3
  NOWHERE = NOWHERE
  MetaAds = {ad1, ad2}
  MetaAdSets = {s1, s2}
  NestedLimit = 1
  TrailingDays = 1
  MaxToday = 3
  MaxStated = 2
  MaxStatements = 2
  MaxSyncs = 2
SYMMETRY MCMetaSymmetry
INVARIANTS
  NothingElseSlips
  MappingsSettle
  OnlyDeletionsSkip
  SpendIsMirrored
PROPERTIES
  DealsMirrored
CHECK_DEADLOCK FALSE
