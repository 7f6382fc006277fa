SPECIFICATION Spec
CONSTANTS
  NONE = NONE
  l1 = l1
  l2 = l2
  c1 = c1
  a1 = a1
  a2 = a2
  acc1 = acc1
  acc2 = acc2
  x1 = x1
  x2 = x2
  n1 = n1
  n2 = n2
  d1 = d1
  d2 = d2
  Leads = {l1, l2}
  Contacts = {c1}
  Ads = {a1, a2}
  Accounts = {acc1, acc2}
  Tags = {x1, x2, n1, n2}
  Days = {d1}
  Worker = worker
  HttpRuns = {}
  Users = {u1}
  AccountOf <- MCAccountOf
  ExternalId <- MCExternalId
  AdName <- MCSharedName
  LeadDay <- MCLeadDay
  CrmShows <- MCNameTagged
  SeedTag <- MCNoSeed
  Crashes = FALSE
INVARIANTS
  LeadsCoherent
  EdgesAudited
  EdgesHaveASource
CHECK_DEADLOCK FALSE
