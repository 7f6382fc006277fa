SPECIFICATION MetricsSpec
CONSTANTS
  MISSING = MISSING
  l1 = l1
  l2 = l2
  e1 = e1
  k1 = k1
  k2 = k2
  a1 = a1
  a2 = a2
  s1 = s1
  s2 = s2
  g1 = g1
  acc1 = acc1
  Leads = {l1, l2}
  Deals = {e1}
  Contacts = {k1, k2}
  Ads = {a1, a2}
  AdSets = {s1, s2}
  Campaigns = {g1}
  Accounts = {acc1}
  AdSetOf <- MCAdSetOf
  CampaignOf <- MCCampaignOf
  AccountOf <- MCAccountOf
  LeadContacts <- MCLeadContacts
  DealContacts <- MCDealContacts
  Amount <- MCAmount
  TagOf <- MCTagOf
  MaxDay = 2
  MaxInsights = 1
  WeekLength = 1
INVARIANTS
  ModelsAgree
  ReportsAgree
  FunnelHolds
  OnlyConnectedDataCounts
CHECK_DEADLOCK FALSE
