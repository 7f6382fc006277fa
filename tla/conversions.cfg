SPECIFICATION ConversionsSpec
CONSTANTS
  NONE = NONE
  l1 = l1
  c1 = c1
  Accounts = {a1}
  Leads = {l1, l2}
  Contacts = {c1}
  Deals = {k1}
  ContactOf <- MCContactOf
  LeadOrder <- MCLeadOrder
  Generators = {g1, g2}
  Pushers = {p1, p2}
  BatchSize = 2
  AnswersLost = TRUE
  Crashes = TRUE
INVARIANTS
  EventsJustified
PROPERTIES
  VerdictsAreFinal
  LedgerFollowed
SYMMETRY MCSymmetry
CHECK_DEADLOCK FALSE
