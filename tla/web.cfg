SPECIFICATION MCWebSpec
CONSTANTS
  NONE = NONE
  STALE = 1
  r1 = r1
  Rows = {r1}
  ProviderOf <- MCProviderOf
  GRACE = 1
  FirstToday = 100
  DaysOffered = {98, 99}
  PresetsUsed = {"Last30"}
  c1 = c1
  s1 = s1
  a1 = a1
  l1 = l1
  l2 = l2
  Nodes = {c1, s1, a1}
  Parent <- MCParent
  Active = {c1, s1}
  ChoiceBound = 2
  Stages = {s1}
  Canonicals = {"WON", "IGNORE"}
  Leads = {l1, l2}
  Ads = {a1}
  Runners = {e1}
INVARIANTS
  WebTypeOK
  OwnWritesReadBack
  ShownAsChosen
  AttributedLeavesReview
PROPERTIES
  RunningIsFollowed
  UneditedStagesKeep
CHECK_DEADLOCK FALSE
