SPECIFICATION SessionSpec
CONSTANTS
  NONE = NONE
  STALE = 1
  u1 = u1
  u2 = u2
  k1 = k1
  k2 = k2
  Users = {u1, u2}
  Tokens = {k1, k2}
  Owner <- MCOwner
  WidgetTTL = 1
INVARIANTS
  SessionTypeOK
  ForeignDataIsRecent
  HeaderAgrees
PROPERTIES
  TelegramPollEnds
