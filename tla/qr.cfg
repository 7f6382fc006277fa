SPECIFICATION TimedSpec
CONSTANTS
  NOBODY = NOBODY
  b1 = b1
  g1 = g1
  Approvals = {b1, g1}
  Via <- MCVia
  Polls = {p1, p2}
  TTL = 2
  Crashes = TRUE
INVARIANTS
  LoginTypeOK
  AnswersAgree
PROPERTIES
  SessionEnds
  OneShotSession
CHECK_DEADLOCK FALSE
