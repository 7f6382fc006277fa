SPECIFICATION Spec
CONSTANTS
  NONE = NONE
  p = p
  q = q
  e = e
  s = s
  c1 = c1
  c2 = c2
  c3 = c3
  r1 = r1
  r2 = r2
  Raws <- MCRaws
  Values = {"p", "p again", "q", "e", "s", "bad"}
  Identifiers = {p, q, e, s}
  Normal <- MCNormal
  Contacts = {c1, c2, c3}
  Resolvers = {r1, r2}
SYMMETRY MCSymmetry
INVARIANTS
  FirstIdentifierDecides
  NoStrangers
CHECK_DEADLOCK FALSE
