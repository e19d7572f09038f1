SPECIFICATION Spec
CONSTANTS
  None = None
  Clients = {c1, c2}
  Roles = {rider}
  Phones = {p1, p2}
  Cities = {k1}
  Challenges = {h1, h2}
  Codes = {o1, o2}
  Accounts = {a1, a2}
  Limit = 1
  Window = 3
  CodeLife = 1
CHECK_DEADLOCK FALSE
INVARIANTS
  TypeOK
  SingleUse
  ForThePhone
  OneAccountPerPhone
  TwiceTheLimit
SYMMETRY Symmetry
