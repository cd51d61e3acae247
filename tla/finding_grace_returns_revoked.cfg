SPECIFICATION Spec
CONSTANTS
  Tokens = {t1, t2, t3}
  NoToken = NoToken
  Clients = {c1}
  NoClient = NoClient
  Calls = {k1, k2}
  Happens = {"lost"}
SYMMETRY Symmetry
PROPERTIES GraceAnswersWithActive
CHECK_DEADLOCK FALSE
