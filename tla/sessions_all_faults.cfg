SPECIFICATION Spec
CONSTANTS
  Tokens = {t1, t2, t3}
  NoToken = NoToken
  Clients = {c1, c2}
  NoClient = NoClient
  Calls = {k1, k2}
  Happens = {"expire", "reset", "lost", "api"}
SYMMETRY Symmetry
INVARIANTS TypeOK EndedSessionsStayEnded OneActivePerFamily IdleClientHoldsActive AlarmsAreTrue
CHECK_DEADLOCK FALSE
