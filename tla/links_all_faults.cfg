SPECIFICATION Spec
CONSTANTS
  Tokens = {t1, t2, t3}
  NoToken = NoToken
  Calls = {c1, c2}
  Faults = {"api"}
SYMMETRY Symmetry
INVARIANTS TypeOK LatestLinkWorks SpentLinksAreDead OneActiveLink
PROPERTIES ConfirmedIsFinal
CHECK_DEADLOCK FALSE
