SPECIFICATION Spec
CONSTANTS
  Browsers = {b1, b2}
  NoBrowser = NoBrowser
  k1 = k1
  k2 = k2
  k3 = k3
  r1 = r1
  r2 = r2
  Requests = {r1, r2}
  Calls = {k1, k2, k3}
  NoCall = NoCall
  RequestOf <- MCRequestOf
  MaxIssued = 3
  MaxLogins = 2
  Faults = {"api", "network", "lost"}
SYMMETRY Symmetry
INVARIANTS TypeOK OneRefreshAtATime SessionsAreOwn RestingCookieIsActive SignedOutStaysOut
CHECK_DEADLOCK FALSE
