SPECIFICATION Spec
CONSTANTS
  Registers = {u1, u2}
  Issues = {}
  Emails = {e1, e2}
  NoEmail = NoEmail
  Base = n0
  Suffixed = {n1, n2}
  Taken = {}
  NoName = NoName
  NoUser = NoUser
  MaxRetries = 2
  Faults = {}
SYMMETRY Symmetry
INVARIANTS OnlyTakenEmailsAreRefused
CHECK_DEADLOCK FALSE
