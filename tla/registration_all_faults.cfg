SPECIFICATION FairSpec
CONSTANTS
  Registers = {u1, u2, u3}
  Issues = {i1}
  Emails = {e1, e2}
  NoEmail = NoEmail
  Base = n0
  Suffixed = {n1}
  Taken = {n0}
  NoName = NoName
  NoUser = NoUser
  MaxRetries = 2
  Faults = {"api", "mail"}
INVARIANTS TypeOK SuccessMeansAccount OnlyPinnedUsersLackAChannel
PROPERTIES RegistrationEnds CallsMakeHeadway
CHECK_DEADLOCK FALSE
