SPECIFICATION Spec
CONSTANTS
  Forms = {f1, f2}
  Calls = {k1, k2}
  NoCall = NoCall
  Emails = {e1}
  Unusual = Unusual
  NoEmail = NoEmail
  Passwords <- MCPasswords
  Faults = {"api", "network"}
SYMMETRY Symmetry
INVARIANTS TypeOK CreatedOnce HintIsTrue BlameIsRight SignedInHasAccount ErrorsAreCurrent
