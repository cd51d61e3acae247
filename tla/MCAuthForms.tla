----------------------------- MODULE MCAuthForms -----------------------------
EXTENDS AuthForms, TLC

\* A password everybody takes; the fields start with one that is refused.
Good == [length |-> 12, classes |-> {"lower", "digit"}]
MCPasswords == {Good}

Symmetry == Permutations(Forms) \cup Permutations(Calls)
=============================================================================
