---------------------------- MODULE MCRegistration ----------------------------
EXTENDS Registration, TLC

\* Emails, suffixes and calls are interchangeable in every invariant.
Symmetry == Permutations(Registers) \cup Permutations(Issues)
                \cup Permutations(Emails) \cup Permutations(Suffixed)
=============================================================================
