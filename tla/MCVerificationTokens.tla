------------------------- MODULE MCVerificationTokens -------------------------
EXTENDS VerificationTokens, TLC

\* Tokens and calls are interchangeable: no property tells them apart.
Symmetry == Permutations(Tokens) \cup Permutations(Calls)
=============================================================================
