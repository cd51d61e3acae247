--------------------------- MODULE MCRefreshTokens ---------------------------
EXTENDS RefreshTokens, TLC

\* Tokens, browsers and calls are interchangeable: no property tells them apart.
Symmetry == Permutations(Tokens) \cup Permutations(Clients) \cup Permutations(Calls)
=============================================================================
