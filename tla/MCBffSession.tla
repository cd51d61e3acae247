----------------------------- MODULE MCBffSession -----------------------------
EXTENDS BffSession, TLC

CONSTANTS k1, k2, k3, r1, r2

\* The handler of one request makes two calls at once, that of the other one.
MCRequestOf == (k1 :> r1) @@ (k2 :> r1) @@ (k3 :> r2)

\* The browsers and the two calls of one request are interchangeable.
Symmetry == Permutations(Browsers) \cup Permutations({k1, k2})
=============================================================================
