------------------------- MODULE MCProjectRegistry -------------------------
EXTENDS ProjectRegistry, TLC

CONSTANTS a, b, p, q, r

TwoCallers == {a, b}
TwoRoots   == {p, q}
ThreeRoots == {p, q, r}

\* Neither callers nor roots are ordered.
Symmetry == Permutations(Callers) \cup Permutations(Roots)
=============================================================================
