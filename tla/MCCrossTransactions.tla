------------------------ MODULE MCCrossTransactions ------------------------
EXTENDS CrossTransactions, TLC

CONSTANTS c1, c2, c3, c4

FourCalls  == {c1, c2, c3, c4}
ThreeCalls == {c1, c2, c3}

\* The calls are interchangeable: nothing orders them.
CallSymmetry == Permutations(Calls)
=============================================================================
