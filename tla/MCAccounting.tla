----------------------------- MODULE MCAccounting -----------------------------
EXTENDS Accounting, TLC

CONSTANTS r1, r2, r3

MCPair == {r1, r2}
MCRequests == {r1, r2, r3}

\* Requests are only compared for equality.
Symmetry == Permutations(Requests)
==============================================================================
