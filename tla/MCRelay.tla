------------------------------- MODULE MCRelay -------------------------------
EXTENDS RelayProps, TLC

CONSTANTS r1, r2, r3

MCRequests == {r1, r2, r3}
MCPair == {r1, r2}

\* Requests are only compared for equality.
Symmetry == Permutations(Requests)
==============================================================================
