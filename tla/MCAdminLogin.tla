---------------------------- MODULE MCAdminLogin -----------------------------
EXTENDS AdminLogin, TLC

CONSTANTS a1, a2, a3, o1, o2, i1, i2

MCLogins == {a1, a2, a3}
MCOrigins == {o1, o2}
MCInits == {i1, i2}

\* Logins, addresses and processes are only compared for equality.
Symmetry == Permutations(Logins) \cup Permutations(Origins) \cup Permutations(Inits)
==============================================================================
