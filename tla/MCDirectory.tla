----------------------------- MODULE MCDirectory -----------------------------
(* Two or three commands of the dashboard and one of the CLI, one user name *)
(* to race for, one value for each limit.                                   *)
EXTENDS Directory, TLC

CONSTANTS c1, c2, c3, n1, v1

MCGateway == {c1, c2}
MCCli == {c3}

\* Dashboard commands are only compared for equality.
Symmetry == Permutations(Gateway)
==============================================================================
