---------------------------- MODULE MCRpmLimiter -----------------------------
(* Four calls of one key and one of another, each with a limit of none, one *)
(* or two calls; windows of two seconds, a clock read twice a second, two   *)
(* windows.                                                                 *)
EXTENDS RpmLimiter, TLC

CONSTANTS k1, k2

MCKeys == {k1, k2}
MCLimits == {-1, 1, 2}
MCMaxCalls == k1 :> 4 @@ k2 :> 1
==============================================================================
