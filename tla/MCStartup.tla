------------------------------ MODULE MCStartup ------------------------------
(* Two gateways of one release, a command of the next, a schema of two        *)
(* tables.                                                                   *)
EXTENDS Startup

MCGateways == {"gateway1", "gateway2"}
MCCommands == {"cli"}
MCVersionOf == [p \in MCGateways \cup MCCommands |-> IF p = "cli" THEN 2 ELSE 1]
==============================================================================
