------------------------------ MODULE SlotLease ------------------------------
(****************************************************************************)
(* What the gateway promises the upstream and its clients about slots,      *)
(* without saying how: every request goes through at most one lease, takes  *)
(* it at most once, returns it once and for all, and no more than Slots     *)
(* leases are out at any moment.  Relay implements this (RefinesLease).     *)
(****************************************************************************)
EXTENDS Naturals, FiniteSets

CONSTANTS Requests, Slots

VARIABLE lease     \* per request: "none", "waiting", "out" or "settled"

LeaseStates == {"none", "waiting", "out", "settled"}

Out == { r \in Requests : lease[r] = "out" }

LeaseInit == lease = [r \in Requests |-> "none"]

\* The moves of one request.  Nothing leads back from "settled", and a lease
\* that is out can only be settled.
Move(r) ==
  \/ lease[r] = "none" /\ lease'[r] \in {"waiting", "out", "settled"}
  \/ lease[r] = "waiting" /\ lease'[r] \in {"out", "settled"}
  \/ lease[r] = "out" /\ lease'[r] = "settled"

\* One step may settle one lease and hand its slot to others.
LeaseNext ==
  /\ lease' \in [Requests -> LeaseStates]
  /\ \A r \in Requests : lease'[r] = lease[r] \/ Move(r)
  /\ Cardinality(Out') <= Slots

LeaseSpec == LeaseInit /\ [][LeaseNext]_lease
==============================================================================
