----------------------------- MODULE RelayProps ------------------------------
(****************************************************************************)
(* What must be true of forward_chat, whatever the upstream, the clients    *)
(* and the timers do.                                                       *)
(****************************************************************************)
EXTENDS Relay

\* The type of every variable of UpstreamSlots and Relay.
TypeOK ==
  /\ SlotsTypeOK
  /\ pc \in [Requests -> Locations]
  /\ age \in [Requests -> 0..TotalRequest]
  /\ streams \subseteq Requests
  /\ open \subseteq Requests
  /\ gone \subseteq Requests
  /\ doneSeen \subseteq Requests
  /\ doneSent \subseteq Requests
  /\ faulted \subseteq Requests
  /\ verdict \in [Requests -> ErrorTypes]
  /\ logs \in [Requests -> Seq(ErrorTypes)]
  /\ reply \in [Requests -> Replies]

\* Where a request is suspended while it owns a slot.
HolderLocations == {"sending", "errorbody", "reading", "yielded", "orphaned", "closing"}

\* A slot is held exactly from acquire() to the end of the request, on every
\* exit of forward_chat and of relay_gen: a settled request has nothing left in
\* the semaphore, neither a slot nor a place in the queue.
SlotsMatchLocations ==
  \A r \in Requests :
    /\ r \in holders <=> pc[r] \in HolderLocations
    /\ r \in Waiting \cup granted <=> pc[r] = "queued"

\* The upstream never sees more exchanges than it has slots, and a slot is not
\* passed on while the exchange it paid for is still open.
UpstreamBounded ==
  /\ open \subseteq holders
  /\ Cardinality(open) <= Slots

\* A settled request has exactly one request log and nobody else has one; the
\* exceptions are the requests answered by the safety net, which have none.
LoggedOnce ==
  \A r \in Requests :
    Len(logs[r]) = IF pc[r] = "done" /\ reply[r] # "500" THEN 1 ELSE 0

\* A request is logged without an error only if the client was sent a complete
\* upstream answer: the whole body, or a stream up to and including its [DONE].
\* There is one exception: the scanner raised on the very chunk that held the
\* [DONE], after it, so that neither was sent.
SuccessIsComplete ==
  \A r \in Requests :
    logs[r] = <<"none">> =>
      IF r \in streams
      THEN r \in doneSent \/ (r \in faulted /\ r \in doneSeen)
      ELSE reply[r] = "relayed"

\* Every request that arrives is settled: no slot, no place in the queue and
\* no client outlives the deadlines for ever (total_request covers all of it).
EveryRequestSettles ==
  \A r \in Requests : Live(r) ~> pc[r] = "done"

\* A log says client_disconnected only if the client has left, or if the
\* deadline hit the stream while a chunk was being sent: never for a fault of
\* the upstream or of the gateway.
DisconnectLogExplained ==
  \A r \in Requests : logs[r] = <<"client_disconnected">> => r \in gone \/ Expired(r)

------------------------------------------------------------------------------
\* The lease of a request, as the abstract specification sees it.
LeaseOf(r) ==
  CASE r \in holders \cup granted -> "out"
    [] r \in Waiting -> "waiting"
    [] pc[r] = "new" -> "none"
    [] OTHER -> "settled"

Lease == INSTANCE SlotLease WITH lease <- [r \in Requests |-> LeaseOf(r)]

\* forward_chat and the semaphore implement the abstract slot lease.
RefinesLease == Lease!LeaseSpec
==============================================================================
