-------------------------------- MODULE Relay --------------------------------
(****************************************************************************)
(* forward_chat of proxy/relay.py: the life of chat completion requests     *)
(* from the limit checks to the release of their upstream slot and their    *)
(* request log.  One step is the code between two awaits.                   *)
(*                                                                          *)
(* Environment: the upstream may answer, fail, stall or stop at any time;   *)
(* the client may read slowly or leave; time passes in Tick.  A timer never *)
(* fires early but may fire late.  A client that leaves is only noticed     *)
(* while its stream is being sent: until then nobody listens for it.        *)
(****************************************************************************)
EXTENDS UpstreamSlots

CONSTANTS
  QueueTimeout,   \* cfg.timeouts.queue_timeout, in ticks
  TotalRequest    \* cfg.timeouts.total_request, in ticks

ASSUME TimeoutsAssumption ==
  /\ QueueTimeout \in Nat \ {0}
  /\ TotalRequest \in Nat \ {0}

VARIABLES
  pc,        \* where the coroutine (or its generator) is suspended
  age,       \* ticks since deadline_loop was computed, saturating at the deadline
  streams,   \* requests whose body has stream=true
  open,      \* requests with an upstream exchange in progress
  gone,      \* requests whose client has left
  doneSeen,  \* SseScanner.saw_done
  doneSent,  \* ghost: requests whose chunk with the [DONE] has been sent
  faulted,   \* ghost: requests on whose chunk the scanner raised
  verdict,   \* error_type of relay_gen when it reaches its finally block
  logs,      \* error types of the request logs spawned by finish()
  reply      \* what the client has been sent

scanVars == <<doneSeen, doneSent, faulted>>
relayVars == <<pc, age, streams, open, gone, scanVars, verdict, logs, reply>>
vars == <<slotVars, relayVars>>

Locations ==
  {"new", "queued", "sending", "errorbody",         \* forward_chat
   "reading", "yielded", "orphaned", "closing",     \* relay_gen
   "done"}

ErrorTypes ==
  {"none", "rate_limited", "quota_exceeded", "server_busy", "timeout",
   "connection_error", "upstream_error", "client_disconnected",
   "upstream_interrupted"}

Replies ==
  {"none", "429", "500", "502", "503", "504",
   "relayed",                                       \* upstream status and body
   "streaming", "ended", "aborted"}                 \* StreamingResponse

Init ==
  /\ SlotsInit
  /\ pc = [r \in Requests |-> "new"]
  /\ age = [r \in Requests |-> 0]
  /\ streams = {}
  /\ open = {}
  /\ gone = {}
  /\ doneSeen = {}
  /\ doneSent = {}
  /\ faulted = {}
  /\ verdict = [r \in Requests |-> "none"]
  /\ logs = [r \in Requests |-> << >>]
  /\ reply = [r \in Requests |-> "none"]

------------------------------------------------------------------------------
(* The clock and the local helpers of forward_chat *)

Live(r) == pc[r] \notin {"new", "done"}

Expired(r) == age[r] >= TotalRequest

\* q_effective: nothing is awaited between deadline_loop and acquire().
QueueLimit == IF QueueTimeout < TotalRequest THEN QueueTimeout ELSE TotalRequest

Goto(r, l) == pc' = [pc EXCEPT ![r] = l]

Answer(r, a) == reply' = [reply EXCEPT ![r] = a]

\* finish(): spawns persist_request_log for one log entry.
Finish(r, e) == logs' = [logs EXCEPT ![r] = Append(@, e)]

\* Mutant of ReleaseSlot: without the flag, the safety net releases again.
ReleaseSlotTwice(r) == holders' = holders \ {r} /\ Wake(value + 2, waiters, granted)

\* release_slot(): idempotent.  Every error path calls it, and the safety net
\* calls it again when the ApiError of that path unwinds.
ReleaseSlot(r) == IF r \in holders THEN Release(r) ELSE UNCHANGED slotVars

\* Mutant of Settle: an exit that forgets the slot.
SettleLeaks(r, a) ==
  /\ open' = open \ {r}
  /\ Answer(r, a)
  /\ Goto(r, "done")
  /\ UNCHANGED slotVars

\* The end of a request that held a slot: the upstream exchange is over, the
\* slot goes back, the client gets its answer.
Settle(r, a) ==
  /\ open' = open \ {r}
  /\ ReleaseSlot(r)
  /\ Answer(r, a)
  /\ Goto(r, "done")

------------------------------------------------------------------------------
(* Entry, queue and upstream request *)

\* _enforce_limits refuses: 429 and a log, before the queue.
Refuse(r, e) ==
  /\ pc[r] = "new"
  /\ Finish(r, e)
  /\ Answer(r, "429")
  /\ Goto(r, "done")
  /\ UNCHANGED <<slotVars, age, streams, open, gone, scanVars, verdict>>

\* The limits pass; acquire() returns at once or parks the coroutine.
Enter(r, s) ==
  /\ pc[r] = "new"
  /\ streams' = IF s THEN streams \cup {r} ELSE streams
  /\ \/ AcquireNow(r) /\ open' = open \cup {r} /\ Goto(r, "sending")
     \/ AcquireWait(r) /\ Goto(r, "queued") /\ UNCHANGED open
  /\ UNCHANGED <<age, gone, scanVars, verdict, logs, reply>>

\* acquire() returns to a queued request: the upstream request starts.
StartSending(r) ==
  /\ pc[r] = "queued"
  /\ ~Expired(r)
  /\ AcquireResumes(r)
  /\ open' = open \cup {r}
  /\ Goto(r, "sending")
  /\ UNCHANGED <<age, streams, gone, scanVars, verdict, logs, reply>>

\* The same with nothing left of the total deadline: wait_for(send, <= 0)
\* raises without sending.  The slot is taken and returned in one step.
StartTooLate(r) ==
  /\ pc[r] = "queued"
  /\ Expired(r)
  /\ r \in granted
  /\ Wake(value + 1, waiters, granted \ {r})
  /\ Finish(r, "timeout")
  /\ Answer(r, "504")
  /\ Goto(r, "done")
  /\ UNCHANGED <<holders, age, streams, open, gone, scanVars, verdict>>

\* SlotQueueTimeout, whichever of the two limits made q_effective.
QueueTimesOut(r) ==
  /\ pc[r] = "queued"
  /\ age[r] >= QueueLimit
  /\ AcquireTimesOut(r)
  /\ Finish(r, "server_busy")
  /\ Answer(r, "503")
  /\ Goto(r, "done")
  /\ UNCHANGED <<age, streams, open, gone, scanVars, verdict>>

\* Mutant of SendTimesOut: the deadline path answers without finish().
SendTimesOutUnlogged(r) ==
  /\ pc[r] = "sending"
  /\ Expired(r)
  /\ Settle(r, "504")
  /\ UNCHANGED <<age, streams, gone, scanVars, verdict, logs>>

\* wait_for(send, remaining()) expires and closes the upstream exchange.
SendTimesOut(r) ==
  /\ pc[r] = "sending"
  /\ Expired(r)
  /\ Finish(r, "timeout")
  /\ Settle(r, "504")
  /\ UNCHANGED <<age, streams, gone, scanVars, verdict>>

\* httpx.TimeoutException (connect, write, pool) or another httpx.HTTPError.
SendFails(r, e, a) ==
  /\ pc[r] = "sending"
  /\ Finish(r, e)
  /\ Settle(r, a)
  /\ UNCHANGED <<age, streams, gone, scanVars, verdict>>

\* stream=false: status and body are relayed as they are.
RelayBody(r, e) ==
  /\ pc[r] = "sending"
  /\ r \notin streams
  /\ Finish(r, e)
  /\ Settle(r, "relayed")
  /\ UNCHANGED <<age, streams, gone, scanVars, verdict>>

\* stream=false, a success whose JSON is not an object or whose choices are
\* not a list of objects: only ValueError is caught, the safety net returns
\* the slot, nothing is logged.
RelayBodyRaises(r) ==
  /\ pc[r] = "sending"
  /\ r \notin streams
  /\ Settle(r, "500")
  /\ UNCHANGED <<age, streams, gone, scanVars, verdict, logs>>

------------------------------------------------------------------------------
(* stream=true *)

\* Upstream status other than 200: the error body is read without a deadline.
ErrorHead(r) ==
  /\ pc[r] = "sending"
  /\ r \in streams
  /\ Goto(r, "errorbody")
  /\ UNCHANGED <<slotVars, age, streams, open, gone, scanVars, verdict, logs, reply>>

RelayErrorBody(r) ==
  /\ pc[r] = "errorbody"
  /\ Finish(r, "upstream_error")
  /\ Settle(r, "relayed")
  /\ UNCHANGED <<age, streams, gone, scanVars, verdict>>

\* resp.aread() raises: only the safety net sees it.
ErrorBodyBreaks(r) ==
  /\ pc[r] = "errorbody"
  /\ Settle(r, "500")
  /\ UNCHANGED <<age, streams, gone, scanVars, verdict, logs>>

\* Upstream status 200: the handler returns and the generator starts.
StreamHead(r) ==
  /\ pc[r] = "sending"
  /\ r \in streams
  /\ Answer(r, "streaming")
  /\ Goto(r, "reading")
  /\ UNCHANGED <<slotVars, age, streams, open, gone, scanVars, verdict, logs>>

\* scanner.feed goes through the events that a chunk completes; with last, one of
\* them is the [DONE].
SawDone(r, last) == IF last THEN doneSeen \cup {r} ELSE doneSeen

\* A chunk is scanned and yielded.
Chunk(r, last) ==
  /\ pc[r] = "reading"
  /\ doneSeen' = SawDone(r, last)
  /\ Goto(r, "yielded")
  /\ UNCHANGED <<slotVars, age, streams, open, gone, doneSent, faulted, verdict, logs, reply>>

\* The send of the chunk completes and the generator is resumed.
ChunkSent(r) ==
  /\ pc[r] = "yielded"
  /\ doneSent' = doneSent \cup ({r} \cap doneSeen)
  /\ Goto(r, "reading")
  /\ UNCHANGED <<slotVars, age, streams, open, gone, doneSeen, faulted, verdict, logs, reply>>

\* Mutant of EnterFinally: the end of the upstream's bytes counts as success.
FinallyTrustsEof(r, e, a, seen) ==
  /\ doneSeen' = seen
  /\ verdict' = [verdict EXCEPT ![r] = e]
  /\ Answer(r, a)
  /\ Goto(r, "closing")
  /\ UNCHANGED <<slotVars, age, streams, open, gone, doneSent, logs>>

\* Mutant of EnterFinally: the slot goes back before resp.aclose().
FinallyReleasesFirst(r, e, a, seen) ==
  /\ doneSeen' = seen
  /\ verdict' = [verdict EXCEPT ![r] =
       IF e = "none" /\ r \notin seen THEN "upstream_interrupted" ELSE e]
  /\ ReleaseSlot(r)
  /\ Answer(r, a)
  /\ Goto(r, "closing")
  /\ UNCHANGED <<age, streams, open, gone, doneSent, logs>>

\* The generator enters its finally block with error type e, and the scanner has
\* seen the [DONE] of the requests in seen; a clean end without one counts as
\* an interruption.
EnterFinally(r, e, a, seen) ==
  /\ doneSeen' = seen
  /\ verdict' = [verdict EXCEPT ![r] =
       IF e = "none" /\ r \notin seen THEN "upstream_interrupted" ELSE e]
  /\ Answer(r, a)
  /\ Goto(r, "closing")
  /\ UNCHANGED <<slotVars, age, streams, open, gone, doneSent, logs>>

\* The generator leaves its loop between two chunks.
LeaveLoop(r, e, a) == EnterFinally(r, e, a, doneSeen) /\ UNCHANGED faulted

UpstreamEnds(r) == pc[r] = "reading" /\ LeaveLoop(r, "none", "ended")

\* Mutant of UpstreamBreaks: whatever is raised counts as the client's departure.
BreaksLikeDisconnect(r) ==
  pc[r] = "reading" /\ LeaveLoop(r, "client_disconnected", "aborted")

UpstreamBreaks(r) ==
  pc[r] = "reading" /\ LeaveLoop(r, "upstream_interrupted", "aborted")

\* scanner.feed raises on an event of the chunk, perhaps after the [DONE] that the
\* chunk holds as well.  The chunk is not yielded, and no except clause sets
\* an error type.
ScannerRaises(r, last) ==
  /\ pc[r] = "reading"
  /\ EnterFinally(r, "none", "aborted", SawDone(r, last))
  /\ faulted' = faulted \cup {r}

\* Mutant of DeadlineReading: the deadline is only looked at between chunks.
DeadlineBetweenChunks(r) ==
  pc[r] = "yielded" /\ Expired(r) /\ LeaveLoop(r, "timeout", "ended")

\* timeout_at fires while the generator waits for the upstream: swallowed.
DeadlineReading(r) ==
  pc[r] = "reading" /\ Expired(r) /\ LeaveLoop(r, "timeout", "ended")

\* The client's departure cancels the generator while it waits.
DisconnectReading(r) ==
  /\ pc[r] = "reading"
  /\ r \in gone
  /\ LeaveLoop(r, "client_disconnected", "aborted")

\* The cancellation, of the departure or of timeout_at, hits the task while it
\* sends a chunk: the generator is left suspended at its yield.
SendCancelled(r) ==
  /\ pc[r] = "yielded"
  /\ r \in gone \/ Expired(r)
  /\ Goto(r, "orphaned")
  /\ UNCHANGED <<slotVars, age, streams, open, gone, scanVars, verdict, logs, reply>>

\* The event loop finalises the abandoned generator with GeneratorExit.
Finalise(r) ==
  pc[r] = "orphaned" /\ LeaveLoop(r, "client_disconnected", "aborted")

\* resp.aclose() returns; finish() and release_slot() follow.
CloseUpstream(r) ==
  /\ pc[r] = "closing"
  /\ open' = open \ {r}
  /\ Finish(r, verdict[r])
  /\ ReleaseSlot(r)
  /\ Goto(r, "done")
  /\ UNCHANGED <<age, streams, gone, scanVars, verdict, reply>>

------------------------------------------------------------------------------
(* The environment *)

Disconnect(r) ==
  /\ Live(r)
  /\ r \notin gone
  /\ gone' = gone \cup {r}
  /\ UNCHANGED <<slotVars, pc, age, streams, open, scanVars, verdict, logs, reply>>

Tick ==
  /\ age' = [r \in Requests |->
               IF Live(r) /\ age[r] < TotalRequest THEN age[r] + 1 ELSE age[r]]
  /\ age' # age
  /\ UNCHANGED <<slotVars, pc, streams, open, gone, scanVars, verdict, logs, reply>>

\* All requests are settled: the model has no more of them.
Quiescent == (\A r \in Requests : pc[r] = "done") /\ UNCHANGED vars

------------------------------------------------------------------------------
\* What the gateway does on its own, without waiting for upstream or client.
Gateway(r) ==
  \/ StartSending(r) \/ StartTooLate(r) \/ QueueTimesOut(r) \/ SendTimesOut(r)
  \/ DeadlineReading(r) \/ DisconnectReading(r) \/ SendCancelled(r)
  \/ Finalise(r) \/ CloseUpstream(r)

Arrive(r) ==
  \/ \E e \in {"rate_limited", "quota_exceeded"} : Refuse(r, e)
  \/ \E s \in BOOLEAN : Enter(r, s)

Upstream(r) ==
  \/ SendFails(r, "timeout", "504") \/ SendFails(r, "connection_error", "502")
  \/ \E e \in {"none", "upstream_error"} : RelayBody(r, e)
  \/ RelayBodyRaises(r)
  \/ ErrorHead(r) \/ RelayErrorBody(r) \/ ErrorBodyBreaks(r)
  \/ StreamHead(r) \/ \E last \in BOOLEAN : Chunk(r, last)
  \/ UpstreamEnds(r) \/ UpstreamBreaks(r)
  \/ \E last \in BOOLEAN : ScannerRaises(r, last)

Client(r) == ChunkSent(r) \/ Disconnect(r)

Next ==
  \/ \E r \in Requests : Arrive(r) \/ Gateway(r) \/ Upstream(r) \/ Client(r)
  \/ Tick
  \/ Quiescent

Spec == Init /\ [][Next]_vars

\* The event loop runs what is ready, timers fire and time passes.  Nothing is
\* asked of clients or of the upstream.
GatewayFairness == WF_vars(Tick) /\ \A r \in Requests : WF_vars(Gateway(r))

GatewaySpec == Spec /\ GatewayFairness

\* The one upstream answer the gateway waits for without a deadline does come.
ErrorBodyFairness ==
  \A r \in Requests : WF_vars(RelayErrorBody(r) \/ ErrorBodyBreaks(r))

FairSpec == GatewaySpec /\ ErrorBodyFairness
==============================================================================
