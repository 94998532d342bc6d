# A verification of EasyModelGate in TLA+

EasyModelGate is an LLM gateway: one asyncio process (FastAPI under uvicorn) in
front of one llama.cpp server. It authenticates API keys, limits them, queues
for a fixed number of upstream slots, relays chat completions (streamed or
not), logs every request and charges its tokens, and serves an administrator's
dashboard; a command-line tool works on the same SQLite file. This directory
holds TLA+ models of it, the TLC runs that check them on small instances, and
theorems that TLAPS proves for all instances.

## 1. Inventory

| Component | Source | State | Operations | Interacts with |
|---|---|---|---|---|
| Upstream slot pool | `core/concurrency.py` | `asyncio.Semaphore`: counter, deque of futures | acquire with timeout, release | relay |
| Relay | `proxy/relay.py` | per request: coroutine or generator position, deadline, released flag | validate, limit, queue, send, relay body or stream, finish, release | pool, upstream, client, logging |
| SSE scanner | `proxy/sse.py` | carry buffer, done flag, counters, usage, finish reason | feed | relay |
| Upstream client | `proxy/upstream.py`, `proxy/headers.py` | httpx pool, cached key | build headers, send | relay |
| RPM limiter | `core/ratelimit.py` | per key: window start, count | check | relay |
| Authentication | `core/auth.py`, `core/security.py` | none of its own | look up key, look up user, spawn touch | database, relay |
| Request logging | `services/request_logging.py`, `app.py` (`spawn`, lifespan) | registry of background tasks | insert, charge, commit, flush at shutdown | database |
| Database | `db/database.py`, `db/dao.py`, `db/schema.sql` | one aiosqlite connection with at most one open transaction; the file | select, write, commit | everything |
| Configuration and start | `config.py`, `db/database.py`, `app.py`, `cli.py` | configuration, schema version, seed row | load, create tables, check version, seed, restart | database, systemd |
| Keys and users | `services/key_service.py`, `services/user_service.py`, `routers/admin_keys.py`, `routers/admin_users.py`, `cli.py` | rows | create, enable, disable, set limits | database |
| Administrator login | `services/admin_auth_service.py`, `core/admin_session.py`, `routers/admin.py`, `routers/admin_web.py` | sessions, failure timestamps, one settings row | init, login, logout, look up | database |
| Analytics | `services/analytics.py`, `services/usage_service.py`, `routers/admin_usage.py`, `routers/admin_overview.py`, `routers/admin_requests.py` | none (SELECTs) | time ranges, buckets, totals | database, dashboard |
| Dashboard | `web/static/*.js` | per page: filters, address, caches, dialogs, loading flags | fetch, render, dialogs | admin API |
| Errors, schemas, experiments | `core/errors.py`, `schemas/admin.py`, `experiments/` | none | wrap errors, validate | |

Where it is hard:

* **Interleaving.** Every `await` is a switching point. The semaphore's wake-up
  and the wake-up's consumption are two turns of the event loop, with timeouts
  and cancellations between them.
* **Exits.** `forward_chat` and its generator have a dozen ways to end, some
  inside a `finally` that awaits, some run by the finaliser of abandoned
  generators instead of the task that made them.
* **A shared transaction.** All coroutines share one SQLite connection, and
  `sqlite3` opens transactions implicitly. A statement of one task is committed
  by another, and a statement that fails leaves its `BEGIN` behind.
* **Several processes.** The CLI writes the file the gateway has open; processes,
  possibly of two releases, start on one file.
* **Stopping.** Shutdown waits 5 s for background tasks, a crash for nothing; a
  start may die at any statement and is repeated by systemd.
* **Time.** Deadlines, queue timeouts, RPM windows, session and login windows; and
  calendar periods in zones whose clock is changed.
* **Late answers.** A page of the dashboard waits for several calls while the user
  clicks on and logs land.

What makes each part correct is stated with its module in section 3.

## 2. Modules

    SlotLease                 what slots promise (abstract)
       ^ implemented by (RefinesLease)
    UpstreamSlots <- Relay <- RelayProps <- MCRelay, RelayProofs
         ^---- MCUpstreamSlots (its theorems are in RelayProofs)
    SharedConnection <- Accounting <- MCAccounting, AccountingProofs
                     <- Directory  <- MCDirectory, DirectoryProofs
    Startup <- MCStartup, StartupProofs
    RpmLimiter <- MCRpmLimiter, RpmLimiterProofs
    SseScanner <- MCSseScanner, SseScannerProofs
    AdminLogin <- MCAdminLogin, AdminLoginProofs
    UsageTime <- UsagePage <- MCUsagePage, UsagePageProofs

`A <- B` means B EXTENDS A. The MC modules give constants their values; the
Proofs modules hold the theorems. An operation named "Mutant of X" is never part
of a specification: it is a plausible bug in X, kept beside it to show that the
properties notice it (PROJECT.json "mutants" pairs them).

## 3. What is modelled, module by module

One step of a model is the code between two awaits (of a coroutine) or between
two system calls that other processes can see (of the CLI or of a start).

### UpstreamSlots: the pool

`asyncio.Semaphore` as CPython 3.12.13 implements it, the version the project
freezes. A unit of the semaphore is in `value`, promised to a waiter whose
future is completed (`granted`), or held (`holders`). `AcquireNow`,
`AcquireWait`, `AcquireResumes`, `AcquireTimesOut` and `Release` are the points
at which `UpstreamSlots.acquire`, `wait_for` and `release` can be interleaved;
`Wake` is the loop in the `finally` of `Semaphore.acquire`.
Correct means: no unit is lost when a timeout meets a wake-up
(`SlotConservation`), no wake-up is lost (`NoLostWakeup`), order is kept
(`FirstComeFirstServed`), everybody is served in the end (`WaitersServed`).

### Relay, RelayProps, SlotLease: a request

`pc` says where `forward_chat` or `relay_gen` is suspended:

| `pc` | suspended in |
|---|---|
| `queued` | `slots.acquire` |
| `sending` | `wait_for(send)`, and for stream=false the reading of the body in it |
| `errorbody` | `resp.aread()` of a stream that was answered with an error |
| `reading` | the next chunk of `resp.aiter_bytes()` |
| `yielded` | its own `yield`, while Starlette sends the chunk |
| `orphaned` | its own `yield`, after the task that iterated it was cancelled |
| `closing` | `resp.aclose()` in the `finally` |

Every exit has an action: refusals before the queue, the queue's timeout, a slot
that comes too late, failures of sending, a body that is relayed or does not
parse, an error head, and the ends of a stream (end of bytes, break, scanner
raising, deadline while reading, departure while reading, either of them while
sending). `Settle` and `CloseUpstream` are the two ways a slot goes back.
`ReleaseSlot` is idempotent, as `release_slot()` is: error paths call it and the
safety net of `forward_chat` again. `ScannerRaises` is a chunk on which `feed`
raises: it may have seen a [DONE] in an earlier event of that chunk (`SawDone`),
and the chunk is not yielded. The ghosts `doneSent` and `faulted` remember whose
[DONE] was sent and whose scanner raised.

Correct means that on all of these exits the slot goes back once
(`SlotsMatchLocations`), after the upstream exchange has ended
(`UpstreamBounded`), that exactly one log is written, except where the safety net
answers 500 (`LoggedOnce`), that success is only logged for answers that were sent
completely (`SuccessIsComplete`, with the exception of section 4), that a log says
the client left only if it did or the deadline hit a send
(`DisconnectLogExplained`), and that a request ends (`EveryRequestSettles`).
`SlotLease` says the same of slots without the program: a lease goes from none to
waiting to out to settled, and at most `Slots` are out. `RefinesLease` is the
refinement, with `LeaseOf` as the mapping.

### SharedConnection: SQLite

One aiosqlite connection for the whole gateway, Python's implicit transactions,
WAL mode. `txn` is the state of its transaction: `none`; `open`, a `BEGIN`
without a read yet; `read`, a snapshot that is current; `stale`, one that is not
any more; `write`. `disk` is what is committed, `view` what the connection sees,
`lock` who has the write lock. `Select`, `Write`, `WriteFails`, `Commit` and
`Rollback` are what the gateway does to it; `CliBegin` and `CliCommit` what
another process does to the file. A statement that fails leaves its implicit
`BEGIN` behind, and one that violates UNIQUE leaves the write lock held: both
were confirmed by running the code's statements on SQLite.

### Accounting: authentication, quota, logs, shutdown

A request is authenticated in two SELECTs (`AuthKey`, `AuthUser`), passes the
quota with the row the first of them read (`EnforceLimits`), and when it ends
(`Finish`) spawns a log task: INSERT, UPDATE `token_used`, COMMIT, each a step.
`touch_last_used` is another such task. The CLI disables the key or its user.
`StopServing`, `CloseDatabase`, `Crash` and `Restart` are the life of the
process; `pending` is what the lifespan's shutdown waits for. As `token_used`
only changes by `token_used + ?`, the model keeps the set of requests it counts;
`Spent` compares their sum with the limit.
Correct means that no charge lacks its log (`ChargedIsLogged`), that finished
log tasks and disablings are durable (`DoneIsDurable`, `DurableStays`), that no
transaction is left behind (`NoLeftoverTransaction`), that a quota is exceeded by
concurrency only (`SequentialOvershoot`), that disabling works at once but for a
connection that a failed write has left on an old snapshot
(`DisableDelayedOnlyByStaleSnapshot`), and that the log of a request that ends
while the gateway serves lands, unless a statement fails on a lock or the process
is cut short (`EveryLogLands`): the shutdown waits for tasks that were spawned a
moment before it.

### Directory: users and keys

A command of the dashboard is a coroutine: look-up, write, commit, reread. One of
the CLI is a process: look-up, a first write that takes the lock, commit. The
kinds are creating a user or a key, enabling, disabling, and setting limits with a
patch in which a field may be kept. Log tasks write on the same connection. The
limits of a row carry a history, `by`: the commands that set them. Correct means
that a name has one creator (`OneCreator`), that a confirmed creation is durable
(`ConfirmedIsDurable`), that no command with old data enables a key
(`EnabledOnlyByEnable`), that a limit which the committed command does not name
changes only if another command's write came between its reading and its writing
(`KeptLimitLostOnlyInRace`), and that the gateway does not sit on the write lock
(`LockKeptOnlyByRejection`: it does in one case, after a rejected INSERT, and in
no other).

### Startup: configuration, schema, start

Processes of two kinds, the gateway and commands, possibly of two releases with
different `SCHEMA_VERSION`. `Load` reads the one configuration the process looks
at; `CreateTable` is one statement of `executescript`, which commits each;
`CheckVersion`, `InsertVersion` and `CommitVersion` are the rest of
`Database.connect`; `Seed`, `CommitSeed` and `Identify` the gateway's lifespan.
Then a gateway serves and writes logs now and then, a command reads or writes.
`LockedOut` is a lock that outlasts `busy_timeout`, `Die` a death at any
statement, `Configure` the administrator, `Restart` systemd's
`Restart=on-failure`. The ghost `alone` remembers whether another process was
about during a start.
Correct means that whoever is past `connect` works on a complete schema of its
own version and that a running gateway's `backend_id` is the row's
(`RunningAgree`); that no death of an earlier start makes a file the next one
cannot use (`RefusedForCause`); and that a gateway under systemd comes up once
its configuration is right (`GatewayComesUp`).

### RpmLimiter

`check` is synchronous, so calls are atomic; the model is about windows and a
clock with fractions of a second, and about the limit, which is an argument of
every call: `relay.py` 76 passes what the key's row said when the request was
authenticated, and `set-limits` or the dashboard may change it in the middle of
a window, to any integer (`schemas/admin.py` 71 and the CLI check nothing). So
every `Check` picks its limit anew. The history `calls` keeps what each call
came with and what it was told; the properties are about it. A call whose limit
is None counts nowhere and is no step.
`WindowBounded`: whoever is let in is one of the first calls let in in its
window, as many as its limit. The counter counts refused calls too;
`RefusedOnlyWhenFull` says that this costs nobody a call, with the one exception
the code has: calls refused under a lower limit are held against a limit that is
raised later in the same window. With a limit of 2, two calls let in and three
refused, a limit raised to 4 refuses the sixth call although two were let in; an
administrator who answers a 429 by a higher `--rpm`, as the table in
`USER_GUIDE.zh-CN.md` (477) suggests, may see it take effect with the next
window only. `RetryAfterHonoured`: who waits as long as the header says is refused
again only if others have been let in since or came with a limit of none; for a
limit of none itself no Retry-After is right.

### SseScanner

`feed` and what it calls, on tokens that stand for pieces of lines: line ends,
pings and other fields, data without a body, [DONE], usage, and data on which
`_extract` raises. The scanner is its `carry` and what it has `seen`. `CutOne` is
a round of the loop of `feed`, and `Drain` the loop: as many rounds as the carry
is long, since a round that finds nothing to cut changes nothing. `Process` goes
through an event line by line (`SeeLine`). Loops are recursive functions on the
naturals, so that they can be proved about.
`ChunkingInvisible` compares a scanner that was fed chunk by chunk with one that
was fed the whole; `AgreesWithStream` compares it with a definition of the
complete data fields of a stream (`Complete`, `Content`, `Report`) that knows
nothing of cutting. Where a stream mixes line ends, the scanner may cut otherwise
than a reader of lines would, so the second asks for uniform ones.

### AdminLogin

A login asks `LoginRateLimiter.blocked`, awaits its body and two SELECTs, and
only then tells the limiter how it went: `LoginArrives`, `LoginReads`,
`LoginFails`, `LoginSucceeds`. A session is created by a login, looked up by
pages (`Page`) and by calls of the admin API (`ApiCall`), expires at the look-up
that finds it old, is deleted by one of two logouts (`ApiLogout`, `WebLogout`),
and is lost with the process. The limiter's lists of timestamps are sets of the
logins that failed, with a time each (`stamp`): what it does with a list is to drop
the old and count the rest. A call that was let in goes on until `ApiCallEnds`
and asks no more: `working` holds the sessions that have one.
`admin init` is a CLI process: look, prompt, look again, upsert. Ghost variables
keep what the code forgets: the failures since the last success (`failed`,
unpruned), how many logins were in flight at once (`crowd`), when sessions were
created, used and ended. Correct means that concurrency buys an address no more
than the logins it has in flight (`FailuresBounded`), that nobody is blocked for
failures of others or of long ago (`BlockedOnlyForFailures`), that no page is
shown and no call let in for a session that has ended (`ValidOnlyWhileAlive`),
and that an administrator's password is replaced in one case only, by an `admin
init` that raced with the one that set it (`ReplacedOnlyInRace`).

### UsageTime, UsagePage: statistics

UsageTime is `resolve_time_range`, `parse_local_ms` and `_bucket_key` as
operators. A zone is an offset that changes once; a local time is a wall clock
and a fold, and `replace`, `timedelta`, `fromtimestamp` and `timestamp` do what
CPython does, which the repository's arithmetic depends on. `BucketSoFar` and
`DayBefore` say what a period should be, from the buckets alone.

UsagePage is `usage.js` around `loadUsage`, with the two calls of a load as
steps of the gateway: resolve the period at an instant of its own, later select.
A click on Apply or Reset during a load, calls that fail or are refused, logs
that land and hours that go by come in between. `shown` says for each place of
the page (cards, two charts, table) what it shows and of which load; `Loading` and
`Drawing` are what the functions called at the beginning and the end of a load,
its `finally` included, do to each place. Correct means that periods agree
with the buckets (`PeriodsFollowCalendar`), that a range the page lets through is
refused in one case only (`RefusedOnlyInGap`), that an idle page shows the load of
its address but for the places the property names (`ShownIsAskedFor`), that the
two answers of a load are about the same requests, but for logs that landed
between the SELECTs or a period that turned between the clock readings
(`PanelsDifferForCause`), and that no failure leaves the page disabled
(`LoadSettles`).

## 4. Runs

| Run | Shows | Bounds |
|---|---|---|
| `slots` | safety, order and progress of the pool | 5 requests, 3 slots: two waiters can be woken together, or one time out beside another that has been woken |
| `relay_safety` | all safety properties and the refinement | 3 requests, 1 slot, queue timeout 1, total 2 |
| `relay_live` | every request ends | 2 requests, 1 slot |
| `relay_error_body` | *violated*: the error body is read without a deadline | as above |
| `accounting_safety` | books, durability, quota, stale snapshots, logs that land, with locks of any length and crashes | 2 requests of 0 or 2 tokens, limit 2 |
| `accounting_stale_auth` | *violated*: disabling is immediate | 2 requests, no crash |
| `rpm` | windows, Retry-After, changing limits | 2 keys with 4 and 1 calls per process, limits -1, 1 and 2 that change from call to call, 2 s windows, clock in half seconds, 2 windows |
| `directory` | names, durability, enabling, limits, lock | 2 dashboard commands, 1 CLI command, 1 name, 1 limit |
| `startup` | schema, seed and restarts of two releases | 2 gateways of one release, 1 command of another, 2 tables, 1 death |
| `admin_login` | limiter, sessions, `admin init` | 3 logins, 2 addresses, 1 failure, windows and sessions of 2 ticks, 2 ticks of the clock, 2 processes |
| `usage` | periods, ranges and the usage page | 6 zones, days of 4 hours, instants of 3 days, 3 openings, 3 loads, 1 log that lands, 1 hour after the page is opened |
| `sse` | chunking and content | streams of 6 of 8 tokens, chunks of 1 or 2 |

Why these bounds are enough. With one slot and three requests, one can hold, one
be woken or time out, and one wait or arrive. The two timeouts differ and are as
small as they can be, so that timers fire in every location, before, with and
after each other. Two log tasks are what a shared transaction needs to be
committed by the wrong one, two are the smallest number of requests by which a
quota can be overrun; the limit 2 is met by one request. In `directory`, two
coroutines and one process give all pairs of look-up and write in one process and
in two. In `startup` two processes of one release collide on the version row, the
third is of another release; two tables let a start die with a half-made schema,
and the one death may strike any process at any statement. Three logins with a
limit of one failure let two be in flight when a third fails, and a success come
between; the two ticks let a session and a failure of the first instant reach the
ends of their windows exactly. In `usage` the days before, of and after the change
of the clock are all there, as are a week that two years share and the first day
of a month; the change is by day, at midnight, or ends at midnight; the page is
opened an hour before the end of a week, before a change by day and before the end
of a day, so that each may fall between two calls of one load; two loads are what
it takes to overtake, and with the third the chart of tokens may be two loads
behind. Six tokens hold two events with LF LF, one of two lines, as a ping before
a [DONE], and the start of the next, or one with CR LF CR LF and the start of the
next. The theorems of section 5 remove the bounds from most safety properties.
`Horizon`, `MaxCalls`, `MaxInput`, `MaxChunk`, `MaxDeaths`, `Clock`, `Openings`,
`MaxTicks` and `MaxLoads` are bounds in guards, commented where they are declared;
each CLI disabling is given once. Symmetry is used for identities that are only
compared, and in safety runs only. `rpm`, `sse` and `usage` switch the deadlock
check off, because their clock, stream or loads end; the other specifications
never stop.

Fairness. The event loop runs what is ready and fires timers that are due, so
`GatewayFairness` has weak fairness for what the gateway does by itself and for
time; of the upstream and the clients nothing is asked. `FairSpec` of Relay adds
that an error body ends: the code has no timer there. `Finalise` is fair since
asyncio's hooks finalise generators nobody refers to. In `UpstreamSlots`
holders release, which `EveryRequestSettles` justifies. In `Accounting` the
spawned tasks run, a CLI process that has begun commits, and nothing is asked of
requests, of the shutdown or of administrators. In `Startup` processes run on,
with strong fairness since a process waits for the write lock that others take
and give back, and SQLite's busy handler asks again and again for 5 s; log tasks
end; `Restart` is systemd's. Nothing is asked of commands that have not begun, of
`Stop` or of `Configure`; that the configuration becomes valid for good is the
premise of `GatewayComesUp`. In `UsagePage` calls are answered or fail, and the
browser draws what is settled.

What the code does and a document does not say:

* **Error body without deadline** (`relay.py` 288). An upstream that answers a
  stream with an error head and does not finish the body keeps the slot for
  ever. `relay_live` shows it is the only such place.
* **Stale authentication** (`dao.py` 114, `request_logging.py` 45). After a
  "database is locked" nobody rolls back; the next SELECT pins a snapshot, and
  until some coroutine commits, keys disabled by the CLI work. A failing write
  cannot end it: it fails at once on a stale snapshot.
  `DisableDelayedOnlyByStaleSnapshot`, which is proved, says that nothing else
  delays a disabling.

Others are stated as what does hold:

* A scanner that raises on an event behind the [DONE] of the same chunk leaves
  `saw_done` set and no error type (`relay.py` 313 and 343, `sse.py` 70 and 97):
  the request is logged as a success, although the chunk was never yielded and the
  client saw its stream break off. `sse.py` 5 calls the scanner a mere observer.
  `SuccessIsComplete` allows for that alone.
* A deadline that hits a stream while a chunk is sent to a slow client ends it by
  `GeneratorExit` and is logged `client_disconnected` (`relay.py` 311-327),
  although the comment at line 319 says that the two can be told apart:
  `DisconnectLogExplained` allows for it.
* Two `admin init` that look before either writes overwrite each other
  (`admin_auth_service.py` 92 says that this is refused): `ReplacedOnlyInRace`.
* A limit that is to be kept (`key_service.py` 20 and `schemas/admin.py` 71: the
  current value stays) is written with the value read earlier, so that one of two
  concurrent commands can undo the other: `KeptLimitLostOnlyInRace`.
* Yesterday is 24 hours long (`usage_service.py` 53), the last 24 hours and 7 days
  are not when the clock was changed meanwhile (55, 57), midnight keeps the fold of
  now (line 46), and a local time that the clock leaves out is taken to be after
  the gap: `PeriodsFollowCalendar` and `RefusedOnlyInGap` name these cases.
* A Reset during a load is half done (`usage.js` 211 and 531): form and address
  change, the page does not. A load whose series call fails leaves the chart of
  tokens as an older load drew it (`renderTimeseriesError`, 489-496, does not touch
  it), and the chart of requests, drawn or with its error, is emptied by every load
  itself: `finally` (253) calls `setTimeseriesLoading(false)`, which clears it
  (321). `ShownIsAskedFor` names these three.
* On the second pass of a repeated midnight today begins there, an hour later it
  begins at the first pass again: `PanelsDifferForCause` counts both as turns of
  the period.
* A start that is refused for the schema version has created the tables that were
  missing before it looked (`database.py` 30); the seed row keeps the first
  `base_url` a gateway was configured with (`app.py` 101).

## 5. Proofs

For every value of the constants, under their named assumptions (`Slots` and
timeouts are numbers, requests and logins are finitely many, gateway and CLI
commands are different, and so on). The type invariants of Relay, Accounting,
Directory, RpmLimiter and the pool are proved and not run again; those of the
others are part of their inductive invariants. Every safety property that a run
checks is stated by a theorem.

* **RelayProofs, the pool.** `SlotsInv` is the conjunction of type, conservation
  and no lost wake-up. It is inductive as it stands: what each operation needs is
  that waiters are distinct, which is in the type. The heart is that `Wake` moves
  any number of units from `value` to `granted`, by a bijection between a prefix
  of the queue and its elements. `FirstComeFirstServedHolds` needs that what it
  leaves is the rest of the queue, in order (`WakeLeavesSuffix`).
* **RelayProofs, the relay.** Every step of Relay is, on the pool's variables, a
  step of the pool or a stutter, so that all it promises carries over
  (`RelayUsesPool`), its order among it (`RelayServesInOrder`). `RelayInv` adds
  what ties the pool to the program counters, and `LogInv`: unfinished requests
  have no log, and a verdict "none" in the `finally` means that [DONE] was sent,
  or came in the chunk that the scanner raised on; for that, what the scanner has
  seen is sent before it gets another chunk. From it follow `SlotsMatchLocations`,
  `UpstreamBounded`, `LoggedOnce` and `SuccessIsComplete`; and that every step is
  a step of `SlotLease` under `LeaseOf`, hence `RelayRefinesLease`. `DepartureInv`
  says that a generator which is orphaned, or has taken its end for a departure,
  has a client that left or a deadline that passed; both are for good.
* **AccountingProofs.** `BooksInv` adds to the properties that the view covers the
  disk (`ViewCoversDisk`, equal rows and charges off a write transaction), that a
  write transaction cannot hide a CLI commit (`SwitchesKept`), and how far each
  log task is in terms of the view (`LogProgress`). `DisableDelayedHolds` needs of
  it that a view which still shows a switch as on that the disk has off is that of
  a stale snapshot. For the quota `TurnInv` is about sums without computing any:
  of requests that were let in one after the other, one saw all others charged
  (`LastSawTheOthers`), and what a request saw is settled and keeps its tokens, so
  that the sum it was admitted by is still that of the others.
* **RpmLimiterProofs.** The one counter of a key stands for the calls made in its
  newest window, let in or not, and no call is in a later one (`CounterStands`).
  So each call was judged by its place in its window (`Judged`), against whatever
  limit it brought. A refused call has in its window a first one, perhaps itself,
  before which all were let in, at least as many as its limit (`FilledFirst`):
  this carries the exception of `RefusedOnlyWhenFull`, since only a first refusal
  under a lower limit leaves room. The clock does not go back, and a Retry-After
  reaches past the window of its refusal whatever the clock's resolution
  (`RetryAfterPassesWindow`); who is refused in a later window is refused by the
  calls of that window.
* **DirectoryProofs.** While it writes the connection only adds rows; a stale
  snapshot only lacks rows (`Snapshots`); a command between write and answer finds
  its row in the view, and then on disk (`Progress`); a CLI process that writes
  has the lock to itself (`CliPending`); and the view can show a key as enabled
  that the file has disabled only while an enable command is at its commit
  (`EnablePending`). `LockInv` says why the gateway has the write lock.
  `LimitsInv` is about versions of the limits: a command that keeps a limit and
  has read every write that is in the file is about to write back the limit that
  is there, or one that a command of the gateway has yet to commit (`WriteBacks`),
  since commands of the gateway read each other's uncommitted rows.
* **StartupProofs.** Tables are never lost and a version is written once, by a
  process that has the lock and found all tables; from there on everybody else is
  refused. For `RefusedForCauseHolds`: a process that was alone throughout its
  start finds the lock free and the version as it was when it looked.
* **AdminLoginProofs.** A session in the store was created by this process, is not
  ended, and expires when it should (`SessionsStand`); an init whose prompt was
  answered too late has its second look still before it, or is over
  (`InitsStand`). `LimiterInv` counts for an address the failures of a window
  together with the logins that are past `blocked` and have yet to fail: both
  together exceed the allowed failures by less than the logins that were in flight
  at once (`AddressCounts`); and what the limiter has pruned is too old for any
  window to come (`FailuresKept`).
* **UsagePageProofs.** Loads do not overlap, so that the one a page waits for is
  the last (`OneLoadAtATime`); a refused range is a custom one whose beginning the
  clock leaves out (`Refusals`), since nothing else moves one of two wall clocks
  past the other; an answer holds the rows of the logs it has seen, in the range
  its filters meant when it was asked (`Answers`), and what a period means depends
  on the date and the pass of midnight alone (`SamePeriod`). No place shows a load
  that has not begun, so that only a drawn series makes the chart of tokens the
  newest. For the periods: the wall clock never shows less than before
  (`WallMonotone`; in whole hours it stands still for the hour it repeats), a
  timestamp is the first instant at which the wall clock shows as much
  (`StampIsFirst`), two days have one ISO week key if and only if they have one
  Monday (`SameWeek`), and the invariant `ClockLate` keeps yesterday within the
  calendar. `FiltersAssumption` is what the form lets through (`usage.js` 504);
  `ClockAssumption` says that a zone changes by one hour, and that instants begin
  two days before any the clock shows.
* **SseScannerProofs.** For streams and chunks of every length (`MaxInput` and
  `MaxChunk` are only the bounds of a run). A set of naturals that holds 0 and the
  successor of each of its members holds all of them (`SetInduction`, from the
  least element of what it would lack), so that induction over the rounds of
  `feed` and the positions of a stream is a statement about a set; in the same way
  the recursive functions of the model are shown to satisfy their equations
  (`Recursion`). The first delimiter of a carry remains the first when more
  follows, since no delimiter can begin before it and end after it
  (`FirstCutStays`): hence a round does the same with more at the end
  (`CutOneJoins`), draining in two parts is draining at once (`DrainJoins`), and
  `ChunkingInvisible` is inductive. With it `AgreesWithStream` is a statement
  about one feed of the whole stream, with the loop invariant `CutOff`: what is
  cut off is a beginning of the stream that ends in a line end, the fields in it
  are all complete, and the scanner has seen what they hold. A scanner that has
  nothing left to cut has cut off every complete field (`StuckTells`).
  `NoEventHeldBackHolds` adds that no chunk leaves a delimiter in the carry.

Only model-checked: all liveness (`EveryRequestSettles`, `WaitersServed`,
`EveryLogLands`, `GatewayComesUp`, `LoadSettles`), which rests on fairness and
ENABLED.

## 6. Assumptions and limits

* **Runtime.** CPython 3.12.13, Starlette 1.6.0, httpx 0.28.1, uvicorn 0.52.4.
  httpcore closes a response in a shielded scope, so `CloseUpstream` is not
  interrupted by the cancellations that anyio repeats. The generator of a
  `StreamingResponse` is started; nothing of the gateway awaits between the
  handler's return and that.
* **Timers** never fire early and may fire late. `q_effective` is positive when
  a request queues, as nothing is awaited after the deadline is computed.
* **Disconnects** are noticed only while a stream is being sent.
* **Shutdown.** A request that is still running after `StopServing` is an
  abandoned generator; its log may be lost, which the specification's section on
  shutdown allows.
* **Disk.** A crash of the process loses what is not committed. A power failure,
  which may also lose the last commits with `synchronous=NORMAL`, is left out.
* **Start.** A process whose start fails ends, and SQLite rolls back what it had
  open. Two gateways on one file have different ports. What a running gateway
  does with the rows is in Accounting and Directory.
* **Clock.** The wall clock of the RPM limiter does not go back: with a clock
  that does, a window's count starts again. Login windows and sessions are on a
  monotonic clock.
* **Zones.** A zone changes its offset once, by an hour, within the instants a
  run looks at.
* **Usage page.** Filters other than the period are constant; the address is only
  ever replaced, so the browser's Back leaves the page; a custom range in the
  address that does not parse is left out. Requests of a run are two.
* **Data.** Message bodies, headers, names, hashes and wording are left out; ids
  that administrators name exist, since nothing is ever deleted. Calls of a
  key without rpm_limit are not counted by the limiter.
* **Administrator.** SELECTs of a login see the newest settings row; a snapshot
  that lags, as in SharedConnection, could only answer "not initialized" longer.

Not modelled: the other pages of the dashboard, which keep nothing between a
click and the drawing of its answer that a property would be about (the dialogs
of `keys.js` do not reach their actions, since `createModal` never takes
over the `onAction` they are given; `login.js` does not look at `?redirect`); the overview
(its figures of today come from the functions of the usage page), the list of
recent requests and the printing of tables by
the CLI; the upstream client and its header copying, public endpoints, errors and
schemas, which have no state and no interaction of their own; the experiments
under `src/experiments`, which are not part of the program. PROJECT.json says so
for each. Hazards without a property are listed there with the reason: a generator
that is dropped before its first step (`relay.py` 355), and a wall clock that is
set back (`ratelimit.py` 24).

## 7. Plan

Done, in this order: the pool and the relay, because a lost slot stops the
service; the shared connection with the accounts; the limiter; the directory;
the scanner; the administrator's login; the start; usage periods and the usage
page. Next:

1. **Groups of the usage page** other than the period's default, with its filters.
2. **The unstarted generator**: a location of Relay between the return of the
   handler and the first step of the generator (`relay.py` 355).
