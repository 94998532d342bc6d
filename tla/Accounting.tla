------------------------------ MODULE Accounting ------------------------------
(****************************************************************************)
(* The account of one API key: who may call (core/auth.py), within which    *)
(* quota (_enforce_limits of proxy/relay.py), and what the detached tasks   *)
(* write afterwards (services/request_logging.py, dao.touch_last_used),     *)
(* all over the shared connection, with a CLI that disables the key or its  *)
(* user, a shutdown that flushes and a process that may die.                *)
(*                                                                          *)
(* token_used is only ever changed by "token_used + ?", so the database is  *)
(* abstracted to the set of requests it has counted.                        *)
(****************************************************************************)
EXTENDS SharedConnection, Naturals, Functions

CONSTANTS
  Requests,     \* the requests made with the key
  TokenCounts,  \* the total_tokens they may report; 0: no usage
  TokenLimit,   \* token_limit of the key
  MayCrash      \* whether the process may die

ASSUME AccountingAssumption ==
  /\ TokenCounts \subseteq Nat
  /\ TokenLimit \in Nat
  /\ MayCrash \in BOOLEAN

VARIABLES
  phase,    \* of the process: "up", "draining", "closed", "cut" or "down"
  stage,    \* of each request
  seen,     \* the requests counted in token_used when auth read the key row
  tokens,   \* total_tokens reported by the upstream
  log,      \* the persist_request_log task of each request
  touch,    \* the touch_last_used task of each request
  pending,  \* tasks that the shutdown waits for
  barred    \* requests whose key or user was disabled before they came

taskVars == <<phase, stage, seen, tokens, log, touch, pending, barred>>
vars == <<dbVars, taskVars>>

Stages == {"new", "keyread", "authed", "running", "refused", "ended", "lost"}
TaskStates == {"idle", "insert", "update", "commit", "done", "failed"}
Phases == {"up", "draining", "closed", "cut", "down"}

Tasks == {"log", "touch"} \X Requests

Busy(s) == s \in {"insert", "update", "commit"}
Active == { t \in Tasks : Busy(IF t[1] = "log" THEN log[t[2]] ELSE touch[t[2]]) }

\* Database columns: request_logs rows, api_keys.token_used, the two switches.
EmptyDb == [rows |-> {}, counted |-> {}, keyOn |-> TRUE, userOn |-> TRUE]

Used(counted) == SumFunction([r \in counted |-> tokens[r]])

Init ==
  /\ DbInit(EmptyDb)
  /\ phase = "up"
  /\ stage = [r \in Requests |-> "new"]
  /\ seen = [r \in Requests |-> {}]
  /\ tokens = [r \in Requests |-> 0]
  /\ log = [r \in Requests |-> "idle"]
  /\ touch = [r \in Requests |-> "idle"]
  /\ pending = {}
  /\ barred = {}

ConnectionOpen == phase \in {"up", "draining"}

Move(r, s) == stage' = [stage EXCEPT ![r] = s]

------------------------------------------------------------------------------
(* require_auth and _enforce_limits *)

\* Mutant of AuthKey: the enabled column is not looked at.
AuthKeyUnchecked(r) ==
  /\ phase = "up"
  /\ stage[r] = "new"
  /\ Select
  /\ barred' = IF disk.keyOn /\ disk.userOn THEN barred ELSE barred \cup {r}
  /\ seen' = [seen EXCEPT ![r] = view.counted]
  /\ Move(r, "keyread") \/ Move(r, "refused")
  /\ UNCHANGED <<phase, tokens, log, touch, pending>>

\* get_key_by_hash; a key that is unknown, disabled or expired is answered 401.
AuthKey(r) ==
  /\ phase = "up"
  /\ stage[r] = "new"
  /\ Select
  /\ barred' = IF disk.keyOn /\ disk.userOn THEN barred ELSE barred \cup {r}
  /\ seen' = [seen EXCEPT ![r] = view.counted]
  /\ (view.keyOn /\ Move(r, "keyread")) \/ Move(r, "refused")
  /\ UNCHANGED <<phase, tokens, log, touch, pending>>

\* get_user_by_id; a disabled user is answered 403, else touch_last_used is
\* spawned.
AuthUser(r) ==
  /\ phase = "up"
  /\ stage[r] = "keyread"
  /\ Select
  /\ \/ ~view.userOn /\ Move(r, "refused") /\ UNCHANGED touch
     \/ view.userOn /\ Move(r, "authed") /\ touch' = [touch EXCEPT ![r] = "update"]
  /\ UNCHANGED <<phase, seen, tokens, log, pending, barred>>

\* Mutant of OverQuota: the limit itself is still allowed.
OverQuotaStrictly(r) == Used(seen[r]) > TokenLimit

\* token_used >= token_limit
Spent(counted) == Used(counted) >= TokenLimit

\* (auth.token_used or 0) >= auth.token_limit, on the row read by AuthKey.
OverQuota(r) == Spent(seen[r])

\* A refusal, by the quota or by the RPM limiter, is logged without tokens.
EnforceLimits(r) ==
  /\ phase = "up"
  /\ stage[r] = "authed"
  /\ \/ ~OverQuota(r) /\ Move(r, "running") /\ UNCHANGED log
     \/ Move(r, "refused") /\ log' = [log EXCEPT ![r] = "insert"]
     \/ Move(r, "refused") /\ UNCHANGED log      \* 400, before the limits
  /\ UNCHANGED <<dbVars, phase, seen, tokens, touch, pending, barred>>

\* finish(): the request reports n tokens and its log task is spawned.  A
\* generator that was abandoned may get here after the shutdown has begun.
Finish(r, n) ==
  /\ ConnectionOpen
  /\ stage[r] = "running"
  /\ tokens' = [tokens EXCEPT ![r] = n]
  /\ Move(r, "ended")
  /\ log' = [log EXCEPT ![r] = "insert"]
  /\ UNCHANGED <<dbVars, phase, seen, touch, pending, barred>>

------------------------------------------------------------------------------
(* Detached tasks *)

LogGoes(r, s) ==
  /\ ConnectionOpen
  /\ log' = [log EXCEPT ![r] = s]
  /\ UNCHANGED <<phase, stage, seen, tokens, touch, pending, barred>>

\* Mutant of LogInsert: the tokens are charged first.
LogChargesFirst(r) ==
  /\ log[r] = "insert"
  /\ Write([view EXCEPT !.counted = @ \cup {r}])
  /\ LogGoes(r, IF tokens[r] > 0 THEN "update" ELSE "commit")

\* INSERT INTO request_logs
LogInsert(r) ==
  /\ log[r] = "insert"
  /\ Write([view EXCEPT !.rows = @ \cup {r}])
  /\ LogGoes(r, IF tokens[r] > 0 THEN "update" ELSE "commit")

\* Mutant of LogUpdate: the sum is made in Python, from what auth had read.
LogUpdateInPython(r) ==
  /\ log[r] = "update"
  /\ Write([view EXCEPT !.counted = seen[r] \cup {r}])
  /\ LogGoes(r, "commit")

\* UPDATE api_keys SET token_used = token_used + ?
LogUpdate(r) ==
  /\ log[r] = "update"
  /\ Write([view EXCEPT !.counted = @ \cup {r}])
  /\ LogGoes(r, "commit")

\* Mutant of LogCommit: the commit is left to whoever comes next.
LogCommitLater(r) ==
  /\ log[r] = "commit"
  /\ LogGoes(r, "done")
  /\ UNCHANGED dbVars

\* await db.conn.commit()
LogCommit(r) ==
  /\ log[r] = "commit"
  /\ Commit
  /\ LogGoes(r, "done")

\* The statement raises; nothing is rolled back, nobody retries.
LogFails(r) ==
  /\ log[r] \in {"insert", "update"}
  /\ WriteFails
  /\ LogGoes(r, "failed")

TouchGoes(r, s) ==
  /\ ConnectionOpen
  /\ touch' = [touch EXCEPT ![r] = s]
  /\ UNCHANGED <<phase, stage, seen, tokens, log, pending, barred>>

TouchUpdate(r) == touch[r] = "update" /\ Write(view) /\ TouchGoes(r, "commit")
TouchCommit(r) == touch[r] = "commit" /\ Commit /\ TouchGoes(r, "done")
TouchFails(r) == touch[r] = "update" /\ WriteFails /\ TouchGoes(r, "failed")

------------------------------------------------------------------------------
(* The CLI: key disable, user disable; the dashboard *)

CliStarts ==
  /\ disk.keyOn \/ disk.userOn
  /\ CliBegin
  /\ UNCHANGED taskVars

\* Bound: each command is given once.
CliDisables ==
  /\ \/ disk.keyOn /\ CliCommit([disk EXCEPT !.keyOn = FALSE])
     \/ disk.userOn /\ CliCommit([disk EXCEPT !.userOn = FALSE])
  /\ UNCHANGED taskVars

\* A page of the dashboard is read over the same connection.
AdminReads == phase = "up" /\ Select /\ UNCHANGED taskVars

------------------------------------------------------------------------------
(* Shutdown, crash, restart *)

\* Mutant of StopServing: the registry is not looked at.
StopWithoutLooking ==
  /\ phase = "up"
  /\ \A r \in Requests : stage[r] \notin {"keyread", "authed"}
  /\ phase' = "draining"
  /\ pending' = {}
  /\ UNCHANGED <<dbVars, stage, seen, tokens, log, touch, barred>>

\* uvicorn has let the handlers finish; the lifespan takes the unfinished
\* background tasks.
StopServing ==
  /\ phase = "up"
  /\ \A r \in Requests : stage[r] \notin {"keyread", "authed"}
  /\ phase' = "draining"
  /\ pending' = Active
  /\ UNCHANGED <<dbVars, stage, seen, tokens, log, touch, barred>>

\* db.close(), once the tasks are done or 5 s have gone by; a task that is left
\* finds no connection.
CloseDatabase ==
  /\ phase = "draining"
  /\ \/ pending \cap Active = {} /\ phase' = "closed"
     \/ pending \cap Active # {} /\ LongLocks /\ phase' = "cut"
  /\ Rollback
  /\ log' = [r \in Requests |-> IF Busy(log[r]) THEN "failed" ELSE log[r]]
  /\ touch' = [r \in Requests |-> IF Busy(touch[r]) THEN "failed" ELSE touch[r]]
  /\ UNCHANGED <<stage, seen, tokens, pending, barred>>

Crash ==
  /\ MayCrash
  /\ ConnectionOpen
  /\ phase' = "down"
  /\ Rollback
  /\ log' = [r \in Requests |-> IF Busy(log[r]) THEN "failed" ELSE log[r]]
  /\ touch' = [r \in Requests |-> IF Busy(touch[r]) THEN "failed" ELSE touch[r]]
  /\ stage' = [r \in Requests |->
       IF stage[r] \in {"keyread", "authed", "running"} THEN "lost" ELSE stage[r]]
  /\ UNCHANGED <<seen, tokens, pending, barred>>

Restart ==
  /\ phase \in {"closed", "cut", "down"}
  /\ phase' = "up"
  /\ stage' = [r \in Requests |-> IF stage[r] = "running" THEN "lost" ELSE stage[r]]
  /\ pending' = {}
  /\ UNCHANGED <<dbVars, seen, tokens, log, touch, barred>>

------------------------------------------------------------------------------
LogTask(r) == LogInsert(r) \/ LogUpdate(r) \/ LogCommit(r) \/ LogFails(r)
TouchTask(r) == TouchUpdate(r) \/ TouchCommit(r) \/ TouchFails(r)

Handler(r) ==
  \/ AuthKey(r) \/ AuthUser(r) \/ EnforceLimits(r)
  \/ \E n \in TokenCounts : Finish(r, n)

Next ==
  \/ \E r \in Requests : Handler(r) \/ LogTask(r) \/ TouchTask(r)
  \/ CliStarts \/ CliDisables \/ AdminReads
  \/ StopServing \/ CloseDatabase \/ Crash \/ Restart

Spec == Init /\ [][Next]_vars

\* The event loop and the database thread run what is ready, and a CLI command
\* that has the lock finishes.
FairSpec ==
  /\ Spec
  /\ \A r \in Requests : WF_vars(LogTask(r)) /\ WF_vars(TouchTask(r))
  /\ WF_vars(CliDisables)

------------------------------------------------------------------------------
(* Properties *)

Databases == [rows : SUBSET Requests, counted : SUBSET Requests,
              keyOn : BOOLEAN, userOn : BOOLEAN]

\* The type of every variable.
TypeOK ==
  /\ ConnectionConsistent
  /\ disk \in Databases
  /\ view \in Databases
  /\ phase \in Phases
  /\ stage \in [Requests -> Stages]
  /\ seen \in [Requests -> SUBSET Requests]
  /\ tokens \in [Requests -> TokenCounts \cup {0}]
  /\ log \in [Requests -> TaskStates]
  /\ touch \in [Requests -> TaskStates]
  /\ pending \subseteq Tasks
  /\ barred \subseteq Requests

\* Tokens are never charged for a request that has no log, whichever coroutine
\* commits what, and wherever the process dies.
ChargedIsLogged ==
  /\ disk.counted \subseteq disk.rows
  /\ view.counted \subseteq view.rows

\* A log task that has returned left its row and its tokens on disk, although
\* its statements may have been committed by other tasks.
DoneIsDurable ==
  \A r \in Requests :
    log[r] = "done" => r \in disk.rows /\ (tokens[r] > 0 => r \in disk.counted)

\* What is on disk stays: no commit, of the gateway or the CLI, undoes a row,
\* a charge or a disabling that was committed.
DurableStays ==
  [][/\ disk.rows \subseteq disk'.rows
     /\ disk.counted \subseteq disk'.counted
     /\ disk'.keyOn => disk.keyOn
     /\ disk'.userOn => disk.userOn]_vars

\* No write transaction outlives the tasks that made it: otherwise the CLI is
\* locked out until the next request.
NoLeftoverTransaction ==
  txn = "write" => \E t \in Active : TRUE

\* All but one of the requests charged to the key are within the quota.
WithinQuotaButOne ==
  view.counted # {} => \E r \in view.counted : ~Spent(view.counted \ {r})

\* Of any two charged requests, one was let in after the other was charged.
ChargedInTurn ==
  \A q, r \in view.counted : q = r \/ q \in seen[r] \/ r \in seen[q]

\* Clients that wait for one answer (and its log) before they send the next
\* request exceed the quota by their last request only.
SequentialOvershoot == ChargedInTurn => WithinQuotaButOne

\* USER_GUIDE.zh-CN.md 159 and 434: a disabled key, or any key of a disabled
\* user, is refused at once: no request that comes later is let through.
DisableIsImmediate ==
  \A r \in barred : stage[r] \in {"keyread", "refused", "lost"} /\ touch[r] = "idle"

\* A request gets past a disabled key or a disabled user only in a step that
\* reads a stale snapshot, the one that a failed write has left pinned.
DisableDelayedOnlyByStaleSnapshot ==
  [][\A r \in Requests :
       \/ stage[r] = "new" /\ stage'[r] = "keyread" /\ ~disk.keyOn
       \/ stage[r] = "keyread" /\ stage'[r] = "authed" /\ ~disk.userOn
       => txn = "stale"]_vars

\* The log of a request that ends while the gateway serves reaches the disk, be
\* it that a shutdown begins in the meantime; it is given up when a statement
\* fails on another process's lock or the process is cut short, never by a
\* shutdown that ends in good order.
EveryLogLands ==
  \A r \in Requests :
    phase = "up" /\ log[r] = "insert"
      ~> r \in disk.rows \/ (log[r] = "failed" /\ phase # "closed")
==============================================================================
