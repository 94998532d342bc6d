----------------------------- MODULE AdminLogin ------------------------------
(****************************************************************************)
(* The administrator: `easymodelgate admin init` (cli.py and                *)
(* services/admin_auth_service.py), login and logout (routers/admin.py),    *)
(* SessionStore and LoginRateLimiter (core/admin_session.py).  The store    *)
(* and the limiter are in memory and synchronous; a login awaits its body   *)
(* and two SELECTs between asking the limiter and telling it the outcome.   *)
(*                                                                          *)
(* A password is right or wrong.  A session is named by the login that      *)
(* creates it, a failure by the login that fails: the limiter looks at how  *)
(* many there are and at their times, never at their order.  SELECTs see    *)
(* the newest row: how they may lag is in SharedConnection.                 *)
(****************************************************************************)
EXTENDS Naturals, FiniteSets

CONSTANTS
  Logins,      \* login requests
  Origins,     \* client addresses
  Inits,       \* `admin init` processes
  Nobody,      \* no settings row
  MaxFailures, \* LOGIN_MAX_FAILURES
  LoginWindow, \* LOGIN_WINDOW_SECONDS, in ticks
  SessionTtl,  \* SESSION_TTL_SECONDS, in ticks
  Horizon      \* bound: the clock stops there

ASSUME LoginAssumption ==
  /\ Nobody \notin Inits
  /\ IsFiniteSet(Logins)
  /\ MaxFailures \in Nat \ {0}
  /\ LoginWindow \in Nat \ {0}
  /\ SessionTtl \in Nat \ {0}
  /\ Horizon \in Nat

VARIABLES
  now,       \* time.monotonic()
  admin,     \* whose password the settings row has
  setup,     \* where each `admin init` is
  at,        \* where each login is suspended
  from,      \* its address
  failures,  \* LoginRateLimiter._failures: the logins whose failures it keeps
  stamp,     \* when a login failed
  expires,   \* SessionStore._sessions: expires_at; 0: no such session
  working,   \* sessions with a call of the admin API that was let in and goes on
  (* what the properties remember *)
  late,      \* inits whose prompt was answered when there was an administrator
  failed,    \* failures of each address since its last success
  crowd,     \* most logins an address has had in flight at once
  created,   \* when a session was created
  seen,      \* when a session was last found valid
  ended      \* when it was logged out or lost

cliVars == <<admin, setup, late>>
limiterVars == <<failures, stamp, failed, crowd>>
sessionVars == <<expires, working, created, seen, ended>>
vars == <<now, cliVars, at, from, limiterVars, sessionVars>>

InFlight(o) == { a \in Logins : at[a] \in {"body", "verify"} /\ from[a] = o }

\* The failures of the window that ends at t.
Recent(logins, t) == { a \in logins : stamp[a] + LoginWindow > t /\ stamp[a] <= t }

\* LoginRateLimiter() and SessionStore() of a new process.
NoFailures == [o \in Origins |-> {}]
NoSessions == [s \in Logins |-> 0]

Init ==
  /\ now = 1
  /\ admin = Nobody
  /\ setup = [i \in Inits |-> "new"]
  /\ late = {}
  /\ at = [a \in Logins |-> "new"]
  /\ from \in [Logins -> Origins]
  /\ failures = NoFailures
  /\ stamp = [a \in Logins |-> 0]
  /\ expires = NoSessions
  /\ working = {}
  /\ failed = NoFailures
  /\ crowd = [o \in Origins |-> 0]
  /\ created = [s \in Logins |-> 0]
  /\ seen = [s \in Logins |-> 0]
  /\ ended = {}

------------------------------------------------------------------------------
(* easymodelgate admin init *)

Sets(i, l) == setup' = [setup EXCEPT ![i] = l]

GatewayIdle == UNCHANGED <<now, at, from, limiterVars, sessionVars>>

\* _admin refuses at once if there is an administrator, else prompts.
InitLooks(i) ==
  /\ setup[i] = "new"
  /\ Sets(i, IF admin = Nobody THEN "prompt" ELSE "done")
  /\ UNCHANGED <<admin, late>> /\ GatewayIdle

\* Two passwords that differ, or are empty, end it.
InitAnswers(i) ==
  /\ setup[i] = "prompt"
  /\ late' = IF admin = Nobody THEN late ELSE late \cup {i}
  /\ Sets(i, "recheck") \/ Sets(i, "done")
  /\ UNCHANGED admin /\ GatewayIdle

\* Mutant of InitRechecks: the look before the prompt is enough.
InitTrustsFirstLook(i) ==
  /\ setup[i] = "recheck"
  /\ Sets(i, "write")
  /\ UNCHANGED <<admin, late>> /\ GatewayIdle

\* initialize_admin looks again: AdminAlreadyInitialized.
InitRechecks(i) ==
  /\ setup[i] = "recheck"
  /\ Sets(i, IF admin = Nobody THEN "write" ELSE "done")
  /\ UNCHANGED <<admin, late>> /\ GatewayIdle

\* INSERT ... ON CONFLICT DO UPDATE, and its commit; or "database is locked".
InitWrites(i) ==
  /\ setup[i] = "write"
  /\ admin' \in {i, admin}
  /\ Sets(i, "done")
  /\ UNCHANGED late /\ GatewayIdle

------------------------------------------------------------------------------
(* LoginRateLimiter *)

\* Mutant of Blocked: one failure too many.
BlockedOneLater(o) == Cardinality(Recent(failures[o], now)) > MaxFailures

Blocked(o) == Cardinality(Recent(failures[o], now)) >= MaxFailures

\* The failures that a call keeps.
Pruned(o) == { a \in failures[o] : stamp[a] + LoginWindow > now }

RecordFailure(o, a) ==
  /\ failures' = [failures EXCEPT ![o] = Pruned(o) \cup {a}]
  /\ stamp' = [stamp EXCEPT ![a] = now]
  /\ failed' = [failed EXCEPT ![o] = @ \cup {a}]

\* Mutant of Reset: a success leaves the failures where they are.
ResetNothing(o) == UNCHANGED <<failures, stamp>> /\ failed' = [failed EXCEPT ![o] = {}]

Reset(o) ==
  /\ failures' = [failures EXCEPT ![o] = {}]
  /\ failed' = [failed EXCEPT ![o] = {}]
  /\ UNCHANGED stamp

------------------------------------------------------------------------------
(* Login *)

Answers(a, l) == at' = [at EXCEPT ![a] = l]

\* A login that passes the limiter awaits its body.
LoginArrives(a) ==
  LET o == from[a]
      n == Cardinality(InFlight(o)) + 1
  IN  /\ at[a] = "new"
      /\ failures' = [failures EXCEPT ![o] = Pruned(o)]
      /\ \/ Blocked(o) /\ Answers(a, "blocked") /\ UNCHANGED crowd
         \/ ~Blocked(o) /\ Answers(a, "body")
            /\ crowd' = [crowd EXCEPT ![o] = IF n > @ THEN n ELSE @]
      /\ UNCHANGED <<now, cliVars, from, stamp, failed, sessionVars>>

\* 400 or 422 for the body, 503 without an administrator.
LoginReads(a) ==
  /\ at[a] = "body"
  /\ Answers(a, "done") \/ (admin # Nobody /\ Answers(a, "verify"))
  /\ UNCHANGED <<now, cliVars, from, limiterVars, sessionVars>>

LoginFails(a) ==
  /\ at[a] = "verify"
  /\ RecordFailure(from[a], a)
  /\ Answers(a, "done")
  /\ UNCHANGED <<now, cliVars, from, crowd, sessionVars>>

LoginSucceeds(a) ==
  /\ at[a] = "verify"
  /\ Reset(from[a])
  /\ expires' = [expires EXCEPT ![a] = now + SessionTtl]
  /\ created' = [created EXCEPT ![a] = now]
  /\ Answers(a, "done")
  /\ UNCHANGED <<now, cliVars, from, crowd, working, seen, ended>>

------------------------------------------------------------------------------
(* SessionStore *)

\* Mutant of Expired: a session may be used in the moment it expires.
ExpiredAfter(s) == now > expires[s]

Expired(s) == now >= expires[s]

NoLogin == UNCHANGED <<now, cliVars, at, from, limiterVars, created>>

\* lookup(): forgets a session that has expired.
Lookup(s) ==
  /\ \/ Expired(s) /\ expires' = [expires EXCEPT ![s] = 0] /\ UNCHANGED seen
     \/ ~Expired(s) /\ seen' = [seen EXCEPT ![s] = now] /\ UNCHANGED expires
  /\ NoLogin /\ UNCHANGED ended

\* A page, or the redirect to the login page; the login page, or the redirect to
\* the overview.  Nothing is awaited after the lookup but a SELECT.
Page(s) == Lookup(s) /\ UNCHANGED working

\* require_admin_session, then require_same_origin: a call that is let in awaits
\* its body and the database, and asks no more.
ApiCall(s) ==
  /\ Lookup(s)
  /\ working' \in {working, IF Expired(s) THEN working ELSE working \cup {s}}

ApiCallEnds(s) ==
  /\ s \in working
  /\ working' = working \ {s}
  /\ NoLogin /\ UNCHANGED <<expires, seen, ended>>

\* delete()
Delete(s) ==
  /\ expires' = [expires EXCEPT ![s] = 0]
  /\ ended' = IF created[s] = 0 THEN ended ELSE ended \cup {s}
  /\ NoLogin /\ UNCHANGED <<working, seen>>

\* The logout of the admin API, unless its Origin is refused, and that of the
\* pages: whether the session is valid is not asked.
ApiLogout(s) == Delete(s)
WebLogout(s) == Delete(s)

------------------------------------------------------------------------------
Tick == now < Horizon /\ now' = now + 1
        /\ UNCHANGED <<cliVars, at, from, limiterVars, sessionVars>>

\* The gateway stops and starts: logins, failures and sessions are gone.
Restart ==
  /\ failures' = NoFailures
  /\ expires' = NoSessions
  /\ working' = {}
  /\ at' = [a \in Logins |-> IF at[a] \in {"body", "verify"} THEN "done" ELSE at[a]]
  /\ failed' = NoFailures
  /\ ended' = { s \in Logins : created[s] # 0 }
  /\ UNCHANGED <<now, cliVars, from, stamp, crowd, created, seen>>

Next ==
  \/ \E i \in Inits : InitLooks(i) \/ InitAnswers(i) \/ InitRechecks(i) \/ InitWrites(i)
  \/ \E a \in Logins : LoginArrives(a) \/ LoginReads(a) \/ LoginFails(a) \/ LoginSucceeds(a)
  \/ \E s \in Logins :
       Page(s) \/ ApiCall(s) \/ ApiCallEnds(s) \/ ApiLogout(s) \/ WebLogout(s)
  \/ Tick
  \/ Restart

Spec == Init /\ [][Next]_vars

------------------------------------------------------------------------------
(* Properties *)

\* An address that keeps n logins in flight fails at most n - 1 times more than
\* LOGIN_MAX_FAILURES in any stretch of LOGIN_WINDOW_SECONDS without a success,
\* although the limiter is asked before the awaits and told after them.
FailuresBounded ==
  \A o \in Origins : \A t \in 1..now :
    Cardinality(Recent(failed[o], t)) + 1 <= MaxFailures + (IF crowd[o] = 0 THEN 1 ELSE crowd[o])

\* An address is blocked only for failures of the last LOGIN_WINDOW_SECONDS
\* since its last success, never for those of others or of an earlier process.
BlockedOnlyForFailures ==
  [][\A a \in Logins : at[a] = "new" /\ at'[a] = "blocked" =>
       Cardinality(Recent(failed[from[a]], now)) >= MaxFailures]_vars

\* No page is shown and no call is let in for a session after its logout, after
\* its time, or in a process that did not create it.  Calls that were let in
\* before go on: what they change may come after the logout (admin.py 69).
ValidOnlyWhileAlive ==
  [][\A s \in Logins : seen'[s] # seen[s] \/ s \in working' \ working =>
       /\ s \notin ended
       /\ created[s] # 0
       /\ now < created[s] + SessionTtl]_vars

\* admin_auth_service.py 92 ("an existing one is refused"), as far as it is
\* true: an administrator's password is only replaced by an init whose prompt
\* was answered before there was any administrator.
ReplacedOnlyInRace ==
  [][admin # Nobody /\ admin' # admin => admin' \in Inits \ late]_vars
==============================================================================
