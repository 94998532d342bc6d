------------------------------ MODULE Directory ------------------------------
(****************************************************************************)
(* Users and API keys: the administrator's commands of routers/admin_users, *)
(* routers/admin_keys and cli.py, through services/user_service.py,         *)
(* services/key_service.py and db/dao.py.  Gateway commands are coroutines  *)
(* on the shared connection, beside the log tasks; CLI commands are other   *)
(* processes on the same file.                                              *)
(*                                                                          *)
(* One key is administered.  The users and the key that commands name by id *)
(* exist: nothing ever deletes one.                                         *)
(****************************************************************************)
EXTENDS SharedConnection, FiniteSets

CONSTANTS
  Gateway,   \* commands given through the dashboard
  Cli,       \* commands given through the command line
  Names,     \* user names
  Limits,    \* values of rpm_limit and token_limit
  Null       \* no limit

ASSUME DirectoryAssumption ==
  /\ Gateway \cap Cli = {}
  /\ Null \notin Limits

VARIABLES
  cmd,      \* the command
  at,       \* where its coroutine or process is
  got,      \* the limits get_key has read
  answer,   \* what the administrator was told
  logger    \* the log tasks of the gateway: "idle" or "commit"

commandVars == <<cmd, at, got, answer>>
vars == <<dbVars, commandVars, logger>>

Commands == Gateway \cup Cli

Settings == Limits \cup {Null}

\* "keep" is KEEP; CLEAR is Null.
Patches == [rpm : Settings \cup {"keep"}, tok : Settings \cup {"keep"}]

Kinds ==
  [op : {"user"}, name : Names] \cup [op : {"key", "enable", "disable"}]
    \cup [op : {"limits"}, patch : Patches]

NoCommand == [op |-> "none"]

\* The limits of the administered key; by (history only): the commands that set
\* them, and so which version of the row this is.
Rows == [rpm : Settings, tok : Settings, by : SUBSET Commands]
Unlimited == [rpm |-> Null, tok |-> Null, by |-> {}]

\* users: name and creator of each row; keys: creators of the keys; on, limits:
\* the columns of the administered key.
EmptyDb == [users |-> {}, keys |-> {}, on |-> TRUE, limits |-> Unlimited]

Taken(db, n) == \E u \in db.users : u.name = n

Init ==
  /\ DbInit(EmptyDb)
  /\ cmd = [c \in Commands |-> NoCommand]
  /\ at = [c \in Commands |-> "new"]
  /\ got = [c \in Commands |-> Unlimited]
  /\ answer = [c \in Commands |-> "none"]
  /\ logger = "idle"

------------------------------------------------------------------------------
(* What a command reads and writes *)

Goes(c, l) == at' = [at EXCEPT ![c] = l]
Answers(c, a) == at' = [at EXCEPT ![c] = "done"] /\ answer' = [answer EXCEPT ![c] = a]

\* What precedes the write: user names are looked up, set_key_limits gets the
\* row, create_key looks for the owner.
Looks(c, k, db) ==
  /\ at[c] = "new"
  /\ cmd' = [cmd EXCEPT ![c] = k]
  /\ got' = IF k.op = "limits" THEN [got EXCEPT ![c] = db.limits] ELSE got
  /\ \/ k.op = "user" /\ Taken(db, k.name) /\ Answers(c, "conflict")
     \/ ~(k.op = "user" /\ Taken(db, k.name)) /\ Goes(c, "write") /\ UNCHANGED answer

\* Mutant of Merge: a field that is not named is cleared.
MergeClears(given, old) == IF given = "keep" THEN Null ELSE given

\* KEEP: the value that was read; otherwise the value of the patch.
Merge(given, old) == IF given = "keep" THEN old ELSE given

\* The row that set_key_limits writes over one whose commands were by.
SetLimits(c, by) ==
  [rpm |-> Merge(cmd[c].patch.rpm, got[c].rpm), tok |-> Merge(cmd[c].patch.tok, got[c].tok),
   by |-> by \cup {c}]

\* Mutant of Apply: set-limits writes the whole row.
ApplyWholeRow(c, db) ==
  CASE cmd[c].op = "user" -> [db EXCEPT !.users = @ \cup {[name |-> cmd[c].name, by |-> c]}]
    [] cmd[c].op = "key" -> [db EXCEPT !.keys = @ \cup {c}]
    [] cmd[c].op = "enable" -> [db EXCEPT !.on = TRUE]
    [] cmd[c].op = "disable" -> [db EXCEPT !.on = FALSE]
    [] cmd[c].op = "limits" -> [db EXCEPT !.limits = SetLimits(c, @.by), !.on = TRUE]

\* The INSERT or UPDATE.
Apply(c, db) ==
  CASE cmd[c].op = "user" -> [db EXCEPT !.users = @ \cup {[name |-> cmd[c].name, by |-> c]}]
    [] cmd[c].op = "key" -> [db EXCEPT !.keys = @ \cup {c}]
    [] cmd[c].op = "enable" -> [db EXCEPT !.on = TRUE]
    [] cmd[c].op = "disable" -> [db EXCEPT !.on = FALSE]
    [] cmd[c].op = "limits" -> [db EXCEPT !.limits = SetLimits(c, @.by)]

\* Mutant of Violates: users.username is not unique.
ViolatesNothing(c, db) == FALSE

\* users.username is UNIQUE; key hashes are random and never collide.
Violates(c, db) == cmd[c].op = "user" /\ Taken(db, cmd[c].name)

------------------------------------------------------------------------------
(* Commands of the dashboard *)

\* Enabling and disabling look nothing up.
Begin(c, k) ==
  /\ c \in Gateway
  /\ Looks(c, k, view)
  /\ IF k.op \in {"enable", "disable"} THEN UNCHANGED dbVars ELSE Select
  /\ UNCHANGED logger

DoWrite(c) ==
  /\ c \in Gateway
  /\ at[c] = "write"
  /\ ~Violates(c, view)
  /\ Write(Apply(c, view))
  /\ Goes(c, "commit")
  /\ UNCHANGED <<cmd, got, answer, logger>>

\* IntegrityError: answered like the look-up, the transaction stays open.
InsertRejected(c) ==
  /\ c \in Gateway
  /\ at[c] = "write"
  /\ Violates(c, view)
  /\ Write(view)
  /\ Answers(c, "conflict")
  /\ UNCHANGED <<cmd, got, logger>>

\* "database is locked": 500.
DoWriteFails(c) ==
  /\ c \in Gateway
  /\ at[c] = "write"
  /\ WriteFails
  /\ Answers(c, "error")
  /\ UNCHANGED <<cmd, got, logger>>

\* Mutant of DoCommit: the commit is left to whoever comes next.
DoCommitLater(c) ==
  /\ c \in Gateway
  /\ at[c] = "commit"
  /\ Goes(c, "reread")
  /\ UNCHANGED <<dbVars, cmd, got, answer, logger>>

DoCommit(c) ==
  /\ c \in Gateway
  /\ at[c] = "commit"
  /\ Commit
  /\ Goes(c, "reread")
  /\ UNCHANGED <<cmd, got, answer, logger>>

\* The row is read again for the response.
Respond(c) ==
  /\ c \in Gateway
  /\ at[c] = "reread"
  /\ Select
  /\ Answers(c, "ok")
  /\ UNCHANGED <<cmd, got, logger>>

------------------------------------------------------------------------------
(* Commands of the CLI: a process with a connection of its own *)

CliLooks(c, k) ==
  /\ c \in Cli
  /\ Looks(c, k, disk)
  /\ UNCHANGED <<dbVars, logger>>

CliWrites(c) ==
  /\ c \in Cli
  /\ at[c] = "write"
  /\ ~Violates(c, disk)
  /\ CliBegin
  /\ Goes(c, "commit")
  /\ UNCHANGED <<cmd, got, answer, logger>>

\* The process ends, and its transaction with it.
CliRejected(c) ==
  /\ c \in Cli
  /\ at[c] = "write"
  /\ lock = "free"
  /\ Violates(c, disk)
  /\ Answers(c, "conflict")
  /\ UNCHANGED <<dbVars, cmd, got, logger>>

\* The gateway, or another CLI process, has kept the write lock for 5 s.
CliLockedOut(c) ==
  /\ c \in Cli
  /\ at[c] = "write"
  /\ lock # "free"
  /\ Answers(c, "error")
  /\ UNCHANGED <<dbVars, cmd, got, logger>>

CliCommits(c) ==
  /\ c \in Cli
  /\ at[c] = "commit"
  /\ CliCommit(Apply(c, disk))
  /\ Answers(c, "ok")
  /\ UNCHANGED <<cmd, got, logger>>

------------------------------------------------------------------------------
(* The rest of the gateway *)

\* The log tasks write to other columns of the same connection.
LoggerWrites ==
  /\ logger = "idle"
  /\ Write(view)
  /\ logger' = "commit"
  /\ UNCHANGED commandVars

LoggerCommits ==
  /\ logger = "commit"
  /\ Commit
  /\ logger' = "idle"
  /\ UNCHANGED commandVars

LoggerFails == logger = "idle" /\ WriteFails /\ UNCHANGED <<commandVars, logger>>

\* The gateway's process dies and is started again.
Crash ==
  /\ Rollback
  /\ at' = [c \in Commands |-> IF c \in Gateway /\ at[c] # "new" THEN "done" ELSE at[c]]
  /\ logger' = "idle"
  /\ UNCHANGED <<cmd, got, answer>>

------------------------------------------------------------------------------
GatewayCommand(c) ==
  \/ \E k \in Kinds : Begin(c, k)
  \/ DoWrite(c) \/ InsertRejected(c) \/ DoWriteFails(c) \/ DoCommit(c) \/ Respond(c)

CliCommand(c) ==
  \/ \E k \in Kinds : CliLooks(c, k)
  \/ CliWrites(c) \/ CliRejected(c) \/ CliLockedOut(c) \/ CliCommits(c)

Next ==
  \/ \E c \in Commands : GatewayCommand(c) \/ CliCommand(c)
  \/ LoggerWrites \/ LoggerCommits \/ LoggerFails
  \/ Crash

Spec == Init /\ [][Next]_vars

------------------------------------------------------------------------------
(* Properties *)

Databases ==
  [users : SUBSET [name : Names, by : Commands], keys : SUBSET Commands,
   on : BOOLEAN, limits : Rows]

\* The type of every variable.
TypeOK ==
  /\ ConnectionConsistent
  /\ disk \in Databases
  /\ view \in Databases
  /\ cmd \in [Commands -> Kinds \cup {NoCommand}]
  /\ at \in [Commands -> {"new", "write", "commit", "reread", "done"}]
  /\ got \in [Commands -> Rows]
  /\ answer \in [Commands -> {"none", "ok", "conflict", "error"}]
  /\ logger \in {"idle", "commit"}

\* A user or a key whose creation was confirmed is on disk and survives, with
\* whatever other coroutines and processes do, and wherever the gateway dies.
ConfirmedIsDurable ==
  \A c \in Commands : answer[c] = "ok" =>
    /\ cmd[c].op = "user" => [name |-> cmd[c].name, by |-> c] \in disk.users
    /\ cmd[c].op = "key" => c \in disk.keys

\* Of the commands that race to create a user name, in the gateway and in the
\* CLI, at most one creates it.
OneCreator ==
  \A u, v \in disk.users \cup view.users : u.name = v.name => u = v

\* A disabled key is enabled again only by an enable command that is writing:
\* no command that read the key before it was disabled brings it back.
EnabledOnlyByEnable ==
  [][disk'.on /\ ~disk.on =>
       \E c \in Commands : at[c] = "commit" /\ cmd[c].op = "enable"]_vars

\* Nobody is writing for the gateway.
NobodyWrites == logger = "idle" /\ \A c \in Gateway : at[c] # "commit"

\* The gateway keeps the write lock while nobody is writing, and so locks the
\* CLI out, only after an insertion that was rejected.
LockKeptOnlyByRejection ==
  lock = "gateway" /\ NobodyWrites =>
    \E c \in Gateway : cmd[c].op = "user" /\ answer[c] = "conflict"

\* A limit of the file changes by a command whose write this commit brings, and
\* which names the limit or writes back what it read (key_service.py 100-105)
\* where another command's write, which it had not read, already was in the file.
KeptLimitLostOnlyInRace ==
  [][disk'.limits.rpm # disk.limits.rpm =>
       \E c \in disk'.limits.by \ disk.limits.by :
         \/ cmd[c].patch.rpm # "keep"
         \/ /\ got[c].rpm = disk'.limits.rpm
            /\ \E d \in disk.limits.by : d \notin got[c].by]_vars
==============================================================================
