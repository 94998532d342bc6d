------------------------------- MODULE Startup -------------------------------
(****************************************************************************)
(* Processes that start on one database file: the gateway (cli.py _serve,   *)
(* the lifespan of app.py), which systemd starts again when it fails, and   *)
(* commands (cli.py _run_cli), possibly of two releases with different      *)
(* schema versions.  Each loads its configuration, creates what tables are  *)
(* missing, and writes or checks the schema version (db/database.py); the   *)
(* gateway then sows its row of the table backends.                         *)
(*                                                                          *)
(* executescript and every SELECT are in autocommit mode; an INSERT opens a *)
(* transaction and takes the file's write lock, which COMMIT or the end of  *)
(* the process gives back.                                                  *)
(****************************************************************************)
EXTENDS Naturals

CONSTANTS
  Gateways,    \* processes of the gateway
  Commands,    \* processes of the command line
  VersionOf,   \* SCHEMA_VERSION of the release each process runs
  Tables,      \* how many tables schema.sql creates, settings last
  MaxDeaths    \* bound: how often processes die, or a lock outlasts 5 s

Processes == Gateways \cup Commands
Versions == { VersionOf[p] : p \in Processes }

\* The holder of a lock that is free.
NoOne == "no one"

ASSUME StartupAssumption ==
  /\ Gateways \cap Commands = {}
  /\ NoOne \notin Processes
  /\ VersionOf \in [Processes -> Nat \ {0}]
  /\ Tables \in Nat \ {0}
  /\ MaxDeaths \in Nat

VARIABLES
  conf,      \* config.toml and the environment, as the next start finds them
  tables,    \* how many of the tables exist
  version,   \* settings.schema_version on disk; 0: no row
  backend,   \* id of the row 'local-llamacpp' of backends; 0: no row
  lock,      \* who has the write lock, or NoOne
  at,        \* where each process is
  slots,     \* what each process has loaded as the number of slots
  known,     \* backend_id of each gateway; 0: None
  alone,     \* no other process was about during the start
  deaths     \* counts to MaxDeaths

fileVars == <<tables, version, backend, lock>>
vars == <<conf, tables, version, backend, lock, at, slots, known, alone, deaths>>

\* "missing": no file at the place the process looks; "invalid": not TOML, an
\* unknown field, or a number in the environment that is none; "negative": a
\* number of slots that UpstreamSlots refuses.
Configurations == {"missing", "invalid", "negative", "valid"}

Starting == {"create", "look", "insert", "commit", "seed", "seeded", "identify"}
Refusals == {"unconfigured", "mismatch", "collision", "locked", "badslots"}
Places == {"off", "died", "up", "working", "writing"} \cup Starting \cup Refusals
Ended == {"off", "died"} \cup Refusals

\* Past Database.connect.
Connected == {"seed", "seeded", "identify", "up", "working", "writing"}

Busy(p) == at[p] \notin Ended

\* The file is new, was left half-made by a process that died, or is in use.
Init ==
  /\ conf \in Configurations
  /\ \/ tables \in 0..Tables /\ version = 0 /\ backend = 0
     \/ tables = Tables /\ version \in Versions /\ backend \in {0, 1}
  /\ lock = NoOne
  /\ at = [p \in Processes |-> "off"]
  /\ slots = [p \in Processes |-> "valid"]
  /\ known = [p \in Processes |-> 0]
  /\ alone = [p \in Processes |-> TRUE]
  /\ deaths = 0

Goes(p, l) == at' = [at EXCEPT ![p] = l]

------------------------------------------------------------------------------
(* load_config and Database.connect *)

\* load_config: one place is looked at (--config, else EMG_CONFIG, else
\* configs/config.toml), and nothing else is touched before it is read.
Load(p) ==
  /\ at[p] \in Ended
  /\ \/ /\ conf \in {"missing", "invalid"}
        /\ Goes(p, "unconfigured")
        /\ UNCHANGED <<slots, alone>>
     \/ /\ conf \in {"negative", "valid"}
        /\ Goes(p, "create")
        /\ slots' = [slots EXCEPT ![p] = conf]
        /\ alone' = [q \in Processes |->
             IF q = p THEN \A r \in Processes \ {p} : ~Busy(r) ELSE alone[q] /\ ~Busy(q)]
  /\ known' = [known EXCEPT ![p] = 0]
  /\ UNCHANGED <<conf, fileVars, deaths>>

\* executescript: CREATE TABLE IF NOT EXISTS, each a transaction of its own.
\* What exists already is passed over.
CreateTable(p) ==
  /\ at[p] = "create"
  /\ \/ tables < Tables /\ tables' = tables + 1 /\ UNCHANGED at
     \/ tables = Tables /\ Goes(p, "look") /\ UNCHANGED tables
  /\ UNCHANGED <<conf, version, backend, lock, slots, known, alone, deaths>>

AfterConnect(p) == IF p \in Gateways THEN "seed" ELSE "working"

\* SELECT schema_version; a version that is not the release's own is refused.
CheckVersion(p) ==
  /\ at[p] = "look"
  /\ Goes(p, IF version = 0 THEN "insert"
             ELSE IF version = VersionOf[p] THEN AfterConnect(p) ELSE "mismatch")
  /\ UNCHANGED <<conf, fileVars, slots, known, alone, deaths>>

\* Mutant of InsertVersion: INSERT OR IGNORE.
InsertVersionOrIgnore(p) ==
  /\ at[p] = "insert"
  /\ lock = NoOne
  /\ \/ version = 0 /\ lock' = p /\ Goes(p, "commit")
     \/ version # 0 /\ Goes(p, AfterConnect(p)) /\ UNCHANGED lock
  /\ UNCHANGED <<conf, tables, version, backend, slots, known, alone, deaths>>

\* INSERT INTO settings; the key is the table's primary key, so of two processes
\* that saw no version one raises, and ends.
InsertVersion(p) ==
  /\ at[p] = "insert"
  /\ lock = NoOne
  /\ \/ version = 0 /\ lock' = p /\ Goes(p, "commit")
     \/ version # 0 /\ Goes(p, "collision") /\ UNCHANGED lock
  /\ UNCHANGED <<conf, tables, version, backend, slots, known, alone, deaths>>

CommitVersion(p) ==
  /\ at[p] = "commit"
  /\ version' = VersionOf[p]
  /\ lock' = NoOne
  /\ Goes(p, AfterConnect(p))
  /\ UNCHANGED <<conf, tables, backend, slots, known, alone, deaths>>

------------------------------------------------------------------------------
(* The gateway's lifespan *)

\* Mutant of Seed: INSERT, which a second start cannot repeat.
SeedPlain(p) ==
  /\ at[p] = "seed"
  /\ lock = NoOne
  /\ \/ backend = 0 /\ lock' = p /\ Goes(p, "seeded")
     \/ backend # 0 /\ Goes(p, "collision") /\ UNCHANGED lock
  /\ UNCHANGED <<conf, tables, version, backend, slots, known, alone, deaths>>

\* INSERT OR IGNORE INTO backends: takes the lock, whether there is a row or not.
Seed(p) ==
  /\ at[p] = "seed"
  /\ lock = NoOne
  /\ lock' = p
  /\ Goes(p, "seeded")
  /\ UNCHANGED <<conf, tables, version, backend, slots, known, alone, deaths>>

CommitSeed(p) ==
  /\ at[p] = "seeded"
  /\ backend' = IF backend = 0 THEN 1 ELSE backend
  /\ lock' = NoOne
  /\ Goes(p, "identify")
  /\ UNCHANGED <<conf, tables, version, slots, known, alone, deaths>>

\* SELECT id FROM backends, and what the lifespan builds from the configuration;
\* asyncio.Semaphore refuses a negative number of slots.
Identify(p) ==
  /\ at[p] = "identify"
  /\ known' = [known EXCEPT ![p] = backend]
  /\ Goes(p, IF slots[p] = "negative" THEN "badslots" ELSE "up")
  /\ UNCHANGED <<conf, fileVars, slots, alone, deaths>>

\* A log task of the gateway, which writes and commits as a command does.
BeginLog(p) ==
  /\ at[p] = "up"
  /\ lock = NoOne
  /\ lock' = p
  /\ UNCHANGED <<conf, tables, version, backend, at, slots, known, alone, deaths>>

EndLog(p) ==
  /\ at[p] = "up"
  /\ lock = p
  /\ lock' = NoOne
  /\ UNCHANGED <<conf, tables, version, backend, at, slots, known, alone, deaths>>

\* The server is stopped; SIGTERM is no failure.
Stop(p) ==
  /\ at[p] = "up"
  /\ Goes(p, "off")
  /\ lock' = IF lock = p THEN NoOne ELSE lock
  /\ UNCHANGED <<conf, tables, version, backend, slots, known, alone, deaths>>

------------------------------------------------------------------------------
(* A command *)

\* It reads and ends, or writes.
Work(p) ==
  /\ at[p] = "working"
  /\ \/ Goes(p, "off") /\ UNCHANGED lock
     \/ lock = NoOne /\ lock' = p /\ Goes(p, "writing")
  /\ UNCHANGED <<conf, tables, version, backend, slots, known, alone, deaths>>

FinishCommand(p) ==
  /\ at[p] = "writing"
  /\ lock' = NoOne
  /\ Goes(p, "off")
  /\ UNCHANGED <<conf, tables, version, backend, slots, known, alone, deaths>>

------------------------------------------------------------------------------
(* What goes wrong *)

\* busy_timeout: the lock is somebody else's for 5 s.  The process ends.
LockedOut(p) ==
  /\ at[p] \in {"insert", "seed", "working"}
  /\ lock \notin {NoOne, p}
  /\ deaths < MaxDeaths
  /\ deaths' = deaths + 1
  /\ Goes(p, "locked")
  /\ UNCHANGED <<conf, fileVars, slots, known, alone>>

Die(p) ==
  /\ Busy(p)
  /\ deaths < MaxDeaths
  /\ deaths' = deaths + 1
  /\ Goes(p, "died")
  /\ lock' = IF lock = p THEN NoOne ELSE lock
  /\ UNCHANGED <<conf, tables, version, backend, slots, known, alone>>

\* The administrator writes a configuration.
Configure ==
  /\ conf' \in Configurations \ {conf}
  /\ UNCHANGED <<fileVars, at, slots, known, alone, deaths>>

------------------------------------------------------------------------------
\* systemd: Restart=on-failure.
Restart(p) == p \in Gateways /\ at[p] # "off" /\ Load(p)

Process(p) ==
  \/ CreateTable(p) \/ CheckVersion(p) \/ InsertVersion(p) \/ CommitVersion(p)
  \/ Seed(p) \/ CommitSeed(p) \/ Identify(p) \/ Work(p) \/ FinishCommand(p)

Next ==
  \/ \E p \in Processes :
       Load(p) \/ Process(p) \/ BeginLog(p) \/ EndLog(p) \/ Stop(p) \/ LockedOut(p) \/ Die(p)
  \/ Configure

Spec == Init /\ [][Next]_vars

\* Processes run on; whoever asks for the lock again and again gets it some
\* time; log tasks end; a gateway that failed is started again.
FairSpec ==
  /\ Spec
  /\ \A p \in Processes : SF_vars(Process(p)) /\ WF_vars(EndLog(p)) /\ WF_vars(Restart(p))

------------------------------------------------------------------------------
(* Properties *)

\* The type of every variable.
TypeOK ==
  /\ conf \in Configurations
  /\ tables \in 0..Tables
  /\ version \in Versions \cup {0}
  /\ backend \in {0, 1}
  /\ lock \in Processes \cup {NoOne}
  /\ at \in [Processes -> Places]
  /\ slots \in [Processes -> {"negative", "valid"}]
  /\ known \in [Processes -> {0, 1}]
  /\ alone \in [Processes -> BOOLEAN]
  /\ deaths \in 0..MaxDeaths

\* Whatever starts at the same time, of whichever release, and whatever a start
\* that died has left: who gets past connect works on a complete schema of its
\* own version, so no two releases ever work on one file; and the backend_id
\* that a gateway writes into its logs is that of the one row, however many
\* gateways have started since.
RunningAgree ==
  /\ \A p \in Processes :
       at[p] \in Connected => tables = Tables /\ version = VersionOf[p]
  /\ \A g \in Gateways : at[g] = "up" => backend # 0 /\ known[g] = backend

\* A start during which no other process was about is refused for its
\* configuration or for the version only: no death of an earlier start, at any
\* statement, leaves a file that the next start cannot use.
RefusedForCause ==
  \A p \in Processes :
    at[p] \in Refusals /\ alone[p] =>
      \/ at[p] = "unconfigured"
      \/ at[p] = "mismatch" /\ version # VersionOf[p]
      \/ at[p] = "badslots" /\ slots[p] = "negative"

\* Once the configuration is valid and left alone, a gateway that systemd looks
\* after comes up, however its starts have died, collided or been locked out,
\* unless the file is another release's.
GatewayComesUp ==
  \A g \in Gateways :
    <>[](conf = "valid") =>
      (at[g] # "off" ~> at[g] \in {"up", "off"} \/ version \notin {0, VersionOf[g]})
==============================================================================
