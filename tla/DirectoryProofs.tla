--------------------------- MODULE DirectoryProofs ----------------------------
(****************************************************************************)
(* Theorems of Directory, for any number of commands, names and limits.     *)
(* The inductive invariant says what a shared transaction may contain: while *)
(* it writes it only adds to the file, a stale snapshot only lacks rows; a  *)
(* command between its write and its answer finds its row in what the       *)
(* connection sees; and a key can only look enabled while the file says     *)
(* otherwise because of an enable command that has yet to commit.           *)
(****************************************************************************)
EXTENDS Directory, TLAPS

\* Rows are only ever added, and limits only ever set again.
Extends(new, old) ==
  /\ old.users \subseteq new.users
  /\ old.keys \subseteq new.keys
  /\ old.limits.by \subseteq new.limits.by

Snapshots ==
  /\ txn = "write" => Extends(view, disk)
  /\ txn = "stale" => Extends(disk, view)

UniqueIn(db) == \A u, v \in db.users : u.name = v.name => u = v

\* The row command c was given to create.
Made(c, db) ==
  /\ cmd[c].op = "user" => [name |-> cmd[c].name, by |-> c] \in db.users
  /\ cmd[c].op = "key" => c \in db.keys

\* Where command c is, and what that says.
ProgressOf(c) ==
  /\ c \in Gateway /\ at[c] = "commit" => Made(c, view)
  /\ at[c] = "reread" \/ answer[c] = "ok" => Made(c, disk)
  /\ at[c] \in {"write", "commit", "reread"} => cmd[c] \in Kinds
  /\ at[c] # "done" => answer[c] = "none"

Progress == \A c \in Commands : ProgressOf(c)

\* A CLI process that writes has the lock to itself, so what it looked for
\* before the write still holds.
CliPending ==
  \A c \in Cli : at[c] = "commit" =>
    /\ lock = "cli"
    /\ ~Violates(c, disk)
    /\ \A d \in Cli : at[d] = "commit" => d = c

EnablePending ==
  txn = "write" /\ view.on /\ ~disk.on =>
    \E c \in Gateway : at[c] = "commit" /\ cmd[c].op = "enable"

DirectoryInv ==
  /\ TypeOK
  /\ Snapshots
  /\ UniqueIn(disk)
  /\ UniqueIn(view)
  /\ Progress
  /\ CliPending
  /\ EnablePending

------------------------------------------------------------------------------
(* The connection *)

\* A write to a database that keeps every row keeps the connection consistent.
LEMMA WriteKeeps ==
  ASSUME ConnectionConsistent, Snapshots, disk \in Databases, view \in Databases,
         NEW db \in Databases, Extends(db, view), Write(db)
  PROVE  /\ ConnectionConsistent' /\ Snapshots' /\ view' = db /\ disk' = disk
         /\ txn' = "write"
  <1>1. txn \in {"none", "open", "read", "write"} /\ txn' = "write" /\ lock' = "gateway"
        /\ view' = db /\ disk' = disk
    BY DEF Write, ConnectionConsistent, TxnStates
  <1>2. ConnectionConsistent'
    BY <1>1 DEF ConnectionConsistent, TxnStates
  <1>3. Extends(view, disk)
    BY <1>1 DEF ConnectionConsistent, Snapshots, Extends
  <1>4. Extends(db, disk)
    BY <1>3 DEF Extends
  <1>5. Snapshots'
    BY <1>1, <1>4 DEF Snapshots, Extends
  <1> QED BY <1>1, <1>2, <1>5

\* A write that failed, and a SELECT, change no row.
LEMMA LooksKeep ==
  ASSUME ConnectionConsistent, Snapshots, WriteFails \/ Select \/ UNCHANGED dbVars
  PROVE  /\ ConnectionConsistent' /\ Snapshots' /\ view' = view /\ disk' = disk
         /\ txn' = "write" <=> txn = "write"
  BY DEF ConnectionConsistent, Snapshots, Extends, WriteFails, Select, dbVars, TxnStates

\* A commit, by whom it may be, adds what the connection had written.
LEMMA CommitKeeps ==
  ASSUME ConnectionConsistent, Snapshots, Commit
  PROVE  /\ ConnectionConsistent' /\ Snapshots' /\ view' = disk' /\ Extends(disk', disk)
         /\ Extends(disk', view) /\ txn' = "none"
         /\ disk' = IF txn = "write" THEN view ELSE disk
  BY DEF ConnectionConsistent, Snapshots, Extends, Commit, TxnStates

\* The end of the connection forgets what was not committed.
LEMMA RollbackKeeps ==
  ASSUME ConnectionConsistent, Snapshots, Rollback
  PROVE  /\ ConnectionConsistent' /\ Snapshots' /\ view' = disk /\ disk' = disk
         /\ txn' = "none"
  BY DEF ConnectionConsistent, Snapshots, Extends, Rollback, TxnStates

\* The CLI's commit adds rows while the gateway has written nothing.
LEMMA CliCommitKeeps ==
  ASSUME ConnectionConsistent, Snapshots, NEW db, Extends(db, disk), CliCommit(db)
  PROVE  /\ ConnectionConsistent' /\ Snapshots' /\ disk' = db
         /\ view' = db \/ view' = view
         /\ Extends(view', view) /\ txn # "write" /\ txn' # "write"
  <1>1. lock = "cli" /\ txn # "write" /\ disk' = db /\ lock' = "free"
        /\ txn' = (IF txn = "read" THEN "stale" ELSE txn)
        /\ view' = (IF txn \in {"none", "open"} THEN db ELSE view)
    BY DEF CliCommit, ConnectionConsistent
  <1>2. CASE txn \in {"none", "open"}
    BY <1>1, <1>2 DEF ConnectionConsistent, Snapshots, Extends, TxnStates
  <1>3. CASE txn = "read"
    BY <1>1, <1>3 DEF ConnectionConsistent, Snapshots, Extends, TxnStates
  <1>4. CASE txn = "stale"
    BY <1>1, <1>4 DEF ConnectionConsistent, Snapshots, Extends, TxnStates
  <1> QED BY <1>1, <1>2, <1>3, <1>4 DEF ConnectionConsistent, TxnStates

------------------------------------------------------------------------------
(* Commands *)

\* What a command writes: rows are kept, its own is there, names stay unique
\* if it violates nothing, only an enable command enables, and only a limits
\* command sets limits.
LEMMA ApplyKeeps ==
  ASSUME TypeOK, NEW c \in Commands, cmd[c] \in Kinds, NEW db \in Databases
  PROVE  /\ Apply(c, db) \in Databases
         /\ Extends(Apply(c, db), db)
         /\ Made(c, Apply(c, db))
         /\ UniqueIn(db) /\ ~Violates(c, db) => UniqueIn(Apply(c, db))
         /\ Apply(c, db).on /\ ~db.on => cmd[c].op = "enable"
         /\ Apply(c, db).limits =
              IF cmd[c].op = "limits" THEN SetLimits(c, db.limits.by) ELSE db.limits
  <1>0. db = [users |-> db.users, keys |-> db.keys, on |-> db.on, limits |-> db.limits]
        /\ db.users \subseteq [name : Names, by : Commands] /\ db.keys \subseteq Commands
        /\ db.on \in BOOLEAN /\ db.limits \in Rows
    BY DEF Databases
  <1>1. CASE cmd[c].op = "user"
    <2>1. cmd[c].name \in Names
      BY <1>1 DEF Kinds
    <2>2. Apply(c, db) = [db EXCEPT !.users = @ \cup {[name |-> cmd[c].name, by |-> c]}]
      BY <1>1 DEF Apply
    <2>3. Apply(c, db) \in Databases
      BY <1>0, <2>1, <2>2 DEF Databases
    <2>4. Apply(c, db).users = db.users \cup {[name |-> cmd[c].name, by |-> c]}
          /\ Apply(c, db).keys = db.keys /\ Apply(c, db).on = db.on
          /\ Apply(c, db).limits = db.limits
      BY <1>0, <2>2 DEF Databases
    <2>5. ~Violates(c, db) => ~\E u \in db.users : u.name = cmd[c].name
      BY <1>1 DEF Violates, Taken
    <2>6. UniqueIn(db) /\ ~Violates(c, db) => UniqueIn(Apply(c, db))
      BY <2>4, <2>5 DEF UniqueIn
    <2> QED BY <1>1, <2>3, <2>4, <2>6 DEF Extends, Made
  <1>2. CASE cmd[c].op = "key"
    <2>1. Apply(c, db) = [db EXCEPT !.keys = @ \cup {c}]
      BY <1>2 DEF Apply
    <2>2. Apply(c, db) \in Databases
      BY <1>0, <2>1 DEF Databases
    <2>3. Apply(c, db).users = db.users /\ Apply(c, db).keys = db.keys \cup {c}
          /\ Apply(c, db).on = db.on /\ Apply(c, db).limits = db.limits
      BY <1>0, <2>1 DEF Databases
    <2> QED BY <1>2, <2>2, <2>3 DEF Extends, Made, UniqueIn
  <1>3. CASE cmd[c].op \in {"enable", "disable"}
    <2>1. Apply(c, db) = [db EXCEPT !.on = (cmd[c].op = "enable")]
      BY <1>3 DEF Apply
    <2>2. Apply(c, db) \in Databases
      BY <1>0, <2>1 DEF Databases
    <2>3. Apply(c, db).users = db.users /\ Apply(c, db).keys = db.keys
          /\ Apply(c, db).on = (cmd[c].op = "enable") /\ Apply(c, db).limits = db.limits
      BY <1>0, <2>1 DEF Databases
    <2> QED BY <1>3, <2>2, <2>3 DEF Extends, Made, UniqueIn
  <1>4. CASE cmd[c].op = "limits"
    <2>1. cmd[c].patch \in Patches
      BY <1>4 DEF Kinds
    <2>2. SetLimits(c, db.limits.by) \in Rows /\ SetLimits(c, db.limits.by).by = db.limits.by \cup {c}
      <3>1. got[c] \in Rows
        BY DEF TypeOK
      <3>2. /\ cmd[c].patch.rpm \in Settings \cup {"keep"}
            /\ cmd[c].patch.tok \in Settings \cup {"keep"}
        BY <2>1 DEF Patches
      <3> QED BY <1>0, <3>1, <3>2 DEF Rows, SetLimits, Merge
    <2>3. Apply(c, db) = [db EXCEPT !.limits = SetLimits(c, db.limits.by)]
      BY <1>0, <1>4 DEF Apply
    <2>4. Apply(c, db) \in Databases
      BY <1>0, <2>2, <2>3 DEF Databases
    <2>5. Apply(c, db).users = db.users /\ Apply(c, db).keys = db.keys
          /\ Apply(c, db).on = db.on /\ Apply(c, db).limits = SetLimits(c, db.limits.by)
      BY <1>0, <2>3 DEF Databases
    <2> QED BY <1>4, <2>2, <2>4, <2>5 DEF Extends, Made, UniqueIn
  <1>5. cmd[c].op \in {"user", "key", "enable", "disable", "limits"}
    BY DEF Kinds
  <1> QED BY <1>1, <1>2, <1>3, <1>4, <1>5
------------------------------------------------------------------------------
(* Frames *)

\* A command that does not move keeps its place while no row is lost.
LEMMA OthersKeep ==
  ASSUME NEW d \in Commands, ProgressOf(d), at'[d] = at[d], cmd'[d] = cmd[d],
         answer'[d] = answer[d], Extends(disk', disk), Extends(view', view)
  PROVE  ProgressOf(d)'
  BY DEF ProgressOf, Made, Extends

\* A command that is looking, waiting or answering without having written.
LEMMA QuietStep ==
  ASSUME DirectoryInv, NEW c \in Commands,
         WriteFails \/ Select \/ UNCHANGED dbVars,
         NEW l \in {"write", "done"}, at' = [at EXCEPT ![c] = l],
         NEW a \in {"none", "ok", "conflict", "error"}, answer' = [answer EXCEPT ![c] = a],
         NEW k \in Kinds, cmd' = [cmd EXCEPT ![c] = k],
         got' \in [Commands -> Rows],
         logger' = logger, at[c] # "commit", at[c] # "new" => k = cmd[c],
         a = "ok" => at[c] = "reread", l # "done" => a = "none"
  PROVE  DirectoryInv'
  <1>1. TypeOK /\ ConnectionConsistent /\ Snapshots /\ Progress
    BY DEF DirectoryInv, TypeOK
  <1>2. /\ ConnectionConsistent' /\ Snapshots' /\ view' = view /\ disk' = disk
        /\ txn' = "write" <=> txn = "write"
    BY <1>1, LooksKeep
  <1>2a. lock' = lock
    BY DEF WriteFails, Select, dbVars
  <1>3. TypeOK'
    BY <1>1, <1>2 DEF TypeOK
  <1>4. Extends(disk', disk) /\ Extends(view', view)
    BY <1>2 DEF Extends
  <1>5. at'[c] = l /\ answer'[c] = a /\ cmd'[c] = k
    BY <1>1 DEF TypeOK
  <1>6. \A d \in Commands \ {c} : at'[d] = at[d] /\ answer'[d] = answer[d] /\ cmd'[d] = cmd[d]
    BY <1>1 DEF TypeOK
  <1>7. ProgressOf(c)'
    BY <1>1, <1>2, <1>5 DEF Progress, ProgressOf, Made
  <1>8. \A d \in Commands \ {c} : ProgressOf(d)'
    BY <1>1, <1>4, <1>6, OthersKeep DEF Progress
  <1>9. CliPending'
    <2>1. \A d \in Cli : at'[d] = "commit" => d # c
      BY <1>5
    <2>2. \A d \in Cli : at'[d] = "commit" => at[d] = "commit" /\ cmd'[d] = cmd[d]
      BY <2>1, <1>6 DEF Commands
    <2> QED BY <1>2, <1>2a, <2>2 DEF CliPending, DirectoryInv, Violates, Taken
  <1>10. EnablePending'
    BY <1>2, <1>5, <1>6 DEF EnablePending, DirectoryInv, Commands
  <1> QED BY <1>2, <1>3, <1>7, <1>8, <1>9, <1>10 DEF DirectoryInv, UniqueIn, Progress
------------------------------------------------------------------------------
(* Steps *)

\* The look-up before a write.
LEMMA LooksKeepsInv ==
  ASSUME DirectoryInv, NEW c \in Commands, NEW k \in Kinds, NEW db \in Databases,
         Looks(c, k, db), Select \/ UNCHANGED dbVars, logger' = logger
  PROVE  DirectoryInv'
  <1>1. TypeOK /\ at[c] = "new" /\ cmd' = [cmd EXCEPT ![c] = k]
    BY DEF DirectoryInv, Looks
  <1>2. answer[c] = "none"
    BY <1>1 DEF DirectoryInv, Progress, ProgressOf
  <1>3. got' \in [Commands -> Rows]
    BY <1>1 DEF Looks, TypeOK, Databases
  <1>4. CASE Answers(c, "conflict")
    BY <1>1, <1>3, <1>4, QuietStep DEF Answers
  <1>5. CASE Goes(c, "write") /\ UNCHANGED answer
    <2>1. answer' = [answer EXCEPT ![c] = "none"]
      BY <1>1, <1>2, <1>5 DEF TypeOK
    <2> QED BY <1>1, <1>3, <1>5, <2>1, QuietStep DEF Goes
  <1> QED BY <1>4, <1>5 DEF Looks

\* A command is answered without having written: rejected, failed or reread.
LEMMA AnswerKeepsInv ==
  ASSUME DirectoryInv, NEW c \in Commands, at[c] \in {"write", "reread"},
         WriteFails \/ Select \/ UNCHANGED dbVars,
         NEW a \in {"ok", "conflict", "error"}, Answers(c, a), a = "ok" => at[c] = "reread",
         UNCHANGED <<cmd, got, logger>>
  PROVE  DirectoryInv'
  <1>1. TypeOK /\ cmd[c] \in Kinds
    BY DEF DirectoryInv, Progress, ProgressOf
  <1>2. cmd' = [cmd EXCEPT ![c] = cmd[c]] /\ got' \in [Commands -> Rows]
    BY <1>1 DEF TypeOK
  <1> QED BY <1>1, <1>2, QuietStep DEF Answers

\* A dashboard command writes.
LEMMA DoWriteKeepsInv ==
  ASSUME DirectoryInv, NEW c \in Commands, DoWrite(c)
  PROVE  DirectoryInv'
  <1>1. /\ TypeOK /\ ConnectionConsistent /\ Snapshots /\ Progress
        /\ disk \in Databases /\ view \in Databases /\ UniqueIn(view)
    BY DEF DirectoryInv, TypeOK
  <1>2. /\ c \in Gateway /\ at[c] = "write" /\ ~Violates(c, view)
        /\ Write(Apply(c, view)) /\ at' = [at EXCEPT ![c] = "commit"]
        /\ UNCHANGED <<cmd, got, answer, logger>>
    BY DEF DoWrite, Goes
  <1>3. cmd[c] \in Kinds /\ answer[c] = "none"
    BY <1>1, <1>2 DEF Progress, ProgressOf
  <1>4. /\ Apply(c, view) \in Databases /\ Extends(Apply(c, view), view)
        /\ Made(c, Apply(c, view)) /\ UniqueIn(Apply(c, view))
        /\ Apply(c, view).on /\ ~view.on => cmd[c].op = "enable"
    BY <1>1, <1>2, <1>3, ApplyKeeps
  <1>5. /\ ConnectionConsistent' /\ Snapshots' /\ view' = Apply(c, view) /\ disk' = disk
        /\ txn' = "write"
    BY <1>1, <1>2, <1>4, WriteKeeps
  <1>6. TypeOK'
    BY <1>1, <1>2, <1>4, <1>5 DEF TypeOK
  <1>7. at'[c] = "commit" /\ \A d \in Commands \ {c} : at'[d] = at[d]
    BY <1>1, <1>2 DEF TypeOK
  <1>8. ProgressOf(c)'
    BY <1>2, <1>3, <1>4, <1>5, <1>7 DEF ProgressOf, Made
  <1>9. Extends(disk', disk) /\ Extends(view', view)
    BY <1>4, <1>5 DEF Extends
  <1>10. \A d \in Commands \ {c} : ProgressOf(d)'
    BY <1>1, <1>2, <1>7, <1>9, OthersKeep DEF Progress
  <1>11. CliPending'
    <2>1. lock # "cli"
      BY <1>2 DEF Write
    <2>2. c \notin Cli
      BY <1>2, DirectoryAssumption
    <2> QED BY <1>7, <2>1, <2>2 DEF CliPending, DirectoryInv, Commands
  <1>12. EnablePending'
    <2> SUFFICES ASSUME view'.on, ~disk'.on
                 PROVE  \E d \in Gateway : at'[d] = "commit" /\ cmd'[d].op = "enable"
      BY DEF EnablePending
    <2>1. CASE ~view.on
      BY <1>2, <1>4, <1>5, <1>7, <2>1
    <2>2. CASE view.on
      <3>1. txn = "write"
        BY <1>1, <1>2, <1>5, <2>2 DEF ConnectionConsistent, Write, TxnStates
      <3>2. PICK d \in Gateway : at[d] = "commit" /\ cmd[d].op = "enable"
        BY <1>5, <2>2, <3>1 DEF DirectoryInv, EnablePending
      <3> QED BY <1>2, <1>7, <3>2 DEF Commands
    <2> QED BY <2>1, <2>2
  <1> QED BY <1>4, <1>5, <1>6, <1>8, <1>10, <1>11, <1>12 DEF DirectoryInv, UniqueIn, Progress

\* Statements of the gateway that write to no row of the directory.
LEMMA IdleWriteKeepsInv ==
  ASSUME DirectoryInv, Write(view), TypeOK',
         \A c \in Commands : at'[c] = at[c] \/ (at[c] = "write" /\ at'[c] = "done"),
         \A c \in Commands : answer'[c] = answer[c] \/ (at'[c] = "done" /\ answer'[c] = "conflict"),
         UNCHANGED <<cmd, got>>
  PROVE  DirectoryInv'
  <1>1. /\ TypeOK /\ ConnectionConsistent /\ Snapshots /\ Progress
        /\ disk \in Databases /\ view \in Databases /\ Extends(view, view)
    BY DEF DirectoryInv, TypeOK, Extends
  <1>2. /\ Snapshots' /\ view' = view /\ disk' = disk /\ txn' = "write" /\ lock # "cli"
        /\ txn # "stale"
    BY <1>1, WriteKeeps DEF Write
  <1>3. Progress'
    BY <1>1, <1>2 DEF Progress, ProgressOf, Made
  <1>4. CliPending'
    <2>1. \A c \in Cli : at'[c] # "commit"
      BY <1>2 DEF DirectoryInv, CliPending, Commands
    <2> QED BY <2>1 DEF CliPending
  <1>5. EnablePending'
    <2> SUFFICES ASSUME view.on, ~disk.on
                 PROVE  \E d \in Gateway : at'[d] = "commit" /\ cmd'[d].op = "enable"
      BY <1>2 DEF EnablePending
    <2>1. txn = "write"
      BY <1>1, <1>2 DEF ConnectionConsistent, TxnStates
    <2>2. PICK d \in Gateway : at[d] = "commit" /\ cmd[d].op = "enable"
      BY <2>1 DEF DirectoryInv, EnablePending
    <2> QED BY <2>2 DEF Commands
  <1> QED BY <1>2, <1>3, <1>4, <1>5 DEF DirectoryInv, UniqueIn

\* A commit of the gateway, by a command or by a log task.
LEMMA CommitKeepsInv ==
  ASSUME DirectoryInv, Commit, TypeOK',
         \A c \in Commands : at'[c] = at[c] \/ (c \in Gateway /\ at[c] = "commit" /\ at'[c] = "reread"),
         UNCHANGED <<cmd, got, answer>>
  PROVE  DirectoryInv'
  <1>1. TypeOK /\ ConnectionConsistent /\ Snapshots /\ Progress
    BY DEF DirectoryInv, TypeOK
  <1>2. /\ Snapshots' /\ view' = disk' /\ Extends(disk', disk) /\ Extends(disk', view)
        /\ txn' = "none" /\ disk' = IF txn = "write" THEN view ELSE disk
    BY <1>1, CommitKeeps
  <1>3. Progress'
    <2> SUFFICES ASSUME NEW c \in Commands PROVE ProgressOf(c)'
      BY DEF Progress
    <2>1. ProgressOf(c)
      BY <1>1 DEF Progress
    <2>2. CASE at'[c] = at[c]
      <3>1. Extends(view', view)
        BY <1>2
      <3> QED BY <1>2, <2>1, <2>2, <3>1, OthersKeep
    <2>3. CASE c \in Gateway /\ at[c] = "commit" /\ at'[c] = "reread"
      BY <1>2, <2>1, <2>3 DEF ProgressOf, Made, Extends
    <2> QED BY <2>2, <2>3
  <1>4. CliPending'
    <2>1. \A c \in Cli : at'[c] = "commit" => at[c] = "commit"
      BY DEF Commands
    <2>2. lock = "cli" => txn # "write" /\ lock' = "cli"
      BY <1>1 DEF ConnectionConsistent, Commit
    <2> QED BY <1>2, <2>1, <2>2 DEF DirectoryInv, CliPending, Violates, Taken
  <1>5. EnablePending'
    BY <1>2 DEF EnablePending
  <1>6. UniqueIn(disk)' /\ UniqueIn(view)'
    BY <1>2 DEF DirectoryInv, UniqueIn
  <1> QED BY <1>2, <1>3, <1>4, <1>5, <1>6 DEF DirectoryInv

\* A CLI command takes the write lock.
LEMMA CliWritesKeepsInv ==
  ASSUME DirectoryInv, NEW c \in Commands, CliWrites(c)
  PROVE  DirectoryInv'
  <1>1. TypeOK /\ ConnectionConsistent /\ Snapshots /\ Progress
    BY DEF DirectoryInv, TypeOK
  <1>2. /\ c \in Cli /\ at[c] = "write" /\ ~Violates(c, disk) /\ at' = [at EXCEPT ![c] = "commit"]
        /\ lock = "free" /\ lock' = "cli" /\ UNCHANGED <<disk, view, txn>>
        /\ UNCHANGED <<cmd, got, answer, logger>>
    BY DEF CliWrites, CliBegin, Goes
  <1>3. at'[c] = "commit" /\ \A d \in Commands \ {c} : at'[d] = at[d]
    BY <1>1, <1>2 DEF TypeOK
  <1>4. TypeOK'
    BY <1>1, <1>2 DEF TypeOK, ConnectionConsistent
  <1>5. Progress'
    <2>1. c \notin Gateway
      BY <1>2, DirectoryAssumption
    <2> QED BY <1>1, <1>2, <1>3, <2>1 DEF Progress, ProgressOf, Made
  <1>6. CliPending'
    <2>1. \A d \in Cli : at'[d] = "commit" => d = c
      BY <1>2, <1>3 DEF DirectoryInv, CliPending, Commands
    <2> QED BY <1>2, <2>1 DEF CliPending, Violates, Taken
  <1>7. EnablePending'
    BY <1>1, <1>2 DEF EnablePending, ConnectionConsistent
  <1> QED BY <1>2, <1>4, <1>5, <1>6, <1>7 DEF DirectoryInv, Snapshots, Extends, UniqueIn

\* A CLI command commits and is done.
LEMMA CliCommitsKeepsInv ==
  ASSUME DirectoryInv, NEW c \in Commands, CliCommits(c)
  PROVE  DirectoryInv'
  <1>1. /\ TypeOK /\ ConnectionConsistent /\ Snapshots /\ Progress
        /\ disk \in Databases /\ view \in Databases /\ UniqueIn(disk) /\ UniqueIn(view)
    BY DEF DirectoryInv, TypeOK
  <1>2. /\ c \in Cli /\ at[c] = "commit" /\ CliCommit(Apply(c, disk))
        /\ at' = [at EXCEPT ![c] = "done"] /\ answer' = [answer EXCEPT ![c] = "ok"]
        /\ UNCHANGED <<cmd, got, logger>>
    BY DEF CliCommits, Answers
  <1>3. cmd[c] \in Kinds /\ ~Violates(c, disk)
    BY <1>1, <1>2 DEF Progress, ProgressOf, DirectoryInv, CliPending
  <1>4. /\ Apply(c, disk) \in Databases /\ Extends(Apply(c, disk), disk)
        /\ Made(c, Apply(c, disk)) /\ UniqueIn(Apply(c, disk))
    BY <1>1, <1>3, ApplyKeeps
  <1>5. /\ ConnectionConsistent' /\ Snapshots' /\ disk' = Apply(c, disk)
        /\ view' = Apply(c, disk) \/ view' = view
        /\ Extends(view', view) /\ txn' # "write"
    BY <1>1, <1>2, <1>4, CliCommitKeeps
  <1>6. TypeOK'
    BY <1>1, <1>2, <1>4, <1>5 DEF TypeOK
  <1>7. /\ at'[c] = "done" /\ answer'[c] = "ok"
        /\ \A d \in Commands \ {c} : at'[d] = at[d] /\ answer'[d] = answer[d]
    BY <1>1, <1>2 DEF TypeOK
  <1>8. ProgressOf(c)'
    BY <1>2, <1>4, <1>5, <1>7 DEF ProgressOf, Made
  <1>9. Extends(disk', disk)
    BY <1>4, <1>5
  <1>10. \A d \in Commands \ {c} : ProgressOf(d)'
    BY <1>1, <1>2, <1>5, <1>7, <1>9, OthersKeep DEF Progress
  <1>11. CliPending'
    <2>1. \A d \in Cli : at'[d] # "commit"
      BY <1>2, <1>7 DEF DirectoryInv, CliPending, Commands
    <2> QED BY <2>1 DEF CliPending
  <1>12. EnablePending'
    BY <1>5 DEF EnablePending
  <1>13. UniqueIn(disk)' /\ UniqueIn(view)'
    BY <1>1, <1>4, <1>5 DEF UniqueIn
  <1> QED BY <1>5, <1>6, <1>8, <1>10, <1>11, <1>12, <1>13 DEF DirectoryInv, Progress

\* The gateway dies.
LEMMA CrashKeepsInv ==
  ASSUME DirectoryInv, Crash
  PROVE  DirectoryInv'
  <1>1. /\ TypeOK /\ ConnectionConsistent /\ Snapshots /\ Progress
        /\ disk \in Databases
    BY DEF DirectoryInv, TypeOK
  <1>2. /\ at' = [c \in Commands |-> IF c \in Gateway /\ at[c] # "new" THEN "done" ELSE at[c]]
        /\ logger' = "idle" /\ UNCHANGED <<cmd, got, answer>>
    BY DEF Crash
  <1>3. /\ ConnectionConsistent' /\ Snapshots' /\ view' = disk /\ disk' = disk /\ txn' = "none"
    BY <1>1, RollbackKeeps DEF Crash
  <1>4. TypeOK'
    BY <1>1, <1>2, <1>3 DEF TypeOK
  <1>5. Progress'
    BY <1>1, <1>2, <1>3 DEF Progress, ProgressOf, Made
  <1>6. CliPending'
    <2>1. \A c \in Cli : at'[c] = at[c]
      BY <1>2, DirectoryAssumption DEF Commands
    <2>2. lock = "cli" => lock' = "cli"
      BY DEF Crash, Rollback
    <2> QED BY <1>2, <1>3, <2>1, <2>2 DEF DirectoryInv, CliPending, Violates, Taken
  <1> QED BY <1>3, <1>4, <1>5, <1>6 DEF DirectoryInv, EnablePending, UniqueIn

\* The log tasks.
LEMMA LoggerKeepsInv ==
  ASSUME DirectoryInv, LoggerWrites \/ LoggerCommits \/ LoggerFails
  PROVE  DirectoryInv'
  <1>1. /\ TypeOK /\ ConnectionConsistent /\ Snapshots /\ Progress
        /\ disk \in Databases /\ view \in Databases /\ Extends(view, view)
    BY DEF DirectoryInv, TypeOK, Extends
  <1>2. UNCHANGED <<cmd, at, got, answer>> /\ logger' \in {"idle", "commit"}
    BY <1>1 DEF LoggerWrites, LoggerCommits, LoggerFails, commandVars, TypeOK
  <1>3. CASE LoggerWrites
    <2>1. TypeOK'
      BY <1>1, <1>2, <1>3, WriteKeeps DEF LoggerWrites, TypeOK
    <2> QED BY <1>2, <1>3, <2>1, IdleWriteKeepsInv DEF LoggerWrites
  <1>4. CASE LoggerCommits
    <2>1. TypeOK'
      BY <1>1, <1>2, <1>4, CommitKeeps DEF LoggerCommits, TypeOK
    <2> QED BY <1>2, <1>4, <2>1, CommitKeepsInv DEF LoggerCommits
  <1>5. CASE LoggerFails
    <2>1. /\ ConnectionConsistent' /\ Snapshots' /\ view' = view /\ disk' = disk
          /\ txn' = "write" <=> txn = "write"
      BY <1>1, <1>5, LooksKeep DEF LoggerFails
    <2>2. lock' = lock
      BY <1>5 DEF LoggerFails, WriteFails
    <2>3. TypeOK'
      BY <1>1, <1>2, <2>1 DEF TypeOK
    <2>4. Progress'
      BY <1>1, <1>2, <2>1 DEF Progress, ProgressOf, Made
    <2>5. CliPending'
      BY <1>2, <2>1, <2>2 DEF DirectoryInv, CliPending, Violates, Taken
    <2>6. EnablePending'
      BY <1>2, <2>1 DEF DirectoryInv, EnablePending
    <2> QED BY <2>1, <2>3, <2>4, <2>5, <2>6 DEF DirectoryInv, UniqueIn
  <1> QED BY <1>3, <1>4, <1>5

\* Every step of a dashboard command.
LEMMA GatewayKeepsInv ==
  ASSUME DirectoryInv, NEW c \in Commands, GatewayCommand(c)
  PROVE  DirectoryInv'
  <1>1. /\ TypeOK /\ ConnectionConsistent /\ Snapshots /\ Progress
        /\ disk \in Databases /\ view \in Databases /\ Extends(view, view)
    BY DEF DirectoryInv, TypeOK, Extends
  <1>2. ASSUME NEW k \in Kinds, Begin(c, k) PROVE DirectoryInv'
    BY <1>1, <1>2, LooksKeepsInv DEF Begin
  <1>3. CASE DoWrite(c)
    BY <1>3, DoWriteKeepsInv
  <1>4. CASE InsertRejected(c)
    <2>1. /\ at[c] = "write" /\ Write(view) /\ at' = [at EXCEPT ![c] = "done"]
          /\ answer' = [answer EXCEPT ![c] = "conflict"] /\ UNCHANGED <<cmd, got, logger>>
      BY <1>4 DEF InsertRejected, Answers
    <2>2. TypeOK'
      BY <1>1, <2>1, WriteKeeps DEF TypeOK
    <2>3. \A d \in Commands : at'[d] = at[d] \/ (at[d] = "write" /\ at'[d] = "done")
      BY <1>1, <2>1 DEF TypeOK
    <2>4. \A d \in Commands : answer'[d] = answer[d] \/ (at'[d] = "done" /\ answer'[d] = "conflict")
      BY <1>1, <2>1 DEF TypeOK
    <2> QED BY <2>1, <2>2, <2>3, <2>4, IdleWriteKeepsInv
  <1>5. CASE DoWriteFails(c)
    BY <1>5, AnswerKeepsInv DEF DoWriteFails
  <1>6. CASE DoCommit(c)
    <2>1. /\ c \in Gateway /\ at[c] = "commit" /\ Commit /\ at' = [at EXCEPT ![c] = "reread"]
          /\ UNCHANGED <<cmd, got, answer, logger>>
      BY <1>6 DEF DoCommit, Goes
    <2>2. TypeOK'
      BY <1>1, <2>1, CommitKeeps DEF TypeOK
    <2>3. \A d \in Commands : at'[d] = at[d] \/ (d \in Gateway /\ at[d] = "commit" /\ at'[d] = "reread")
      BY <1>1, <2>1 DEF TypeOK
    <2> QED BY <2>1, <2>2, <2>3, CommitKeepsInv
  <1>7. CASE Respond(c)
    BY <1>7, AnswerKeepsInv DEF Respond
  <1> QED BY <1>2, <1>3, <1>4, <1>5, <1>6, <1>7 DEF GatewayCommand

\* Every step of a CLI command.
LEMMA CliKeepsInv ==
  ASSUME DirectoryInv, NEW c \in Commands, CliCommand(c)
  PROVE  DirectoryInv'
  <1>1. disk \in Databases
    BY DEF DirectoryInv, TypeOK
  <1>2. ASSUME NEW k \in Kinds, CliLooks(c, k) PROVE DirectoryInv'
    BY <1>1, <1>2, LooksKeepsInv DEF CliLooks
  <1>3. CASE CliWrites(c)
    BY <1>3, CliWritesKeepsInv
  <1>4. CASE CliRejected(c)
    BY <1>4, AnswerKeepsInv DEF CliRejected
  <1>5. CASE CliLockedOut(c)
    BY <1>5, AnswerKeepsInv DEF CliLockedOut
  <1>6. CASE CliCommits(c)
    BY <1>6, CliCommitsKeepsInv
  <1> QED BY <1>2, <1>3, <1>4, <1>5, <1>6 DEF CliCommand

\* The invariant holds at first.
LEMMA InitHasInv == Init => DirectoryInv
  <1> SUFFICES ASSUME Init PROVE DirectoryInv
    OBVIOUS
  <1>1. Unlimited \in Rows /\ EmptyDb \in Databases
    BY DEF Unlimited, Settings, Rows, EmptyDb, Databases
  <1>2. /\ disk = EmptyDb /\ view = EmptyDb /\ txn = "none" /\ lock = "free"
        /\ EmptyDb.users = {} /\ EmptyDb.on
    BY DEF Init, DbInit, EmptyDb
  <1>3. TypeOK
    BY <1>1, <1>2 DEF TypeOK, Init, ConnectionConsistent, TxnStates
  <1> QED BY <1>2, <1>3 DEF Init, DirectoryInv, Snapshots, UniqueIn, Progress, ProgressOf,
                            CliPending, EnablePending, Commands

\* The invariant is kept by every step.
LEMMA NextKeepsInv == DirectoryInv /\ [Next]_vars => DirectoryInv'
  <1> SUFFICES ASSUME DirectoryInv, [Next]_vars PROVE DirectoryInv'
    OBVIOUS
  <1>1. ASSUME NEW c \in Commands, GatewayCommand(c) PROVE DirectoryInv'
    BY <1>1, GatewayKeepsInv
  <1>2. ASSUME NEW c \in Commands, CliCommand(c) PROVE DirectoryInv'
    BY <1>2, CliKeepsInv
  <1>3. CASE LoggerWrites \/ LoggerCommits \/ LoggerFails
    BY <1>3, LoggerKeepsInv
  <1>4. CASE Crash
    BY <1>4, CrashKeepsInv
  <1>5. CASE UNCHANGED vars
    BY <1>5 DEF vars, dbVars, commandVars, DirectoryInv, TypeOK, ConnectionConsistent, Snapshots,
                Extends, UniqueIn, Progress, ProgressOf, Made, CliPending, Violates, Taken,
                EnablePending
  <1> QED BY <1>1, <1>2, <1>3, <1>4, <1>5 DEF Next

------------------------------------------------------------------------------
(* The write lock *)

\* Command c left the transaction of a rejected insertion open.
LeftOpen(c) == cmd[c].op = "user" /\ answer[c] = "conflict"

\* Whoever made the gateway take the lock has yet to commit, or was rejected.
LockInv ==
  lock = "gateway" =>
    \/ logger = "commit"
    \/ \E c \in Gateway : at[c] = "commit" \/ LeftOpen(c)

\* A step of a command that neither writes nor commits leaves the reason for
\* which the lock is taken.
LEMMA LockStays ==
  ASSUME DirectoryInv, LockInv, NEW c \in Commands, at[c] \notin {"commit", "done"},
         NEW l, at' = [at EXCEPT ![c] = l],
         NEW k, cmd' = [cmd EXCEPT ![c] = k], NEW a, answer' = [answer EXCEPT ![c] = a],
         lock' = "gateway" => lock = "gateway", logger' = logger
  PROVE  LockInv'
  <1>1. /\ at \in [Commands -> {"new", "write", "commit", "reread", "done"}]
        /\ cmd \in [Commands -> Kinds \cup {NoCommand}]
        /\ answer \in [Commands -> {"none", "ok", "conflict", "error"}]
    BY DEF DirectoryInv, TypeOK
  <1>2. answer[c] = "none"
    BY DEF DirectoryInv, Progress, ProgressOf
  <1>3. \A d \in Commands \ {c} : at'[d] = at[d] /\ cmd'[d] = cmd[d] /\ answer'[d] = answer[d]
    BY <1>1
  <1>4. \A d \in Gateway : at[d] = "commit" \/ LeftOpen(d) => d \in Commands \ {c}
    BY <1>2 DEF LeftOpen, Commands
  <1> QED BY <1>3, <1>4 DEF LockInv, LeftOpen

\* Every step gives a reason for the lock that the gateway holds after it.
LEMMA NextKeepsLock ==
  ASSUME DirectoryInv, LockInv, [Next]_vars
  PROVE  LockInv'
  <1>1. /\ at \in [Commands -> {"new", "write", "commit", "reread", "done"}]
        /\ cmd \in [Commands -> Kinds \cup {NoCommand}]
        /\ answer \in [Commands -> {"none", "ok", "conflict", "error"}]
        /\ ConnectionConsistent /\ Progress
    BY DEF DirectoryInv, TypeOK
  <1>2. CASE Commit \/ Rollback
    BY <1>2 DEF Commit, Rollback, LockInv
  <1>3. ASSUME NEW c \in Commands, NEW k \in Kinds, NEW db, Looks(c, k, db),
               Select \/ UNCHANGED dbVars, logger' = logger
        PROVE  LockInv'
    <2>1. /\ at[c] = "new" /\ lock' = lock /\ cmd' = [cmd EXCEPT ![c] = k]
          /\ answer = [answer EXCEPT ![c] = answer[c]]
      BY <1>1, <1>3 DEF Looks, Select, dbVars
    <2>2. CASE Answers(c, "conflict")
      BY <1>3, <2>1, <2>2, LockStays DEF Answers
    <2>3. CASE Goes(c, "write") /\ UNCHANGED answer
      BY <1>3, <2>1, <2>3, LockStays DEF Goes
    <2> QED BY <1>3, <2>2, <2>3 DEF Looks
  <1>4. ASSUME NEW c \in Commands, at[c] \in {"write", "reread"}, NEW a, Answers(c, a),
               WriteFails \/ Select \/ UNCHANGED dbVars, UNCHANGED <<cmd, logger>>
        PROVE  LockInv'
    <2>1. lock' = lock /\ cmd' = [cmd EXCEPT ![c] = cmd[c]]
      BY <1>1, <1>4 DEF WriteFails, Select, dbVars
    <2> QED BY <1>4, <2>1, LockStays DEF Answers
  <1>5. ASSUME NEW c \in Gateway, DoWrite(c) PROVE LockInv'
    BY <1>1, <1>5 DEF DoWrite, Goes, LockInv, Commands
  <1>6. ASSUME NEW c \in Gateway, InsertRejected(c) PROVE LockInv'
    <2>1. /\ Violates(c, view) /\ answer' = [answer EXCEPT ![c] = "conflict"] /\ cmd' = cmd
      BY <1>6 DEF InsertRejected, Answers
    <2>2. LeftOpen(c)'
      BY <1>1, <2>1 DEF LeftOpen, Violates, Commands
    <2> QED BY <2>2 DEF LockInv
  <1>7. ASSUME NEW c \in Cli, CliWrites(c) \/ CliCommits(c) PROVE LockInv'
    BY <1>7 DEF CliWrites, CliBegin, CliCommits, CliCommit, LockInv
  <1>8. ASSUME NEW c \in Commands, GatewayCommand(c) PROVE LockInv'
    <2>1. ASSUME NEW k \in Kinds, Begin(c, k) PROVE LockInv'
      BY <1>3, <2>1 DEF Begin
    <2>2. CASE DoWriteFails(c)
      BY <1>4, <2>2 DEF DoWriteFails
    <2>3. CASE Respond(c)
      BY <1>4, <2>3 DEF Respond
    <2> QED BY <1>2, <1>5, <1>6, <1>8, <2>1, <2>2, <2>3
            DEF GatewayCommand, DoWrite, InsertRejected, DoCommit
  <1>9. ASSUME NEW c \in Commands, CliCommand(c) PROVE LockInv'
    <2>1. ASSUME NEW k \in Kinds, CliLooks(c, k) PROVE LockInv'
      BY <1>3, <2>1 DEF CliLooks
    <2>2. CASE CliRejected(c)
      BY <1>4, <2>2 DEF CliRejected
    <2>3. CASE CliLockedOut(c)
      BY <1>4, <2>3 DEF CliLockedOut
    <2> QED BY <1>7, <1>9, <2>1, <2>2, <2>3 DEF CliCommand, CliWrites, CliCommits
  <1>10. CASE LoggerWrites \/ LoggerCommits \/ LoggerFails
    BY <1>2, <1>10 DEF LoggerWrites, LoggerCommits, LoggerFails, WriteFails, commandVars, LockInv,
                       LeftOpen
  <1>11. CASE Crash
    BY <1>2, <1>11 DEF Crash
  <1>12. CASE UNCHANGED vars
    BY <1>12 DEF vars, dbVars, commandVars, LockInv, LeftOpen
  <1> QED BY <1>8, <1>9, <1>10, <1>11, <1>12 DEF Next

------------------------------------------------------------------------------
(* The limits of the key *)

\* Command c has set the limits, at least in the gateway's transaction.
HasSet(c) ==
  /\ cmd[c].op = "limits"
  /\ at[c] = "done" \/ (c \in Gateway /\ at[c] \in {"commit", "reread"})

\* Command c will write back the rpm_limit that it has read.
WritesBack(c) ==
  /\ cmd[c].op = "limits"
  /\ cmd[c].patch.rpm = "keep"
  /\ at[c] = "write" \/ (c \in Cli /\ at[c] = "commit")

\* No row holds a write of a command that has not written.
SettersHaveSet ==
  /\ \A c \in disk.limits.by \cup view.limits.by : HasSet(c)
  /\ \A d \in Commands : \A c \in got[d].by : HasSet(c)

\* Nothing was set in db that command c has not read.
ReadLast(c, db) == db.limits.by \subseteq got[c].by

\* Command c, which has yet to reach the file, accounts for the value there.
Accounts(c, value) ==
  /\ c \in view.limits.by \ disk.limits.by
  /\ \/ cmd[c].patch.rpm # "keep"
     \/ got[c].rpm = value /\ ~ReadLast(c, disk)

Accounted(value) == txn = "write" /\ \E c \in Commands : Accounts(c, value)

\* What the connection sees differs from the file for a reason.
DifferenceAccounted ==
  /\ txn = "write" /\ view.limits.rpm # disk.limits.rpm => Accounted(view.limits.rpm)
  /\ txn = "stale" /\ disk.limits.by \subseteq view.limits.by =>
       view.limits.rpm = disk.limits.rpm

\* What a command writes back is what is there, unless something was set that it
\* has not read; a command of the gateway may have read what is yet to commit.
WriteBackOf(c) ==
  /\ txn # "stale" /\ ReadLast(c, view) => got[c].rpm = view.limits.rpm
  /\ ReadLast(c, disk) =>
       got[c].rpm = disk.limits.rpm \/ (c \in Gateway /\ Accounted(got[c].rpm))

WriteBacks == \A c \in Commands : WritesBack(c) => WriteBackOf(c)

LimitsInv == SettersHaveSet /\ DifferenceAccounted /\ WriteBacks

\* A command that has set limits is not about to write back, and no row holds
\* the write of one that is.
LEMMA NotYetSet ==
  ASSUME SettersHaveSet, NEW c \in Commands, ~HasSet(c)
  PROVE  /\ c \notin disk.limits.by /\ c \notin view.limits.by
         /\ \A d \in Commands : c \notin got[d].by
  BY DEF SettersHaveSet

\* A step that leaves the limits alone.
LEMMA LimitsStay ==
  ASSUME DirectoryInv, LimitsInv, disk'.limits = disk.limits, view'.limits = view.limits,
         txn' # txn => txn \notin {"write", "stale"}, UNCHANGED <<cmd, got>>,
         \A c \in Commands : HasSet(c) => HasSet(c)',
         \A c \in Commands : WritesBack(c)' => WritesBack(c)
  PROVE  LimitsInv'
  <1>1. ConnectionConsistent /\ txn \in TxnStates
    BY DEF DirectoryInv, TypeOK, ConnectionConsistent
  <1>2. /\ disk \in Databases /\ view \in Databases /\ got \in [Commands -> Rows]
        /\ disk.limits.by \subseteq Commands /\ view.limits.by \subseteq Commands
        /\ \A d \in Commands : got[d].by \subseteq Commands
    BY DEF DirectoryInv, TypeOK, Databases, Rows
  <1>3. txn' # txn => view.limits = disk.limits
    BY <1>1 DEF ConnectionConsistent, TxnStates
  <1>4. \A value : Accounted(value) => Accounted(value)'
    BY DEF Accounted, Accounts, ReadLast
  <1>5. SettersHaveSet'
    BY <1>2 DEF LimitsInv, SettersHaveSet
  <1>6. DifferenceAccounted'
    BY <1>3, <1>4 DEF LimitsInv, DifferenceAccounted
  <1>7. ASSUME NEW c \in Commands, WritesBack(c)' PROVE WriteBackOf(c)'
    <2>1. WriteBackOf(c)
      BY <1>7 DEF LimitsInv, WriteBacks
    <2>2. txn' # txn => ~Accounted(got[c].rpm)
      BY DEF Accounted
    <2> QED BY <1>3, <1>4, <2>1, <2>2 DEF WriteBackOf, ReadLast
  <1> QED BY <1>5, <1>6, <1>7 DEF LimitsInv, WriteBacks

\* A command begins and reads the limits.
LEMMA LimitsLooks ==
  ASSUME DirectoryInv, LimitsInv, NEW c \in Commands, NEW k \in Kinds,
         Looks(c, k, IF c \in Gateway THEN view ELSE disk), Select \/ UNCHANGED dbVars
  PROVE  LimitsInv'
  <1>1. ConnectionConsistent /\ txn \in TxnStates
    BY DEF DirectoryInv, TypeOK, ConnectionConsistent
  <1>2. /\ disk \in Databases /\ view \in Databases /\ got \in [Commands -> Rows]
        /\ disk.limits.by \subseteq Commands /\ view.limits.by \subseteq Commands
        /\ \A d \in Commands : got[d].by \subseteq Commands
        /\ at \in [Commands -> {"new", "write", "commit", "reread", "done"}]
        /\ cmd \in [Commands -> Kinds \cup {NoCommand}]
    BY DEF DirectoryInv, TypeOK, Databases, Rows
  <1>3. /\ disk' = disk /\ view' = view /\ (txn' # txn => txn = "open" /\ txn' = "read")
    BY DEF Select, dbVars
  <1>4. /\ at[c] = "new" /\ cmd' = [cmd EXCEPT ![c] = k]
        /\ at' = [at EXCEPT ![c] = "write"] \/ at' = [at EXCEPT ![c] = "done"]
        /\ got' = [got EXCEPT ![c] = IF k.op # "limits" THEN got[c]
                                     ELSE IF c \in Gateway THEN view.limits ELSE disk.limits]
    BY <1>2 DEF Looks, Goes, Answers
  <1>5. \A d \in Commands \ {c} : at'[d] = at[d] /\ cmd'[d] = cmd[d] /\ got'[d] = got[d]
    BY <1>2, <1>4
  <1>6. ~HasSet(c)
    BY <1>4 DEF HasSet
  <1>7. \A d \in Commands : HasSet(d) => d # c /\ HasSet(d)'
    BY <1>5, <1>6 DEF HasSet
  <1>8. /\ got'[c].by \subseteq got[c].by \cup disk.limits.by \cup view.limits.by
        /\ k.op = "limits" => got'[c] = IF c \in Gateway THEN view.limits ELSE disk.limits
    BY <1>2, <1>4
  <1>9. SettersHaveSet'
    <2>1. \A d \in disk.limits.by \cup view.limits.by : HasSet(d)'
      BY <1>2, <1>7 DEF LimitsInv, SettersHaveSet
    <2>2. \A e \in Commands : \A d \in got'[e].by : HasSet(d)'
      BY <1>2, <1>5, <1>7, <1>8, <2>1 DEF LimitsInv, SettersHaveSet
    <2> QED BY <1>3, <2>1, <2>2 DEF SettersHaveSet
  <1>10. \A value : Accounted(value) => Accounted(value)'
    <2> SUFFICES ASSUME NEW value, Accounted(value) PROVE Accounted(value)'
      OBVIOUS
    <2>1. PICK d \in Commands : Accounts(d, value)
      BY DEF Accounted
    <2>2. d # c
      BY <1>6, <2>1, NotYetSet DEF Accounts, LimitsInv
    <2>3. Accounts(d, value)'
      BY <1>3, <1>5, <2>1, <2>2 DEF Accounts, ReadLast
    <2> QED BY <1>3, <2>3 DEF Accounted
  <1>11. DifferenceAccounted'
    BY <1>3, <1>10 DEF LimitsInv, DifferenceAccounted
  <1>12. ASSUME NEW d \in Commands, WritesBack(d)' PROVE WriteBackOf(d)'
    <2>1. CASE d # c
      <3>1. WriteBackOf(d)
        BY <1>5, <1>12, <2>1 DEF LimitsInv, WriteBacks, WritesBack
      <3> QED BY <1>3, <1>5, <1>10, <2>1, <3>1 DEF WriteBackOf, ReadLast
    <2>2. CASE d = c
      <3>1. k.op = "limits"
        BY <1>2, <1>4, <1>12, <2>2 DEF WritesBack
      <3>2. CASE c \in Gateway
        <4>1. got'[c] = view'.limits
          BY <1>3, <1>8, <3>1, <3>2
        <4>2. ReadLast(c, disk)' /\ view'.limits.rpm # disk'.limits.rpm => Accounted(got[c].rpm)'
          BY <1>1, <1>3, <1>11, <4>1
             DEF ReadLast, DifferenceAccounted, ConnectionConsistent, TxnStates
        <4> QED BY <2>2, <3>2, <4>1, <4>2 DEF WriteBackOf
      <3>3. CASE c \notin Gateway
        <4>1. got'[c] = disk'.limits
          BY <1>3, <1>8, <3>1, <3>3
        <4>2. txn' # "stale" /\ ReadLast(c, view)' => view'.limits.rpm = disk'.limits.rpm
          <5>1. txn = "write" /\ ReadLast(c, view)' => ~Accounted(view.limits.rpm)
            BY <1>3, <4>1 DEF ReadLast, Accounted, Accounts
          <5> QED BY <1>1, <1>3, <5>1
                  DEF LimitsInv, DifferenceAccounted, ConnectionConsistent, TxnStates
        <4> QED BY <2>2, <4>1, <4>2 DEF WriteBackOf
      <3> QED BY <3>2, <3>3
    <2> QED BY <2>1, <2>2
  <1> QED BY <1>9, <1>11, <1>12 DEF LimitsInv, WriteBacks

\* What the lemmas below need of the types.
LEMMA LimitsTypes ==
  ASSUME DirectoryInv
  PROVE  /\ ConnectionConsistent /\ txn \in TxnStates /\ Progress
         /\ disk \in Databases /\ view \in Databases /\ got \in [Commands -> Rows]
         /\ disk.limits \in Rows /\ view.limits \in Rows
         /\ disk.limits.by \subseteq Commands /\ view.limits.by \subseteq Commands
         /\ \A d \in Commands : got[d].by \subseteq Commands
         /\ at \in [Commands -> {"new", "write", "commit", "reread", "done"}]
  BY DEF DirectoryInv, TypeOK, ConnectionConsistent, Databases, Rows

\* A command of the gateway sets the limits in its transaction.
LEMMA LimitsWrite ==
  ASSUME DirectoryInv, LimitsInv, NEW c \in Commands, DoWrite(c), cmd[c].op = "limits"
  PROVE  LimitsInv'
  <1>1. /\ c \in Gateway /\ at[c] = "write" /\ Write(Apply(c, view))
        /\ at' = [at EXCEPT ![c] = "commit"] /\ UNCHANGED <<cmd, got>> /\ cmd[c] \in Kinds
    BY LimitsTypes DEF DoWrite, Goes, Progress, ProgressOf
  <1>2. /\ disk' = disk /\ txn' = "write" /\ txn # "stale"
        /\ view'.limits = SetLimits(c, view.limits.by)
    BY <1>1, LimitsTypes, ApplyKeeps DEF Write, DirectoryInv
  <1>3. /\ view'.limits.by = view.limits.by \cup {c}
        /\ view'.limits.rpm = Merge(cmd[c].patch.rpm, got[c].rpm)
    BY <1>2 DEF SetLimits
  <1>4. at'[c] = "commit" /\ \A d \in Commands \ {c} : at'[d] = at[d]
    BY <1>1, LimitsTypes
  <1>5. c \notin disk.limits.by /\ \A d \in Commands : c \notin got[d].by
    BY <1>1, NotYetSet, DirectoryAssumption DEF LimitsInv, HasSet
  <1>6. \A d \in Commands : HasSet(d) => HasSet(d)'
    BY <1>1, <1>4 DEF HasSet
  <1>7. SettersHaveSet'
    <2>1. HasSet(c)'
      BY <1>1, <1>4 DEF HasSet
    <2>2. \A d \in disk.limits.by \cup view.limits.by : HasSet(d)'
      BY <1>6, LimitsTypes DEF LimitsInv, SettersHaveSet
    <2>3. \A e \in Commands : \A d \in got[e].by : HasSet(d)'
      BY <1>6, LimitsTypes DEF LimitsInv, SettersHaveSet
    <2> QED BY <1>1, <1>2, <1>3, <2>1, <2>2, <2>3 DEF SettersHaveSet
  <1>8. \A value : Accounted(value) => Accounted(value)'
    BY <1>1, <1>2, <1>3 DEF Accounted, Accounts, ReadLast
  <1>9. DifferenceAccounted'
    <2> SUFFICES ASSUME view'.limits.rpm # disk.limits.rpm
                 PROVE  Accounted(view.limits.rpm)'
      BY <1>2 DEF DifferenceAccounted, Accounted
    <2>1. CASE cmd[c].patch.rpm # "keep" \/ ~ReadLast(c, disk)
      <3>1. cmd[c].patch.rpm = "keep" => view'.limits.rpm = got[c].rpm
        BY <1>3 DEF Merge
      <3>2. Accounts(c, view.limits.rpm)'
        BY <1>1, <1>2, <1>3, <1>5, <2>1, <3>1 DEF Accounts, ReadLast
      <3> QED BY <1>2, <3>2 DEF Accounted
    <2>2. CASE cmd[c].patch.rpm = "keep" /\ ReadLast(c, disk)
      <3>1. view'.limits.rpm = got[c].rpm
        BY <1>3, <2>2 DEF Merge
      <3>2. WriteBackOf(c)
        BY <1>1, <2>2 DEF LimitsInv, WriteBacks, WritesBack
      <3>3. Accounted(got[c].rpm)
        BY <2>2, <3>1, <3>2 DEF WriteBackOf
      <3> QED BY <1>8, <3>1, <3>3
    <2> QED BY <2>1, <2>2
  <1>10. ASSUME NEW d \in Commands, WritesBack(d)' PROVE WriteBackOf(d)'
    <2>1. d # c
      BY <1>1, <1>4, <1>10, DirectoryAssumption DEF WritesBack
    <2>2. WriteBackOf(d)
      BY <1>1, <1>4, <1>10, <2>1 DEF LimitsInv, WriteBacks, WritesBack
    <2>3. ~ReadLast(d, view)'
      BY <1>1, <1>3, <1>5 DEF ReadLast
    <2> QED BY <1>1, <1>2, <1>8, <2>2, <2>3 DEF WriteBackOf, ReadLast
  <1> QED BY <1>7, <1>9, <1>10 DEF LimitsInv, WriteBacks

\* A commit of the gateway: what the connection sees is what the file says.
LEMMA LimitsCommit ==
  ASSUME DirectoryInv, LimitsInv, Commit, UNCHANGED <<cmd, got>>,
         \A c \in Commands : HasSet(c) => HasSet(c)',
         \A c \in Commands : WritesBack(c)' => WritesBack(c)
  PROVE  LimitsInv'
  <1>1. /\ disk' = (IF txn = "write" THEN view ELSE disk) /\ view' = disk' /\ txn' = "none"
    BY DEF Commit
  <1>2. SettersHaveSet'
    BY <1>1, LimitsTypes DEF LimitsInv, SettersHaveSet
  <1>3. DifferenceAccounted'
    BY <1>1 DEF DifferenceAccounted
  <1>4. ASSUME NEW c \in Commands, WritesBack(c)' PROVE WriteBackOf(c)'
    <2>1. WriteBackOf(c)
      BY <1>4 DEF LimitsInv, WriteBacks
    <2>2. txn # "write" => ~Accounted(got[c].rpm)
      BY DEF Accounted
    <2>3. ReadLast(c, disk)' => got[c].rpm = disk'.limits.rpm
      BY <1>1, <2>1, <2>2 DEF WriteBackOf, ReadLast
    <2> QED BY <1>1, <2>3 DEF WriteBackOf, ReadLast
  <1> QED BY <1>2, <1>3, <1>4 DEF LimitsInv, WriteBacks

\* A command of the CLI sets the limits in the file.
LEMMA LimitsCliCommit ==
  ASSUME DirectoryInv, LimitsInv, NEW c \in Commands, CliCommits(c), cmd[c].op = "limits"
  PROVE  LimitsInv'
  <1>1. /\ c \in Cli /\ at[c] = "commit" /\ CliCommit(Apply(c, disk))
        /\ at' = [at EXCEPT ![c] = "done"] /\ UNCHANGED <<cmd, got>> /\ cmd[c] \in Kinds
    BY LimitsTypes DEF CliCommits, Answers, Progress, ProgressOf
  <1>2. /\ disk'.limits = SetLimits(c, disk.limits.by)
        /\ txn # "write" /\ txn' # "write"
        /\ txn' = "stale" => view' = view
        /\ txn' # "stale" => view' = disk'
        /\ view' = view \/ view' = disk'
    BY <1>1, LimitsTypes, ApplyKeeps DEF CliCommit, ConnectionConsistent, TxnStates, DirectoryInv
  <1>3. disk'.limits.by = disk.limits.by \cup {c}
    BY <1>2 DEF SetLimits
  <1>4. at'[c] = "done" /\ \A d \in Commands \ {c} : at'[d] = at[d]
    BY <1>1, LimitsTypes
  <1>5. c \notin view.limits.by /\ \A d \in Commands : c \notin got[d].by
    BY <1>1, NotYetSet, DirectoryAssumption DEF LimitsInv, HasSet
  <1>6. \A d \in Commands : HasSet(d) => HasSet(d)'
    BY <1>1, <1>4 DEF HasSet
  <1>7. SettersHaveSet'
    <2>1. HasSet(c)'
      BY <1>1, <1>4 DEF HasSet
    <2>2. \A d \in disk.limits.by \cup view.limits.by : HasSet(d)'
      BY <1>6, LimitsTypes DEF LimitsInv, SettersHaveSet
    <2>3. \A e \in Commands : \A d \in got[e].by : HasSet(d)'
      BY <1>6, LimitsTypes DEF LimitsInv, SettersHaveSet
    <2> QED BY <1>1, <1>2, <1>3, <2>1, <2>2, <2>3 DEF SettersHaveSet
  <1>8. DifferenceAccounted'
    BY <1>2, <1>3, <1>5 DEF DifferenceAccounted
  <1>9. ASSUME NEW d \in Commands PROVE WriteBackOf(d)'
    <2>1. ~ReadLast(d, disk)'
      BY <1>1, <1>3, <1>5 DEF ReadLast
    <2> QED BY <1>2, <2>1 DEF WriteBackOf, ReadLast
  <1> QED BY <1>7, <1>8, <1>9 DEF LimitsInv, WriteBacks

\* The gateway dies, and its commands with what they had read.
LEMMA LimitsCrash ==
  ASSUME DirectoryInv, LimitsInv, Crash
  PROVE  LimitsInv'
  <1>1. /\ disk' = disk /\ view' = disk /\ txn' = "none" /\ UNCHANGED <<cmd, got>>
        /\ at' = [c \in Commands |-> IF c \in Gateway /\ at[c] # "new" THEN "done" ELSE at[c]]
    BY DEF Crash, Rollback
  <1>2. \A c \in Commands : HasSet(c) => HasSet(c)'
    BY <1>1 DEF HasSet
  <1>3. SettersHaveSet'
    BY <1>1, <1>2, LimitsTypes DEF LimitsInv, SettersHaveSet
  <1>4. DifferenceAccounted'
    BY <1>1 DEF DifferenceAccounted
  <1>5. ASSUME NEW c \in Commands, WritesBack(c)' PROVE WriteBackOf(c)'
    <2>1. c \notin Gateway /\ WritesBack(c)
      BY <1>1, <1>5, DirectoryAssumption DEF WritesBack
    <2>2. ReadLast(c, disk) => got[c].rpm = disk.limits.rpm
      BY <2>1 DEF LimitsInv, WriteBacks, WriteBackOf
    <2> QED BY <1>1, <2>2 DEF WriteBackOf, ReadLast
  <1> QED BY <1>3, <1>4, <1>5 DEF LimitsInv, WriteBacks

\* Every step accounts for the limits it writes.
LEMMA NextKeepsLimits ==
  ASSUME DirectoryInv, LimitsInv, [Next]_vars
  PROVE  LimitsInv'
  <1>1. ASSUME NEW c \in Commands, at[c] \in {"write", "reread"}, NEW l \in {"commit", "done"},
               at' = [at EXCEPT ![c] = l],
               l = "done" \/ (at[c] = "write" /\ c \in Cli) \/ cmd[c].op # "limits",
               UNCHANGED <<cmd, got>>
        PROVE  /\ \A d \in Commands : HasSet(d) => HasSet(d)'
               /\ \A d \in Commands : WritesBack(d)' => WritesBack(d)
    BY <1>1, LimitsTypes DEF HasSet, WritesBack
  <1>2. ASSUME NEW c \in Commands, GatewayCommand(c) PROVE LimitsInv'
    <2>1. ASSUME NEW k \in Kinds, Begin(c, k) PROVE LimitsInv'
      BY <2>1, LimitsLooks DEF Begin
    <2>2. CASE DoWrite(c)
      <3>1. CASE cmd[c].op = "limits"
        BY <2>2, <3>1, LimitsWrite
      <3>2. CASE cmd[c].op # "limits"
        <4>1. cmd[c] \in Kinds /\ Write(Apply(c, view)) /\ UNCHANGED <<cmd, got>>
          BY <2>2, LimitsTypes DEF DoWrite, Progress, ProgressOf
        <4>2. /\ disk' = disk /\ view'.limits = view.limits
              /\ txn' # txn => txn \notin {"write", "stale"}
          BY <3>2, <4>1, LimitsTypes, ApplyKeeps DEF Write, DirectoryInv
        <4> QED BY <1>1, <2>2, <3>2, <4>1, <4>2, LimitsStay DEF DoWrite, Goes
      <3> QED BY <3>1, <3>2
    <2>3. CASE InsertRejected(c) \/ DoWriteFails(c) \/ Respond(c)
      <3>1. /\ disk' = disk /\ view' = view
            /\ txn' # txn => txn \notin {"write", "stale"}
            /\ UNCHANGED <<cmd, got>>
        BY <2>3, LimitsTypes DEF InsertRejected, DoWriteFails, Respond, Write, WriteFails, Select,
                                 TxnStates
      <3>2. at[c] \in {"write", "reread"} /\ at' = [at EXCEPT ![c] = "done"]
        BY <2>3 DEF InsertRejected, DoWriteFails, Respond, Answers
      <3> QED BY <1>1, <3>1, <3>2, LimitsStay
    <2>4. CASE DoCommit(c)
      <3>1. /\ c \in Gateway /\ at[c] = "commit" /\ at' = [at EXCEPT ![c] = "reread"]
            /\ Commit /\ UNCHANGED <<cmd, got>>
        BY <2>4 DEF DoCommit, Goes
      <3>2. /\ \A d \in Commands : HasSet(d) => HasSet(d)'
            /\ \A d \in Commands : WritesBack(d)' => WritesBack(d)
        BY <3>1, LimitsTypes DEF HasSet, WritesBack
      <3> QED BY <3>1, <3>2, LimitsCommit
    <2> QED BY <1>2, <2>1, <2>2, <2>3, <2>4 DEF GatewayCommand
  <1>3. ASSUME NEW c \in Commands, CliCommand(c) PROVE LimitsInv'
    <2>1. ASSUME NEW k \in Kinds, CliLooks(c, k) PROVE LimitsInv'
      <3>1. c \notin Gateway
        BY <2>1, DirectoryAssumption DEF CliLooks
      <3> QED BY <2>1, <3>1, LimitsLooks DEF CliLooks
    <2>2. CASE CliWrites(c) \/ CliRejected(c) \/ CliLockedOut(c)
      <3>1. disk' = disk /\ view' = view /\ txn' = txn /\ UNCHANGED <<cmd, got>>
        BY <2>2 DEF CliWrites, CliBegin, CliRejected, CliLockedOut, dbVars
      <3>2. /\ at[c] = "write" /\ c \in Cli
            /\ at' = [at EXCEPT ![c] = "commit"] \/ at' = [at EXCEPT ![c] = "done"]
        BY <2>2 DEF CliWrites, CliRejected, CliLockedOut, Goes, Answers
      <3> QED BY <1>1, <3>1, <3>2, LimitsStay
    <2>3. CASE CliCommits(c)
      <3>1. CASE cmd[c].op = "limits"
        BY <2>3, <3>1, LimitsCliCommit
      <3>2. CASE cmd[c].op # "limits"
        <4>1. /\ at[c] = "commit" /\ cmd[c] \in Kinds /\ CliCommit(Apply(c, disk))
              /\ at' = [at EXCEPT ![c] = "done"] /\ UNCHANGED <<cmd, got>>
          BY <2>3, LimitsTypes DEF CliCommits, Answers, Progress, ProgressOf
        <4>2. disk'.limits = disk.limits
          BY <3>2, <4>1, LimitsTypes, ApplyKeeps DEF CliCommit, DirectoryInv
        <4>3. view'.limits = view.limits /\ (txn' # txn => txn \notin {"write", "stale"})
          BY <4>1, <4>2, LimitsTypes DEF CliCommit, ConnectionConsistent, TxnStates
        <4>4. /\ \A d \in Commands : HasSet(d) => HasSet(d)'
              /\ \A d \in Commands : WritesBack(d)' => WritesBack(d)
          BY <3>2, <4>1, LimitsTypes DEF HasSet, WritesBack
        <4> QED BY <4>1, <4>2, <4>3, <4>4, LimitsStay
      <3> QED BY <3>1, <3>2
    <2> QED BY <1>3, <2>1, <2>2, <2>3 DEF CliCommand
  <1>4. CASE LoggerWrites \/ LoggerFails \/ UNCHANGED vars
    <2>1. /\ disk' = disk /\ view' = view
          /\ txn' # txn => txn \notin {"write", "stale"}
          /\ UNCHANGED <<cmd, at, got>>
      BY <1>4, LimitsTypes DEF LoggerWrites, LoggerFails, Write, WriteFails, vars, dbVars,
                               commandVars, TxnStates
    <2> QED BY <2>1, LimitsStay DEF HasSet, WritesBack
  <1>5. CASE LoggerCommits
    BY <1>5, LimitsCommit DEF LoggerCommits, commandVars, HasSet, WritesBack
  <1>6. CASE Crash
    BY <1>6, LimitsCrash
  <1> QED BY <1>2, <1>3, <1>4, <1>5, <1>6 DEF Next

\* What can change a limit of the file.
LEMMA LimitStep ==
  ASSUME DirectoryInv, LimitsInv, [Next]_vars, disk'.limits.rpm # disk.limits.rpm
  PROVE  \E c \in disk'.limits.by \ disk.limits.by :
           \/ cmd[c].patch.rpm # "keep"
           \/ got[c].rpm = disk'.limits.rpm /\ \E d \in disk.limits.by : d \notin got[c].by
  <1>1. CASE Commit
    <2>1. txn = "write" /\ disk' = view
      BY <1>1 DEF Commit
    <2>2. PICK c \in Commands : Accounts(c, view.limits.rpm)
      BY <2>1 DEF LimitsInv, DifferenceAccounted, Accounted
    <2> QED BY <2>1, <2>2 DEF Accounts, ReadLast
  <1>2. ASSUME NEW c \in Commands, CliCommits(c)
        PROVE  \E d \in disk'.limits.by \ disk.limits.by :
                 \/ cmd[d].patch.rpm # "keep"
                 \/ got[d].rpm = disk'.limits.rpm /\ \E e \in disk.limits.by : e \notin got[d].by
    <2>1. c \in Cli /\ at[c] = "commit" /\ cmd[c] \in Kinds /\ disk' = Apply(c, disk)
      BY <1>2, LimitsTypes DEF CliCommits, CliCommit, Progress, ProgressOf
    <2>2. cmd[c].op = "limits" /\ disk'.limits = SetLimits(c, disk.limits.by)
      BY <2>1, LimitsTypes, ApplyKeeps DEF DirectoryInv
    <2>3. c \in disk'.limits.by /\ disk'.limits.rpm = Merge(cmd[c].patch.rpm, got[c].rpm)
      BY <2>2 DEF SetLimits
    <2>4. c \notin disk.limits.by
      BY <2>1, NotYetSet, DirectoryAssumption DEF LimitsInv, HasSet
    <2>5. cmd[c].patch.rpm = "keep" => got[c].rpm = disk'.limits.rpm /\ ~ReadLast(c, disk)
      <3> SUFFICES ASSUME cmd[c].patch.rpm = "keep"
                   PROVE  got[c].rpm = disk'.limits.rpm /\ ~ReadLast(c, disk)
        OBVIOUS
      <3>1. got[c].rpm = disk'.limits.rpm
        BY <2>3 DEF Merge
      <3>2. WriteBackOf(c) /\ c \notin Gateway
        BY <2>1, <2>2, DirectoryAssumption DEF LimitsInv, WriteBacks, WritesBack
      <3> QED BY <3>1, <3>2 DEF WriteBackOf
    <2> QED BY <2>3, <2>4, <2>5 DEF ReadLast
  <1>3. ASSUME NEW c \in Commands, GatewayCommand(c)
        PROVE  Commit \/ disk' = disk
    BY <1>3 DEF GatewayCommand, Begin, DoWrite, InsertRejected, DoWriteFails, DoCommit, Respond,
                Select, Write, WriteFails, dbVars
  <1>4. ASSUME NEW c \in Commands, CliCommand(c)
        PROVE  CliCommits(c) \/ disk' = disk
    BY <1>4 DEF CliCommand, CliLooks, CliWrites, CliRejected, CliLockedOut, CliBegin, dbVars
  <1>5. LoggerWrites \/ LoggerCommits \/ LoggerFails => Commit \/ disk' = disk
    BY DEF LoggerWrites, LoggerCommits, LoggerFails, Write, WriteFails
  <1>6. Crash \/ UNCHANGED vars => disk' = disk
    BY DEF Crash, Rollback, vars, dbVars
  <1> QED BY <1>1, <1>2, <1>3, <1>4, <1>5, <1>6 DEF Next

------------------------------------------------------------------------------
(* Theorems *)

\* The invariant holds in every reachable state.
THEOREM DirectoryInvHolds == Spec => []DirectoryInv
  BY InitHasInv, NextKeepsInv, PTL DEF Spec

\* Every variable keeps its type.
THEOREM DirectoryTypeHolds == Spec => []TypeOK
  <1>1. DirectoryInv => TypeOK
    BY DEF DirectoryInv
  <1> QED BY <1>1, DirectoryInvHolds, PTL

\* A user name has one creator, however many commands of however many processes
\* race for it.
THEOREM OneCreatorHolds == Spec => []OneCreator
  <1>1. DirectoryInv => OneCreator
    <2> SUFFICES ASSUME DirectoryInv PROVE OneCreator
      OBVIOUS
    <2>1. ConnectionConsistent /\ Snapshots /\ UniqueIn(disk) /\ UniqueIn(view)
      BY DEF DirectoryInv, TypeOK
    <2>2. disk.users \subseteq view.users \/ view.users \subseteq disk.users
      BY <2>1 DEF ConnectionConsistent, TxnStates, Snapshots, Extends
    <2> QED BY <2>1, <2>2 DEF OneCreator, UniqueIn
  <1> QED BY <1>1, DirectoryInvHolds, PTL

\* What a command has confirmed to have created is on disk, and stays there.
THEOREM ConfirmedIsDurableHolds == Spec => []ConfirmedIsDurable
  <1>1. DirectoryInv => ConfirmedIsDurable
    BY DEF DirectoryInv, Progress, ProgressOf, Made, ConfirmedIsDurable
  <1> QED BY <1>1, DirectoryInvHolds, PTL

\* Only a commit turns the key on in the file.
LEMMA EnablingStep ==
  ASSUME DirectoryInv, [Next]_vars, disk'.on, ~disk.on
  PROVE  \E c \in Commands : at[c] = "commit" /\ cmd[c].op = "enable"
  <1>1. TypeOK /\ ConnectionConsistent /\ Snapshots /\ Progress /\ disk \in Databases
    BY DEF DirectoryInv, TypeOK
  <1>2. CASE Commit
    <2>1. txn = "write" /\ view.on
      BY <1>2 DEF Commit
    <2> QED BY <2>1 DEF DirectoryInv, EnablePending, Commands
  <1>3. ASSUME NEW c \in Commands, CliCommits(c)
        PROVE  at[c] = "commit" /\ cmd[c].op = "enable"
    <2>1. at[c] = "commit" /\ c \in Cli /\ disk' = Apply(c, disk)
      BY <1>3 DEF CliCommits, CliCommit
    <2>2. cmd[c] \in Kinds
      BY <1>1, <2>1 DEF Progress, ProgressOf
    <2> QED BY <1>1, <2>1, <2>2, ApplyKeeps
  <1>4. ASSUME NEW c \in Commands, GatewayCommand(c)
        PROVE  Commit \/ disk' = disk
    BY <1>4 DEF GatewayCommand, Begin, DoWrite, InsertRejected, DoWriteFails, DoCommit, Respond,
                Select, Write, WriteFails, dbVars
  <1>5. ASSUME NEW c \in Commands, CliCommand(c)
        PROVE  CliCommits(c) \/ disk' = disk
    BY <1>5 DEF CliCommand, CliLooks, CliWrites, CliRejected, CliLockedOut, CliBegin, dbVars
  <1>6. CASE LoggerWrites \/ LoggerCommits \/ LoggerFails
    BY <1>2, <1>6 DEF LoggerWrites, LoggerCommits, LoggerFails, Write, WriteFails
  <1>7. CASE Crash \/ UNCHANGED vars
    BY <1>7 DEF Crash, Rollback, vars, dbVars
  <1> QED BY <1>2, <1>3, <1>4, <1>5, <1>6, <1>7 DEF Next

\* A disabled key comes back only by the commit of a command that enables it.
THEOREM EnabledOnlyByEnableHolds == Spec => EnabledOnlyByEnable
  <1>1. DirectoryInv /\ [Next]_vars =>
          [disk'.on /\ ~disk.on =>
             \E c \in Commands : at[c] = "commit" /\ cmd[c].op = "enable"]_vars
    BY EnablingStep
  <1> QED BY <1>1, DirectoryInvHolds, PTL DEF Spec, EnabledOnlyByEnable
\* The gateway holds the write lock for a writer, or for an insertion that was
\* rejected: no other way out of a command leaves the transaction open.
THEOREM LockKeptOnlyByRejectionHolds == Spec => []LockKeptOnlyByRejection
  <1>1. Init => LockInv
    BY DEF Init, DbInit, LockInv
  <1>2. DirectoryInv /\ LockInv /\ [Next]_vars => LockInv'
    BY NextKeepsLock
  <1>3. LockInv => LockKeptOnlyByRejection
    BY DEF LockInv, LeftOpen, LockKeptOnlyByRejection, NobodyWrites
  <1> QED BY <1>1, <1>2, <1>3, DirectoryInvHolds, PTL DEF Spec

\* A limit that no command names is lost in one case only: a command writes back
\* what it had read, and another command's write was in the file unread.
THEOREM KeptLimitLostOnlyInRaceHolds == Spec => KeptLimitLostOnlyInRace
  <1>1. Init => LimitsInv
    <2> SUFFICES ASSUME Init PROVE LimitsInv
      OBVIOUS
    <2>1. /\ disk = EmptyDb /\ view = EmptyDb /\ txn = "none" /\ EmptyDb.limits.by = {}
          /\ at = [c \in Commands |-> "new"] /\ got = [c \in Commands |-> Unlimited]
          /\ Unlimited.by = {}
      BY DEF Init, DbInit, EmptyDb, Unlimited
    <2>2. SettersHaveSet /\ DifferenceAccounted
      BY <2>1 DEF SettersHaveSet, DifferenceAccounted
    <2>3. \A c \in Commands : ~WritesBack(c)
      BY <2>1 DEF WritesBack
    <2> QED BY <2>2, <2>3 DEF LimitsInv, WriteBacks
  <1>2. DirectoryInv /\ LimitsInv /\ [Next]_vars => LimitsInv'
    BY NextKeepsLimits
  <1>3. DirectoryInv /\ LimitsInv /\ [Next]_vars =>
          [disk'.limits.rpm # disk.limits.rpm =>
             \E c \in disk'.limits.by \ disk.limits.by :
               \/ cmd[c].patch.rpm # "keep"
               \/ /\ got[c].rpm = disk'.limits.rpm
                  /\ \E d \in disk.limits.by : d \notin got[c].by]_vars
    BY LimitStep
  <1> QED BY <1>1, <1>2, <1>3, DirectoryInvHolds, PTL DEF Spec, KeptLimitLostOnlyInRace
==============================================================================
