--------------------------- MODULE AccountingProofs ---------------------------
(****************************************************************************)
(* The books of a key are never wrong in the key owner's disfavour, and what *)
(* a log task has committed stays, for any number of requests, whatever the *)
(* interleaving on the shared connection, the CLI, shutdowns and crashes.   *)
(****************************************************************************)
EXTENDS Accounting, TLAPS

\* Off a write transaction the connection sees the rows and charges of the
\* file, were it on a stale snapshot; in one it sees more.
ViewCoversDisk ==
  /\ disk.rows \subseteq view.rows
  /\ disk.counted \subseteq view.counted
  /\ txn # "write" => view.rows = disk.rows /\ view.counted = disk.counted

\* In a write transaction the switches are those of the file: the CLI cannot
\* commit meanwhile.
SwitchesKept ==
  txn = "write" => view.keyOn = disk.keyOn /\ view.userOn = disk.userOn

\* How far a log task is, in terms of what the connection sees.
LogProgress ==
  \A r \in Requests :
    /\ stage[r] \in {"new", "keyread", "authed", "running"} => log[r] = "idle"
    /\ log[r] \in {"update", "commit"} => r \in view.rows
    /\ log[r] = "commit" /\ tokens[r] > 0 => r \in view.counted

\* The inductive invariant.
BooksInv ==
  /\ TypeOK
  /\ ChargedIsLogged
  /\ DoneIsDurable
  /\ ViewCoversDisk
  /\ SwitchesKept
  /\ LogProgress

\* The database starts empty.
LEMMA BooksStart == Init => BooksInv
  BY LongLocksAssumption, AccountingAssumption
  DEF Init, DbInit, EmptyDb, BooksInv, TypeOK, ConnectionConsistent, TxnStates, Databases,
      Phases, Stages, TaskStates, ChargedIsLogged, DoneIsDurable, ViewCoversDisk,
      SwitchesKept, LogProgress

------------------------------------------------------------------------------
(* The operations of the connection. *)

\* Reading, and failing to write, change neither the file nor the view.
LEMMA QuietConnection ==
  ASSUME BooksInv, Select \/ WriteFails \/ CliBegin \/ UNCHANGED dbVars
  PROVE  /\ disk' = disk /\ view' = view
         /\ txn' = "write" <=> txn = "write"
         /\ ConnectionConsistent' /\ ViewCoversDisk' /\ SwitchesKept'
  BY DEF BooksInv, TypeOK, ConnectionConsistent, TxnStates, ViewCoversDisk, SwitchesKept,
         Select, WriteFails, CliBegin, dbVars

\* A write that keeps the switches and only adds keeps the view ahead of the
\* file.
LEMMA WriteConnection ==
  ASSUME BooksInv, NEW db \in Databases, Write(db),
         view.rows \subseteq db.rows, view.counted \subseteq db.counted,
         db.keyOn = view.keyOn, db.userOn = view.userOn
  PROVE  /\ disk' = disk /\ view' = db
         /\ ConnectionConsistent' /\ ViewCoversDisk' /\ SwitchesKept'
  <1>1. txn \in {"none", "open", "read", "write"}
    BY DEF Write, BooksInv, TypeOK, ConnectionConsistent, TxnStates
  <1>2. view.keyOn = disk.keyOn /\ view.userOn = disk.userOn
    BY <1>1 DEF BooksInv, TypeOK, ConnectionConsistent, SwitchesKept
  <1>3. QED
    BY <1>2 DEF Write, BooksInv, TypeOK, ConnectionConsistent, TxnStates, ViewCoversDisk,
                SwitchesKept

\* A commit brings the file up to the view, or finds it there already.
LEMMA CommitConnection ==
  ASSUME BooksInv, Commit
  PROVE  /\ disk' \in Databases /\ view' = disk'
         /\ disk'.rows = view.rows /\ disk'.counted = view.counted
         /\ disk'.keyOn = disk.keyOn /\ disk'.userOn = disk.userOn
         /\ ConnectionConsistent' /\ ViewCoversDisk' /\ SwitchesKept'
  BY DEF Commit, BooksInv, TypeOK, ConnectionConsistent, TxnStates, ViewCoversDisk, SwitchesKept

\* A rollback takes the view back to the file.
LEMMA RollbackConnection ==
  ASSUME BooksInv, Rollback
  PROVE  /\ disk' = disk /\ view' = disk
         /\ ConnectionConsistent' /\ ViewCoversDisk' /\ SwitchesKept'
  BY DEF Rollback, BooksInv, TypeOK, ConnectionConsistent, TxnStates, ViewCoversDisk, SwitchesKept

------------------------------------------------------------------------------
(* One lemma per kind of step. *)

\* A step over an unchanged database that leaves the log tasks alone: reading,
\* a failing touch, the handlers before the limits, StopServing, Restart.
LEMMA QuietStep ==
  ASSUME BooksInv, Select \/ WriteFails \/ CliBegin \/ UNCHANGED dbVars,
         UNCHANGED <<log, tokens>>, TypeOK',
         \A r \in Requests :
           stage'[r] = stage[r]
           \/ stage[r] \in {"new", "keyread", "authed", "running"}
           \/ stage'[r] \in {"refused", "lost"}
  PROVE  BooksInv'
  <1>1. disk' = disk /\ view' = view /\ ViewCoversDisk' /\ SwitchesKept'
    BY QuietConnection
  <1>2. ChargedIsLogged' /\ DoneIsDurable'
    BY <1>1 DEF BooksInv, ChargedIsLogged, DoneIsDurable
  <1>3. LogProgress'
    BY <1>1 DEF BooksInv, LogProgress
  <1>4. QED
    BY <1>1, <1>2, <1>3 DEF BooksInv

\* require_auth.
LEMMA AuthKeepsBooks ==
  ASSUME BooksInv, NEW r \in Requests, AuthKey(r) \/ AuthUser(r)
  PROVE  BooksInv'
  <1> USE DEF AuthKey, AuthUser, Move
  <1>1. ConnectionConsistent' /\ disk' = disk /\ view' = view
    BY QuietConnection
  <1>2. TypeOK'
    BY <1>1 DEF BooksInv, TypeOK, Databases, Stages, TaskStates, Phases
  <1>3. QED
    BY <1>2, QuietStep DEF BooksInv, TypeOK

\* _enforce_limits, and finish(): a log task is spawned, nothing is written yet.
LEMMA SpawnKeepsBooks ==
  ASSUME BooksInv, NEW r \in Requests,
         EnforceLimits(r) \/ \E n \in TokenCounts : Finish(r, n)
  PROVE  BooksInv'
  <1> USE DEF EnforceLimits, Finish, Move
  <1>1. /\ UNCHANGED <<dbVars, phase, seen, touch, pending, barred>>
        /\ stage[r] \in {"authed", "running"} /\ log[r] = "idle"
        /\ stage' \in [Requests -> Stages] /\ tokens' \in [Requests -> TokenCounts \cup {0}]
        /\ \A q \in Requests \ {r} :
             log'[q] = log[q] /\ tokens'[q] = tokens[q] /\ stage'[q] = stage[q]
        /\ \/ log' = log /\ tokens' = tokens
           \/ /\ stage'[r] \in {"refused", "ended"}
              /\ log' = [log EXCEPT ![r] = "insert"]
    BY DEF BooksInv, TypeOK, LogProgress, Stages
  <1>2. ConnectionConsistent' /\ disk' = disk /\ view' = view /\ ViewCoversDisk' /\ SwitchesKept'
    BY <1>1, QuietConnection
  <1>3. TypeOK'
    BY <1>1, <1>2 DEF BooksInv, TypeOK, TaskStates
  <1>4. ChargedIsLogged'
    BY <1>2 DEF BooksInv, ChargedIsLogged
  <1>5. DoneIsDurable'
    BY <1>1, <1>2 DEF BooksInv, TypeOK, DoneIsDurable
  <1>6. LogProgress'
    BY <1>1, <1>2 DEF BooksInv, TypeOK, LogProgress
  <1>7. QED
    BY <1>2, <1>3, <1>4, <1>5, <1>6 DEF BooksInv

\* INSERT INTO request_logs
LEMMA LogInsertKeepsBooks ==
  ASSUME BooksInv, NEW r \in Requests, LogInsert(r)
  PROVE  BooksInv'
  <1> DEFINE db == [view EXCEPT !.rows = @ \cup {r}]
  <1>1. /\ db \in Databases /\ db.rows = view.rows \cup {r} /\ db.counted = view.counted
        /\ db.keyOn = view.keyOn /\ db.userOn = view.userOn
    BY DEF BooksInv, TypeOK, Databases
  <1>2. /\ disk' = disk /\ view' = db
        /\ ConnectionConsistent' /\ ViewCoversDisk' /\ SwitchesKept'
    <2>1. Write(db)
      BY DEF LogInsert
    <2> HIDE DEF db
    <2>2. QED
      BY <1>1, <2>1, WriteConnection
  <1> HIDE DEF db
  <1>3. /\ log[r] = "insert" /\ UNCHANGED <<phase, stage, seen, tokens, touch, pending, barred>>
        /\ log' = [log EXCEPT ![r] = IF tokens[r] > 0 THEN "update" ELSE "commit"]
    BY DEF LogInsert, LogGoes
  <1>4. TypeOK'
    BY <1>1, <1>2, <1>3 DEF BooksInv, TypeOK, TaskStates
  <1>5. ChargedIsLogged' /\ DoneIsDurable'
    BY <1>1, <1>2, <1>3 DEF BooksInv, TypeOK, ChargedIsLogged, DoneIsDurable
  <1>6. LogProgress'
    BY <1>1, <1>2, <1>3 DEF BooksInv, TypeOK, LogProgress
  <1>7. QED
    BY <1>2, <1>4, <1>5, <1>6 DEF BooksInv

\* UPDATE api_keys SET token_used = token_used + ?
LEMMA LogUpdateKeepsBooks ==
  ASSUME BooksInv, NEW r \in Requests, LogUpdate(r)
  PROVE  BooksInv'
  <1> DEFINE db == [view EXCEPT !.counted = @ \cup {r}]
  <1>1. /\ db \in Databases /\ db.rows = view.rows /\ db.counted = view.counted \cup {r}
        /\ db.keyOn = view.keyOn /\ db.userOn = view.userOn
    BY DEF BooksInv, TypeOK, Databases
  <1>2. /\ disk' = disk /\ view' = db
        /\ ConnectionConsistent' /\ ViewCoversDisk' /\ SwitchesKept'
    <2>1. Write(db)
      BY DEF LogUpdate
    <2> HIDE DEF db
    <2>2. QED
      BY <1>1, <2>1, WriteConnection
  <1> HIDE DEF db
  <1>3. /\ log[r] = "update" /\ UNCHANGED <<phase, stage, seen, tokens, touch, pending, barred>>
        /\ log' = [log EXCEPT ![r] = "commit"] /\ r \in view.rows
    BY DEF LogUpdate, LogGoes, BooksInv, LogProgress
  <1>4. TypeOK'
    BY <1>1, <1>2, <1>3 DEF BooksInv, TypeOK, TaskStates
  <1>5. ChargedIsLogged' /\ DoneIsDurable'
    BY <1>1, <1>2, <1>3 DEF BooksInv, TypeOK, ChargedIsLogged, DoneIsDurable
  <1>6. LogProgress'
    BY <1>1, <1>2, <1>3 DEF BooksInv, TypeOK, LogProgress
  <1>7. QED
    BY <1>2, <1>4, <1>5, <1>6 DEF BooksInv

\* The commit of a log task or of a touch_last_used task.
LEMMA CommitKeepsBooks ==
  ASSUME BooksInv, NEW r \in Requests, LogCommit(r) \/ TouchCommit(r)
  PROVE  BooksInv'
  <1>1. /\ Commit /\ UNCHANGED <<phase, stage, seen, tokens, pending, barred>>
        /\ log' \in [Requests -> TaskStates] /\ touch' \in [Requests -> TaskStates]
        /\ \A q \in Requests : log'[q] = log[q] \/ (log[q] = "commit" /\ log'[q] = "done")
    BY DEF LogCommit, TouchCommit, LogGoes, TouchGoes, BooksInv, TypeOK, TaskStates
  <1>2. /\ disk' \in Databases /\ view' = disk'
        /\ disk'.rows = view.rows /\ disk'.counted = view.counted
        /\ ConnectionConsistent' /\ ViewCoversDisk' /\ SwitchesKept'
    BY <1>1, CommitConnection
  <1>3. TypeOK'
    BY <1>1, <1>2 DEF BooksInv, TypeOK
  <1>4. ChargedIsLogged'
    BY <1>2 DEF BooksInv, ChargedIsLogged
  <1>5. DoneIsDurable' /\ LogProgress'
    BY <1>1, <1>2 DEF BooksInv, DoneIsDurable, LogProgress, ViewCoversDisk
  <1>6. QED
    BY <1>2, <1>3, <1>4, <1>5 DEF BooksInv

\* touch_last_used writes a column outside the model.
LEMMA TouchKeepsBooks ==
  ASSUME BooksInv, NEW r \in Requests, TouchUpdate(r)
  PROVE  BooksInv'
  <1>1. /\ Write(view) /\ UNCHANGED <<phase, stage, seen, tokens, log, pending, barred>>
        /\ touch' \in [Requests -> TaskStates]
    BY DEF TouchUpdate, TouchGoes, BooksInv, TypeOK, TaskStates
  <1>2. /\ disk' = disk /\ view' = view
        /\ ConnectionConsistent' /\ ViewCoversDisk' /\ SwitchesKept'
    BY <1>1, WriteConnection DEF BooksInv, TypeOK
  <1>3. QED
    BY <1>1, <1>2 DEF BooksInv, TypeOK, ChargedIsLogged, DoneIsDurable, LogProgress

\* A statement raises: its task ends, the books are as they were.
LEMMA FailureKeepsBooks ==
  ASSUME BooksInv, NEW r \in Requests, LogFails(r) \/ TouchFails(r)
  PROVE  BooksInv'
  <1>1. /\ WriteFails /\ UNCHANGED <<phase, stage, seen, tokens, pending, barred>>
        /\ log' \in [Requests -> TaskStates] /\ touch' \in [Requests -> TaskStates]
        /\ \A q \in Requests : log'[q] = log[q] \/ (log[q] # "idle" /\ log'[q] = "failed")
    BY DEF LogFails, TouchFails, LogGoes, TouchGoes, BooksInv, TypeOK, TaskStates
  <1>2. /\ disk' = disk /\ view' = view
        /\ ConnectionConsistent' /\ ViewCoversDisk' /\ SwitchesKept'
    BY <1>1, QuietConnection
  <1>3. TypeOK'
    BY <1>1, <1>2 DEF BooksInv, TypeOK
  <1>4. ChargedIsLogged' /\ DoneIsDurable' /\ LogProgress'
    BY <1>1, <1>2 DEF BooksInv, ChargedIsLogged, DoneIsDurable, LogProgress
  <1>5. QED
    BY <1>2, <1>3, <1>4 DEF BooksInv

\* The CLI commits a disabling: rows and charges are not its business, and the
\* view can only be on a write transaction if the lock is the gateway's.
LEMMA CliKeepsBooks ==
  ASSUME BooksInv, CliDisables
  PROVE  BooksInv'
  <1>1. PICK db \in Databases :
          /\ CliCommit(db) /\ db.rows = disk.rows /\ db.counted = disk.counted
          /\ db.keyOn => disk.keyOn
          /\ db.userOn => disk.userOn
    <2>1. disk \in Databases
      BY DEF BooksInv, TypeOK
    <2>2. /\ [disk EXCEPT !.keyOn = FALSE] \in Databases
          /\ [disk EXCEPT !.userOn = FALSE] \in Databases
      BY <2>1 DEF Databases
    <2>3. CASE disk.keyOn /\ CliCommit([disk EXCEPT !.keyOn = FALSE])
      BY <2>1, <2>2, <2>3 DEF Databases
    <2>4. CASE disk.userOn /\ CliCommit([disk EXCEPT !.userOn = FALSE])
      BY <2>1, <2>2, <2>4 DEF Databases
    <2>5. QED
      BY <2>3, <2>4 DEF CliDisables
  <1>2. UNCHANGED taskVars
    BY DEF CliDisables
  <1>3. /\ txn # "write" /\ lock = "cli" /\ txn' # "write"
        /\ view' \in Databases /\ view'.rows = view.rows /\ view'.counted = view.counted
        /\ disk' = db
    BY <1>1 DEF CliCommit, BooksInv, TypeOK, ConnectionConsistent, TxnStates, ViewCoversDisk
  <1>4. ConnectionConsistent'
    BY <1>1 DEF CliCommit, BooksInv, TypeOK, ConnectionConsistent, TxnStates
  <1>5. TypeOK'
    BY <1>1, <1>2, <1>3, <1>4 DEF taskVars, BooksInv, TypeOK
  <1>6. /\ ChargedIsLogged' /\ DoneIsDurable' /\ ViewCoversDisk' /\ SwitchesKept'
        /\ LogProgress'
    BY <1>1, <1>2, <1>3
    DEF taskVars, BooksInv, ChargedIsLogged, DoneIsDurable, ViewCoversDisk, SwitchesKept,
        LogProgress
  <1>7. QED
    BY <1>5, <1>6 DEF BooksInv

\* The connection is lost, by shutdown or by the death of the process: what was
\* not committed is gone, with the tasks that wanted it.
LEMMA LossKeepsBooks ==
  ASSUME BooksInv, CloseDatabase \/ Crash
  PROVE  BooksInv'
  <1>1. /\ Rollback /\ UNCHANGED <<seen, tokens, pending, barred>>
        /\ phase' \in Phases /\ stage' \in [Requests -> Stages]
        /\ log' = [r \in Requests |-> IF Busy(log[r]) THEN "failed" ELSE log[r]]
        /\ touch' = [r \in Requests |-> IF Busy(touch[r]) THEN "failed" ELSE touch[r]]
        /\ \A r \in Requests : stage'[r] = stage[r] \/ stage'[r] = "lost"
    BY DEF CloseDatabase, Crash, BooksInv, TypeOK, Phases, Stages
  <1>2. /\ disk' = disk /\ view' = disk
        /\ ConnectionConsistent' /\ ViewCoversDisk' /\ SwitchesKept'
    BY <1>1, RollbackConnection
  <1>3. /\ log' \in [Requests -> TaskStates] /\ touch' \in [Requests -> TaskStates]
        /\ \A r \in Requests :
             /\ log'[r] \in {"idle", "done", "failed"}
             /\ log'[r] \in {"idle", "done"} <=> log[r] \in {"idle", "done"}
             /\ log'[r] \in {"idle", "done"} => log'[r] = log[r]
    BY <1>1 DEF BooksInv, TypeOK, TaskStates, Busy
  <1>4. TypeOK'
    BY <1>1, <1>2, <1>3 DEF BooksInv, TypeOK
  <1>5. ChargedIsLogged' /\ DoneIsDurable' /\ LogProgress'
    BY <1>1, <1>2, <1>3 DEF BooksInv, ChargedIsLogged, DoneIsDurable, LogProgress
  <1>6. QED
    BY <1>2, <1>4, <1>5 DEF BooksInv

\* The steps that touch neither the database nor a log task.
LEMMA ProcessKeepsBooks ==
  ASSUME BooksInv, StopServing \/ Restart \/ CliStarts \/ AdminReads \/ UNCHANGED vars
  PROVE  BooksInv'
  <1>1. CASE StopServing
    <2>1. UNCHANGED <<dbVars, stage, seen, tokens, log, touch, barred>>
          /\ phase' \in Phases /\ pending' \subseteq Tasks
      BY <1>1 DEF StopServing, Phases, Active
    <2>2. TypeOK'
      BY <2>1, QuietConnection DEF BooksInv, TypeOK
    <2>3. QED
      BY <2>1, <2>2, QuietStep
  <1>2. CASE Restart
    <2>1. /\ UNCHANGED <<dbVars, seen, tokens, log, touch, barred>>
          /\ phase' \in Phases /\ pending' \subseteq Tasks /\ stage' \in [Requests -> Stages]
          /\ \A r \in Requests : stage'[r] = stage[r] \/ stage'[r] = "lost"
      BY <1>2 DEF Restart, Phases, BooksInv, TypeOK, Stages
    <2>2. TypeOK'
      BY <2>1, QuietConnection DEF BooksInv, TypeOK
    <2>3. QED
      BY <2>1, <2>2, QuietStep
  <1>3. CASE CliStarts \/ AdminReads \/ UNCHANGED vars
    <2>1. UNCHANGED taskVars /\ (Select \/ CliBegin \/ UNCHANGED dbVars)
      BY <1>3 DEF CliStarts, AdminReads, vars
    <2>2. TypeOK'
      BY <2>1, QuietConnection DEF taskVars, BooksInv, TypeOK
    <2>3. QED
      BY <2>1, <2>2, QuietStep DEF taskVars
  <1>4. QED
    BY <1>1, <1>2, <1>3

------------------------------------------------------------------------------
(* The induction. *)

\* Every step keeps the books.
LEMMA BooksStep == BooksInv /\ [Next]_vars => BooksInv'
  <1> SUFFICES ASSUME BooksInv, [Next]_vars PROVE BooksInv'
    OBVIOUS
  <1>1. ASSUME NEW r \in Requests, Handler(r) PROVE BooksInv'
    BY <1>1, AuthKeepsBooks, SpawnKeepsBooks DEF Handler
  <1>2. ASSUME NEW r \in Requests, LogTask(r) PROVE BooksInv'
    BY <1>2, LogInsertKeepsBooks, LogUpdateKeepsBooks, CommitKeepsBooks, FailureKeepsBooks
    DEF LogTask
  <1>3. ASSUME NEW r \in Requests, TouchTask(r) PROVE BooksInv'
    BY <1>3, TouchKeepsBooks, CommitKeepsBooks, FailureKeepsBooks DEF TouchTask
  <1>4. ASSUME CliDisables \/ CloseDatabase \/ Crash PROVE BooksInv'
    BY <1>4, CliKeepsBooks, LossKeepsBooks
  <1>5. ASSUME StopServing \/ Restart \/ CliStarts \/ AdminReads PROVE BooksInv'
    BY <1>5, ProcessKeepsBooks
  <1>6. ASSUME UNCHANGED vars PROVE BooksInv'
    BY <1>6, ProcessKeepsBooks DEF vars
  <1>7. QED
    BY <1>1, <1>2, <1>3, <1>4, <1>5, <1>6 DEF Next

\* The invariant holds throughout.
LEMMA BooksHold == Spec => []BooksInv
  BY BooksStart, BooksStep, PTL DEF Spec

\* Every variable keeps its type, and the connection agrees with the lock.
THEOREM AccountingTypeHolds == Spec => []TypeOK
  BY BooksHold, PTL DEF BooksInv

\* No key is ever charged for a request without a log, whatever is committed by
\* whom and wherever the process dies.
THEOREM ChargedIsLoggedHolds == Spec => []ChargedIsLogged
  BY BooksHold, PTL DEF BooksInv

\* A log task that returned has its row and its tokens on disk for good.
THEOREM DoneIsDurableHolds == Spec => []DoneIsDurable
  BY BooksHold, PTL DEF BooksInv

\* No commit, of the gateway or of the CLI, undoes what was on disk.
THEOREM DurableStaysHolds == Spec => DurableStays
  <1> DEFINE Stays == /\ disk.rows \subseteq disk'.rows
                      /\ disk.counted \subseteq disk'.counted
                      /\ disk'.keyOn => disk.keyOn
                      /\ disk'.userOn => disk.userOn
  <1>1. BooksInv /\ [Next]_vars => [Stays]_vars
    <2> SUFFICES ASSUME BooksInv, Next PROVE Stays
      OBVIOUS
    <2>1. ASSUME Commit PROVE Stays
      BY <2>1, CommitConnection DEF BooksInv, ViewCoversDisk
    <2>2. ASSUME disk' = disk PROVE Stays
      BY <2>2
    <2>3. ASSUME CliDisables PROVE Stays
      BY <2>3 DEF CliDisables, CliCommit, BooksInv, TypeOK, Databases
    <2>4. ASSUME NEW r \in Requests, Handler(r) PROVE disk' = disk
      BY <2>4 DEF Handler, AuthKey, AuthUser, EnforceLimits, Finish, Select, dbVars
    <2>5. ASSUME NEW r \in Requests, LogTask(r) PROVE disk' = disk \/ Commit
      BY <2>5 DEF LogTask, LogInsert, LogUpdate, LogCommit, LogFails, Write, WriteFails
    <2>6. ASSUME NEW r \in Requests, TouchTask(r) PROVE disk' = disk \/ Commit
      BY <2>6 DEF TouchTask, TouchUpdate, TouchCommit, TouchFails, Write, WriteFails
    <2>7. ASSUME CliStarts \/ AdminReads \/ StopServing \/ CloseDatabase \/ Crash \/ Restart
          PROVE  disk' = disk
      BY <2>7
      DEF CliStarts, CliBegin, AdminReads, Select, StopServing, CloseDatabase, Crash, Restart,
          Rollback, dbVars
    <2> HIDE DEF Stays
    <2>8. QED
      BY <2>1, <2>2, <2>3, <2>4, <2>5, <2>6, <2>7 DEF Next
  <1>2. QED
    BY <1>1, BooksHold, PTL DEF Spec, DurableStays

\* No write transaction outlives the tasks that made it.
THEOREM NoLeftoverTransactionHolds == Spec => []NoLeftoverTransaction
  <1> DEFINE Writing == \E r \in Requests : Busy(log[r]) \/ Busy(touch[r])
             Inv == txn = "write" => Writing
  <1>1. Init => Inv
    BY DEF Init, DbInit
  <1>2. BooksInv /\ Inv /\ [Next]_vars => Inv'
    <2> SUFFICES ASSUME BooksInv, Inv, [Next]_vars, txn' = "write" PROVE Writing'
      OBVIOUS
    <2>0. log \in [Requests -> TaskStates] /\ touch \in [Requests -> TaskStates]
      BY DEF BooksInv, TypeOK
    <2>1. ASSUME NEW r \in Requests, Handler(r) PROVE Writing'
      <3>1. txn = "write"
        BY <2>1 DEF Handler, AuthKey, AuthUser, EnforceLimits, Finish, Select, dbVars
      <3>2. PICK q \in Requests : Busy(log[q]) \/ Busy(touch[q])
        BY <3>1
      <3>3. Busy(log[q]) => Busy(log'[q])
        BY <2>0, <2>1 DEF Handler, AuthKey, AuthUser, EnforceLimits, Finish, Busy
      <3>4. Busy(touch[q]) => Busy(touch'[q])
        BY <2>0, <2>1 DEF Handler, AuthKey, AuthUser, EnforceLimits, Finish, Busy
      <3>5. QED
        BY <3>2, <3>3, <3>4 DEF Busy
    <2>2. ASSUME NEW r \in Requests, LogInsert(r) \/ LogUpdate(r) \/ TouchUpdate(r)
          PROVE  Writing'
      BY <2>0, <2>2 DEF LogInsert, LogUpdate, TouchUpdate, LogGoes, TouchGoes, Busy
    <2>3. ASSUME Commit \/ Rollback \/ CliDisables \/ WriteFails PROVE FALSE
      BY <2>3
      DEF Commit, Rollback, CliDisables, CliCommit, WriteFails, BooksInv, TypeOK,
          ConnectionConsistent, TxnStates
    <2>4. ASSUME UNCHANGED <<log, touch>>, txn = "write" PROVE Writing'
      BY <2>4
    <2>5. ASSUME CliStarts \/ AdminReads \/ StopServing \/ Restart \/ UNCHANGED vars
          PROVE  UNCHANGED <<log, touch>> /\ txn = "write"
      BY <2>5
      DEF CliStarts, CliBegin, AdminReads, Select, StopServing, Restart, vars, dbVars, taskVars
    <2>6. QED
      BY <2>1, <2>2, <2>3, <2>4, <2>5
      DEF Next, LogTask, TouchTask, LogCommit, LogFails, TouchCommit, TouchFails,
          CloseDatabase, Crash
  <1>3. Inv => NoLeftoverTransaction
    <2> SUFFICES ASSUME NEW r \in Requests, Busy(log[r]) \/ Busy(touch[r])
                 PROVE  \E t \in Active : TRUE
      BY DEF NoLeftoverTransaction
    <2>1. <<"log", r>> \in Tasks /\ <<"touch", r>> \in Tasks
      BY DEF Tasks
    <2>2. QED
      BY <2>1 DEF Active
  <1>4. QED
    BY <1>1, <1>2, <1>3, BooksHold, PTL DEF Spec

\* Whoever gets past a disabled key or user was let in by a stale snapshot: in
\* every other state of the connection the view shows the file's switches.
THEOREM DisableDelayedHolds == Spec => DisableDelayedOnlyByStaleSnapshot
  <1> DEFINE Passes(r) == \/ stage[r] = "new" /\ stage'[r] = "keyread" /\ ~disk.keyOn
                          \/ stage[r] = "keyread" /\ stage'[r] = "authed" /\ ~disk.userOn
             Delayed == \A r \in Requests : Passes(r) => txn = "stale"
  <1>1. BooksInv /\ [Next]_vars => [Delayed]_vars
    <2> SUFFICES ASSUME BooksInv, Next, NEW r \in Requests, Passes(r) PROVE txn = "stale"
      OBVIOUS
    <2>1. txn # "stale" => view.keyOn = disk.keyOn /\ view.userOn = disk.userOn
      BY DEF BooksInv, TypeOK, ConnectionConsistent, TxnStates, SwitchesKept
    <2>2. stage \in [Requests -> Stages]
      BY DEF BooksInv, TypeOK
    <2>3. ASSUME NEW q \in Requests, Handler(q) PROVE txn = "stale"
      <3>1. AuthKey(q) \/ AuthUser(q) \/ EnforceLimits(q) \/ \E n \in TokenCounts : Finish(q, n)
        BY <2>3 DEF Handler
      <3>2. CASE AuthKey(q)
        <4>1. q = r /\ stage[r] = "new" /\ stage'[r] = "keyread" /\ ~disk.keyOn
          BY <2>2, <3>2 DEF AuthKey, Move
        <4>2. view.keyOn
          BY <2>2, <3>2, <4>1 DEF AuthKey, Move
        <4>3. QED
          BY <2>1, <4>1, <4>2
      <3>3. CASE AuthUser(q)
        <4>1. q = r /\ stage[r] = "keyread" /\ stage'[r] = "authed" /\ ~disk.userOn
          BY <2>2, <3>3 DEF AuthUser, Move
        <4>2. view.userOn
          BY <2>2, <3>3, <4>1 DEF AuthUser, Move
        <4>3. QED
          BY <2>1, <4>1, <4>2
      <3>4. CASE EnforceLimits(q) \/ \E n \in TokenCounts : Finish(q, n)
        BY <2>2, <3>4 DEF EnforceLimits, Finish, Move
      <3>5. QED
        BY <3>1, <3>2, <3>3, <3>4
    <2>4. ASSUME NEW q \in Requests, LogTask(q) \/ TouchTask(q) PROVE stage' = stage
      BY <2>4 DEF LogTask, LogInsert, LogUpdate, LogCommit, LogFails, LogGoes,
                  TouchTask, TouchUpdate, TouchCommit, TouchFails, TouchGoes
    <2>5. ASSUME CliStarts \/ CliDisables \/ AdminReads \/ StopServing \/ CloseDatabase
          PROVE  stage' = stage
      BY <2>5 DEF CliStarts, CliDisables, AdminReads, StopServing, CloseDatabase, taskVars
    <2>6. ASSUME Crash \/ Restart
          PROVE  stage'[r] = stage[r] \/ stage'[r] = "lost"
      BY <2>6 DEF Crash, Restart
    <2>7. QED
      BY <2>3, <2>4, <2>5, <2>6 DEF Next
  <1>2. QED
    BY <1>1, BooksHold, PTL DEF Spec, DisableDelayedOnlyByStaleSnapshot
------------------------------------------------------------------------------
(* The quota, for clients that take turns. *)

\* A request that was charged, or was about to be when its task ended.
Settled(r) == stage[r] = "ended" /\ log[r] \in {"commit", "done", "failed"}

\* A request that may still be let in or charged.
Alive(r) ==
  \/ ConnectionOpen /\ stage[r] \in {"keyread", "authed", "running"}
  \/ Busy(log[r])

\* uvicorn lets the handlers finish before the lifespan ends.
HandlersFinish == phase # "up" => \A r \in Requests : stage[r] \notin {"keyread", "authed"}

\* Whoever is charged, or was when auth read the key row, has ended: its tokens
\* and its place in the order of the charges are fixed.
ChargedAreSettled == \A r \in view.counted : Settled(r)

SeenAreSettled == \A r \in Requests : r \notin seen[r] /\ \A q \in seen[r] : Settled(q)

TokensAtTheEnd ==
  \A r \in Requests : tokens[r] > 0 \/ log[r] = "update" => stage[r] = "ended"

\* No rollback comes between the reading of the key row and the charge: it takes
\* the requests in between with it.
SeenStaysCounted ==
  \A r \in Requests :
    /\ Alive(r) \/ r \in view.counted => seen[r] \subseteq view.counted
    /\ r \in disk.counted => seen[r] \subseteq disk.counted

\* What _enforce_limits found still is so.
AdmittedWithinQuota ==
  \A r \in Requests : stage[r] \in {"running", "ended"} => ~OverQuota(r)

\* ChargedInTurn, of any set of charges: of those that took turns the last one
\* had seen all others.
InTurn(S) == \A q, r \in S : q = r \/ q \in seen[r] \/ r \in seen[q]

LastSawTheOthers(S) == S # {} /\ InTurn(S) => \E r \in S : S \ {r} = seen[r]

\* The inductive invariant, on top of BooksInv.
TurnInv ==
  /\ HandlersFinish
  /\ ChargedAreSettled
  /\ SeenAreSettled
  /\ TokensAtTheEnd
  /\ SeenStaysCounted
  /\ AdmittedWithinQuota
  /\ LastSawTheOthers(view.counted)
  /\ LastSawTheOthers(disk.counted)

\* Nobody has called yet.
LEMMA TurnStart == Init => TurnInv
  BY DEF Init, DbInit, EmptyDb, TurnInv, HandlersFinish, ChargedAreSettled, SeenAreSettled,
         TokensAtTheEnd, SeenStaysCounted, Alive, Busy, AdmittedWithinQuota, LastSawTheOthers

\* What auth read is worth the same as long as the requests in it keep their
\* tokens.
LEMMA QuotaIsFrozen ==
  ASSUME BooksInv, TurnInv, NEW r \in Requests, seen'[r] = seen[r],
         \A q \in Requests : Settled(q) => tokens'[q] = tokens[q]
  PROVE  OverQuota(r)' <=> OverQuota(r)
  <1>1. \A q \in seen[r] : tokens'[q] = tokens[q]
    BY DEF BooksInv, TypeOK, TurnInv, SeenAreSettled
  <1>2. [q \in seen'[r] |-> tokens'[q]] = [q \in seen[r] |-> tokens[q]]
    BY <1>1
  <1>3. QED
    BY <1>2 DEF OverQuota, Spent, Used

\* The file and the view after a step that charges nobody: as they were, both
\* like the view after a commit, both like the file when the connection is lost.
ChargesKept == disk'.counted = disk.counted /\ view'.counted = view.counted
ChargesCommitted == disk'.counted = view.counted /\ view'.counted = view.counted
ChargesLost == /\ disk'.counted = disk.counted /\ view'.counted = disk.counted
               /\ \A r \in Requests : ~Alive(r)'

\* A step that reads no key row and charges nobody.
LEMMA TurnFrame ==
  ASSUME BooksInv, TurnInv, seen' = seen, ChargesKept \/ ChargesCommitted \/ ChargesLost,
         HandlersFinish', TokensAtTheEnd',
         \A r \in Requests : Settled(r) => Settled(r)' /\ tokens'[r] = tokens[r],
         \A r \in Requests : Alive(r)' => Alive(r),
         \A r \in Requests :
           stage'[r] \in {"running", "ended"} => stage[r] \in {"running", "ended"} \/ ~OverQuota(r)
  PROVE  TurnInv'
  <1>1. /\ disk.counted \subseteq view.counted /\ view.counted \subseteq Requests
        /\ seen \in [Requests -> SUBSET Requests]
    BY DEF BooksInv, ViewCoversDisk, TypeOK, Databases
  <1>2. view'.counted \subseteq view.counted
    BY <1>1 DEF ChargesKept, ChargesCommitted, ChargesLost
  <1>3. ChargedAreSettled' /\ SeenAreSettled'
    BY <1>1, <1>2 DEF TurnInv, ChargedAreSettled, SeenAreSettled
  <1>4. SeenStaysCounted'
    BY <1>1 DEF TurnInv, SeenStaysCounted, ChargesKept, ChargesCommitted, ChargesLost
  <1>5. AdmittedWithinQuota'
    <2> SUFFICES ASSUME NEW r \in Requests, stage'[r] \in {"running", "ended"}
                 PROVE  ~OverQuota(r)'
      BY DEF AdmittedWithinQuota
    <2>1. ~OverQuota(r)
      BY DEF TurnInv, AdmittedWithinQuota
    <2>2. QED
      BY <2>1, QuotaIsFrozen
  <1>6. LastSawTheOthers(view.counted)' /\ LastSawTheOthers(disk.counted)'
    BY DEF TurnInv, LastSawTheOthers, InTurn, ChargesKept, ChargesCommitted, ChargesLost
  <1>7. QED
    BY <1>3, <1>4, <1>5, <1>6 DEF TurnInv

\* get_key_by_hash reads the charges: all of them have ended, the reader not.
LEMMA AuthKeyKeepsTurn ==
  ASSUME BooksInv, TurnInv, NEW r \in Requests, AuthKey(r)
  PROVE  TurnInv'
  <1>1. /\ phase = "up" /\ stage[r] = "new" /\ log[r] = "idle"
        /\ UNCHANGED <<disk, view, phase, tokens, log>>
        /\ seen' = [seen EXCEPT ![r] = view.counted]
        /\ stage' \in {[stage EXCEPT ![r] = "keyread"], [stage EXCEPT ![r] = "refused"]}
    BY DEF AuthKey, Select, Move, BooksInv, LogProgress
  <1>2. /\ seen \in [Requests -> SUBSET Requests] /\ stage \in [Requests -> Stages]
        /\ view.counted \subseteq Requests /\ disk.counted \subseteq view.counted
    BY DEF BooksInv, ViewCoversDisk, TypeOK, Databases
  <1>3. /\ r \notin view.counted
        /\ \A q \in Requests \ {r} : seen'[q] = seen[q] /\ stage'[q] = stage[q]
        /\ seen'[r] = view.counted /\ stage'[r] \in {"keyread", "refused"}
    BY <1>1, <1>2 DEF TurnInv, ChargedAreSettled, Settled
  <1>4. \A q \in Requests : Settled(q) => Settled(q)'
    BY <1>1, <1>3 DEF Settled
  <1>5. HandlersFinish' /\ ChargedAreSettled' /\ SeenAreSettled' /\ TokensAtTheEnd'
    BY <1>1, <1>2, <1>3, <1>4
    DEF TurnInv, HandlersFinish, ChargedAreSettled, SeenAreSettled, TokensAtTheEnd, Settled
  <1>6. SeenStaysCounted'
    <2>1. \A q \in Requests \ {r} : Alive(q)' => Alive(q)
      BY <1>1, <1>3 DEF Alive, ConnectionOpen
    <2>2. QED
      BY <1>1, <1>2, <1>3, <2>1 DEF TurnInv, SeenStaysCounted
  <1>7. AdmittedWithinQuota'
    <2> SUFFICES ASSUME NEW q \in Requests, stage'[q] \in {"running", "ended"}
                 PROVE  ~OverQuota(q)'
      BY DEF AdmittedWithinQuota
    <2>1. q # r /\ ~OverQuota(q) /\ seen'[q] = seen[q]
      BY <1>3 DEF TurnInv, AdmittedWithinQuota
    <2>2. QED
      BY <1>1, <2>1, QuotaIsFrozen
  <1>8. LastSawTheOthers(view.counted)' /\ LastSawTheOthers(disk.counted)'
    <2>1. \A q \in view.counted : seen'[q] = seen[q]
      BY <1>2, <1>3
    <2>2. QED
      BY <1>1, <1>2, <2>1 DEF TurnInv, LastSawTheOthers, InTurn
  <1>9. QED
    BY <1>5, <1>6, <1>7, <1>8 DEF TurnInv

\* The request that is charged becomes the last: nobody has seen its charge, so
\* if all took turns it has seen theirs.
LEMMA LogUpdateKeepsTurn ==
  ASSUME BooksInv, TurnInv, NEW r \in Requests, LogUpdate(r)
  PROVE  TurnInv'
  <1>1. /\ log[r] = "update" /\ stage[r] = "ended"
        /\ UNCHANGED <<disk, phase, stage, seen, tokens>>
        /\ log' = [log EXCEPT ![r] = "commit"]
        /\ view'.counted = view.counted \cup {r}
    BY DEF LogUpdate, LogGoes, Write, BooksInv, TypeOK, Databases, TurnInv, TokensAtTheEnd
  <1>2. /\ seen \in [Requests -> SUBSET Requests] /\ log \in [Requests -> TaskStates]
        /\ view.counted \subseteq Requests /\ disk.counted \subseteq view.counted
    BY DEF BooksInv, ViewCoversDisk, TypeOK, Databases
  <1>3. r \notin view.counted /\ \A q \in Requests : r \notin seen[q]
    BY <1>1 DEF TurnInv, ChargedAreSettled, SeenAreSettled, Settled
  <1>4. \A q \in Requests : Settled(q) \/ q = r => Settled(q)'
    BY <1>1, <1>2 DEF Settled
  <1>5. HandlersFinish' /\ ChargedAreSettled' /\ SeenAreSettled' /\ TokensAtTheEnd'
    BY <1>1, <1>2, <1>4
    DEF TurnInv, HandlersFinish, ChargedAreSettled, SeenAreSettled, TokensAtTheEnd
  <1>6. SeenStaysCounted'
    <2>1. Alive(r) /\ \A q \in Requests \ {r} : Alive(q)' => Alive(q)
      BY <1>1, <1>2 DEF Alive, ConnectionOpen, Busy
    <2>2. QED
      BY <1>1, <2>1 DEF TurnInv, SeenStaysCounted
  <1>7. AdmittedWithinQuota'
    BY <1>1, QuotaIsFrozen DEF TurnInv, AdmittedWithinQuota
  <1>8. LastSawTheOthers(view.counted)'
    <2> SUFFICES ASSUME InTurn(view.counted)'
                 PROVE  \E q \in view'.counted : view'.counted \ {q} = seen'[q]
      BY DEF LastSawTheOthers
    <2>1. \A q \in view.counted : q \in seen[r]
      BY <1>1, <1>2, <1>3 DEF InTurn
    <2>2. seen[r] \subseteq view.counted
      BY <1>1 DEF TurnInv, SeenStaysCounted, Alive, Busy
    <2>3. view'.counted \ {r} = seen'[r]
      BY <1>1, <1>3, <2>1, <2>2
    <2>4. QED
      BY <1>1, <2>3
  <1>9. LastSawTheOthers(disk.counted)'
    BY <1>1 DEF TurnInv, LastSawTheOthers, InTurn
  <1>10. QED
    BY <1>5, <1>6, <1>7, <1>8, <1>9 DEF TurnInv

\* The limits let a request through, or it reports its tokens.
LEMMA HandlerKeepsTurn ==
  ASSUME BooksInv, TurnInv, NEW r \in Requests,
         AuthUser(r) \/ EnforceLimits(r) \/ \E n \in TokenCounts : Finish(r, n)
  PROVE  TurnInv'
  <1>0. /\ stage \in [Requests -> Stages] /\ log \in [Requests -> TaskStates]
        /\ tokens \in [Requests -> TokenCounts \cup {0}]
    BY DEF BooksInv, TypeOK
  <1>1. /\ seen' = seen /\ phase' = phase /\ ConnectionOpen /\ ChargesKept
        /\ stage[r] \in {"keyread", "authed", "running"} /\ log[r] = "idle"
        /\ stage'[r] \in {"authed", "running", "refused", "ended"}
        /\ log'[r] \in {"idle", "insert"}
        /\ \A q \in Requests \ {r} :
             stage'[q] = stage[q] /\ log'[q] = log[q] /\ tokens'[q] = tokens[q]
        /\ stage'[r] # "ended" => tokens'[r] = tokens[r]
        /\ stage'[r] \in {"running", "ended"} => stage[r] = "running" \/ ~OverQuota(r)
        /\ stage'[r] = "authed" => phase = "up"
    BY <1>0
    DEF AuthUser, EnforceLimits, Finish, Select, Move, dbVars, ChargesKept, ConnectionOpen,
        BooksInv, LogProgress
  <1>2. \A q \in Requests : Settled(q) => Settled(q)' /\ tokens'[q] = tokens[q]
    BY <1>1 DEF Settled
  <1>3. \A q \in Requests : Alive(q)' => Alive(q)
    BY <1>1 DEF Alive, ConnectionOpen
  <1>4. HandlersFinish' /\ TokensAtTheEnd'
    BY <1>0, <1>1 DEF TurnInv, HandlersFinish, TokensAtTheEnd
  <1>5. QED
    BY <1>1, <1>2, <1>3, <1>4, TurnFrame

\* The statements and the commit of a log task, but for the charge; a touch task.
LEMMA TaskKeepsTurn ==
  ASSUME BooksInv, TurnInv, NEW r \in Requests,
         LogInsert(r) \/ LogCommit(r) \/ LogFails(r) \/ TouchTask(r)
  PROVE  TurnInv'
  <1>0. /\ log \in [Requests -> TaskStates] /\ view \in Databases
        /\ tokens \in [Requests -> TokenCounts \cup {0}]
        /\ txn # "write" => view.counted = disk.counted
    BY DEF BooksInv, TypeOK, ViewCoversDisk
  <1>1. UNCHANGED <<phase, stage, seen, tokens>> /\ (ChargesKept \/ ChargesCommitted)
    <2>1. UNCHANGED <<phase, stage, seen, tokens>>
      BY DEF LogInsert, LogCommit, LogFails, LogGoes, TouchTask, TouchUpdate, TouchCommit,
             TouchFails, TouchGoes
    <2>2. CASE LogInsert(r) \/ LogFails(r) \/ TouchUpdate(r) \/ TouchFails(r)
      BY <1>0, <2>1, <2>2 DEF LogInsert, LogFails, TouchUpdate, TouchFails, Write, WriteFails,
                              Databases, ChargesKept
    <2>3. CASE LogCommit(r) \/ TouchCommit(r)
      BY <1>0, <2>1, <2>3 DEF LogCommit, TouchCommit, Commit, ChargesCommitted
    <2>4. QED
      BY <2>1, <2>2, <2>3 DEF TouchTask
  <1>2. /\ \A q \in Requests : log'[q] # log[q] => Busy(log[q])
        /\ \A q \in Requests :
             log[q] \in {"commit", "done", "failed"} => log'[q] \in {"commit", "done", "failed"}
        /\ \A q \in Requests : log'[q] = "update" => log[q] = "update" \/ tokens[q] > 0
    BY <1>0 DEF LogInsert, LogCommit, LogFails, LogGoes, TouchTask, TouchUpdate, TouchCommit,
                TouchFails, TouchGoes, Busy
  <1>3. HandlersFinish' /\ TokensAtTheEnd'
    BY <1>1, <1>2 DEF TurnInv, HandlersFinish, TokensAtTheEnd
  <1>4. \A q \in Requests : Settled(q) => Settled(q)' /\ tokens'[q] = tokens[q]
    BY <1>1, <1>2 DEF Settled
  <1>5. \A q \in Requests : Alive(q)' => Alive(q)
    BY <1>1, <1>2 DEF Alive, ConnectionOpen
  <1>6. QED
    BY <1>1, <1>3, <1>4, <1>5, TurnFrame

\* The connection goes away: nobody who had read the key row is left.
LEMMA LossKeepsTurn ==
  ASSUME BooksInv, TurnInv, CloseDatabase \/ Crash
  PROVE  TurnInv'
  <1>0. stage \in [Requests -> Stages] /\ log \in [Requests -> TaskStates]
    BY DEF BooksInv, TypeOK
  <1>1. /\ UNCHANGED <<seen, tokens>>
        /\ phase' \in {"closed", "cut", "down"}
        /\ disk' = disk /\ view' = disk
        /\ \A q \in Requests : log'[q] = IF Busy(log[q]) THEN "failed" ELSE log[q]
        /\ \A q \in Requests :
             stage'[q] = stage[q] \/ (stage'[q] = "lost" /\ stage[q] # "ended")
        /\ \A q \in Requests : stage'[q] \notin {"keyread", "authed"}
    <2>1. CASE CloseDatabase
      BY <1>0, <2>1 DEF CloseDatabase, Rollback, TurnInv, HandlersFinish
    <2>2. CASE Crash
      BY <1>0, <2>2 DEF Crash, Rollback
    <2>3. QED
      BY <2>1, <2>2
  <1>2. \A q \in Requests : ~Alive(q)'
    BY <1>1 DEF Alive, ConnectionOpen, Busy
  <1>3. \A q \in Requests : Settled(q) => Settled(q)' /\ tokens'[q] = tokens[q]
    BY <1>1 DEF Settled, Busy
  <1>4. HandlersFinish' /\ TokensAtTheEnd'
    BY <1>1 DEF HandlersFinish, TurnInv, TokensAtTheEnd, Busy
  <1>5. ChargesLost
    BY <1>1, <1>2 DEF ChargesLost
  <1>6. QED
    BY <1>1, <1>2, <1>3, <1>4, <1>5, TurnFrame

\* The CLI, the dashboard, the start of a shutdown and a restart.
LEMMA ProcessKeepsTurn ==
  ASSUME BooksInv, TurnInv,
         CliStarts \/ CliDisables \/ AdminReads \/ StopServing \/ Restart \/ UNCHANGED vars
  PROVE  TurnInv'
  <1>1. ChargesKept
    <2>1. CASE CliDisables
      BY <2>1 DEF CliDisables, CliCommit, BooksInv, TypeOK, Databases, ViewCoversDisk,
                  ConnectionConsistent, ChargesKept
    <2>2. CASE CliStarts \/ AdminReads \/ StopServing \/ Restart \/ UNCHANGED vars
      BY <2>2 DEF CliStarts, CliBegin, AdminReads, Select, StopServing, Restart, vars, dbVars,
                  ChargesKept
    <2>3. QED
      BY <2>1, <2>2
  <1>2. UNCHANGED <<seen, tokens, log>>
    BY DEF CliStarts, CliDisables, AdminReads, StopServing, Restart, vars, taskVars
  <1>3. \/ UNCHANGED <<phase, stage>>
        \/ /\ phase = "up" /\ phase' = "draining" /\ stage' = stage
           /\ \A q \in Requests : stage[q] \notin {"keyread", "authed"}
        \/ /\ phase # "up" /\ phase' = "up"
           /\ \A q \in Requests :
                stage'[q] = IF stage[q] = "running" THEN "lost" ELSE stage[q]
    BY DEF CliStarts, CliDisables, AdminReads, StopServing, Restart, vars, taskVars
  <1>4. HandlersFinish' /\ TokensAtTheEnd'
    BY <1>2, <1>3 DEF TurnInv, HandlersFinish, TokensAtTheEnd
  <1>5. \A q \in Requests : Settled(q) => Settled(q)' /\ tokens'[q] = tokens[q]
    BY <1>2, <1>3 DEF Settled
  <1>6. \A q \in Requests : Alive(q)' => Alive(q)
    BY <1>2, <1>3 DEF Alive, ConnectionOpen, TurnInv, HandlersFinish
  <1>7. \A q \in Requests : stage'[q] \in {"running", "ended"} => stage[q] \in {"running", "ended"}
    BY <1>3
  <1>8. QED
    BY <1>1, <1>2, <1>4, <1>5, <1>6, <1>7, TurnFrame

\* Every step keeps the order of the charges.
LEMMA TurnStep == BooksInv /\ TurnInv /\ [Next]_vars => TurnInv'
  <1> SUFFICES ASSUME BooksInv, TurnInv, [Next]_vars PROVE TurnInv'
    OBVIOUS
  <1>1. ASSUME NEW r \in Requests, Handler(r) PROVE TurnInv'
    BY <1>1, AuthKeyKeepsTurn, HandlerKeepsTurn DEF Handler
  <1>2. ASSUME NEW r \in Requests, LogTask(r) \/ TouchTask(r) PROVE TurnInv'
    BY <1>2, LogUpdateKeepsTurn, TaskKeepsTurn DEF LogTask
  <1>3. ASSUME CloseDatabase \/ Crash PROVE TurnInv'
    BY <1>3, LossKeepsTurn
  <1>4. ASSUME CliStarts \/ CliDisables \/ AdminReads \/ StopServing \/ Restart PROVE TurnInv'
    BY <1>4, ProcessKeepsTurn
  <1>5. ASSUME UNCHANGED vars PROVE TurnInv'
    BY <1>5, ProcessKeepsTurn
  <1>6. QED
    BY <1>1, <1>2, <1>3, <1>4, <1>5 DEF Next

\* Clients that take turns exceed the quota by their last request only, however
\* the charges are committed, rolled back or cut off by a crash.
THEOREM SequentialOvershootHolds == Spec => []SequentialOvershoot
  <1>1. BooksInv /\ TurnInv => SequentialOvershoot
    <2> SUFFICES ASSUME BooksInv, TurnInv, ChargedInTurn, view.counted # {}
                 PROVE  \E r \in view.counted : ~Spent(view.counted \ {r})
      BY DEF SequentialOvershoot, WithinQuotaButOne
    <2>1. PICK r \in view.counted : view.counted \ {r} = seen[r]
      BY DEF TurnInv, LastSawTheOthers, InTurn, ChargedInTurn
    <2>2. ~Spent(seen[r])
      BY DEF BooksInv, TypeOK, Databases, TurnInv, ChargedAreSettled, Settled,
             AdmittedWithinQuota, OverQuota
    <2>3. QED
      BY <2>1, <2>2
  <1>2. QED
    BY <1>1, TurnStart, TurnStep, BooksHold, PTL DEF Spec
==============================================================================
