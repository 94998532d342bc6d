--------------------------- MODULE SharedConnection ---------------------------
(****************************************************************************)
(* The one aiosqlite connection that every coroutine of the gateway uses    *)
(* (db/database.py), beside a CLI process on the same file.                 *)
(*                                                                          *)
(* sqlite3 opens a transaction on the first INSERT or UPDATE and leaves it  *)
(* open until somebody calls commit(); the code never rolls back.  So a     *)
(* transaction belongs to the connection, not to a coroutine: whoever       *)
(* commits first commits for everybody.  A write that fails leaves the      *)
(* BEGIN it has just issued behind.  The file is in WAL mode: one writer,   *)
(* readers on a snapshot, and a transaction whose snapshot is no longer the *)
(* newest cannot write (SQLITE_BUSY_SNAPSHOT, without waiting).             *)
(****************************************************************************)

CONSTANT LongLocks    \* may another process keep the write lock for 5 s or more

ASSUME LongLocksAssumption == LongLocks \in BOOLEAN

VARIABLES
  disk,     \* the committed database
  view,     \* the database as the gateway's connection sees it
  txn,      \* the transaction of the gateway's connection
  lock      \* who may write: "free", "gateway" or "cli"

dbVars == <<disk, view, txn, lock>>

\* "open": begun, nothing read or written yet; "read": pinned to a snapshot;
\* "stale": pinned to a snapshot that is no longer the newest.
TxnStates == {"none", "open", "read", "stale", "write"}

DbInit(db) ==
  /\ disk = db
  /\ view = db
  /\ txn = "none"
  /\ lock = "free"

------------------------------------------------------------------------------
(* The gateway's connection *)

\* A SELECT.
Select ==
  /\ txn' = IF txn = "open" THEN "read" ELSE txn
  /\ UNCHANGED <<disk, view, lock>>

\* An INSERT or UPDATE that takes the connection's view to db.
Write(db) ==
  /\ lock # "cli"
  /\ txn # "stale"
  /\ view' = db
  /\ txn' = "write"
  /\ lock' = "gateway"
  /\ UNCHANGED disk

\* "database is locked": after busy_timeout, or at once on a stale snapshot.
WriteFails ==
  /\ txn = "stale" \/ (lock = "cli" /\ LongLocks)
  /\ txn' = IF txn = "none" THEN "open" ELSE txn
  /\ UNCHANGED <<disk, view, lock>>

\* conn.commit(), by whichever coroutine.
Commit ==
  /\ disk' = IF txn = "write" THEN view ELSE disk
  /\ view' = disk'
  /\ txn' = "none"
  /\ lock' = IF lock = "gateway" THEN "free" ELSE lock

\* The connection goes away, by Database.close() or with the process.
Rollback ==
  /\ view' = disk
  /\ txn' = "none"
  /\ lock' = IF lock = "gateway" THEN "free" ELSE lock
  /\ UNCHANGED disk

------------------------------------------------------------------------------
(* The CLI process *)

CliBegin ==
  /\ lock = "free"
  /\ lock' = "cli"
  /\ UNCHANGED <<disk, view, txn>>

CliCommit(db) ==
  /\ lock = "cli"
  /\ disk' = db
  /\ view' = IF txn \in {"none", "open"} THEN db ELSE view
  /\ txn' = IF txn = "read" THEN "stale" ELSE txn
  /\ lock' = "free"

------------------------------------------------------------------------------
\* How the lock, the transaction and the two views of the database relate: the
\* gateway owns the lock exactly while it has written, and what it sees can
\* only differ from the file if it has written or is stuck on a snapshot.
ConnectionConsistent ==
  /\ txn \in TxnStates
  /\ lock \in {"free", "gateway", "cli"}
  /\ lock = "gateway" <=> txn = "write"
  /\ txn \in {"none", "open", "read"} => view = disk
==============================================================================
