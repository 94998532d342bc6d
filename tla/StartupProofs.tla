---------------------------- MODULE StartupProofs ----------------------------
(****************************************************************************)
(* However many processes of however many releases start on one file, and   *)
(* wherever they die: those that get past connect agree on its version, a   *)
(* gateway knows the row it names in its logs, and a start that nobody      *)
(* disturbs is refused for a cause that the administrator can see.          *)
(****************************************************************************)
EXTENDS Startup, TLAPS

\* The write lock is held in the places between an INSERT and its COMMIT.
LockInv ==
  \A p \in Processes :
    /\ at[p] \in {"commit", "seeded", "writing"} => lock = p
    /\ lock = p => at[p] \in {"commit", "seeded", "writing", "up"}

\* What each place in a start relies on.
FileInv ==
  \A p \in Processes :
    /\ at[p] \in {"look", "insert", "commit"} \cup Connected => tables = Tables
    /\ at[p] = "commit" => version = 0
    /\ at[p] \in Connected => version = VersionOf[p]
    /\ at[p] \in {"identify", "up"} => backend # 0
    /\ at[p] = "up" => known[p] = backend

\* What a start that is alone can rely on, and why one was refused.
AloneInv ==
  \A p \in Processes :
    /\ alone[p] /\ Busy(p) => \A q \in Processes \ {p} : ~Busy(q)
    /\ alone[p] /\ at[p] = "insert" => version = 0
    /\ alone[p] => at[p] \notin {"collision", "locked"}
    /\ at[p] = "mismatch" => version # 0 /\ version # VersionOf[p]
    /\ at[p] = "badslots" => slots[p] = "negative"

\* The inductive invariant.
StartupInv == TypeOK /\ LockInv /\ FileInv /\ AloneInv

USE DEF Starting, Refusals, Places, Ended, Connected, Busy, Configurations

\* A file that is new, half-made or in use, and no process about.
LEMMA StartupStart == Init => StartupInv
  BY StartupAssumption
  DEF Init, StartupInv, TypeOK, LockInv, FileInv, AloneInv, Processes, Versions

\* A version that has been written is never 0.
LEMMA VersionsArePositive == \A p \in Processes : VersionOf[p] \in Versions /\ VersionOf[p] # 0
  BY StartupAssumption DEF Versions, Processes

\* What loading the configuration does to alone, without its definition: who
\* goes on starting while p comes is not alone any more.
LEMMA LoadAlone ==
  ASSUME TypeOK, NEW p \in Processes, Load(p)
  PROVE  /\ alone' \in [Processes -> BOOLEAN]
         /\ \/ at' = [at EXCEPT ![p] = "unconfigured"] /\ UNCHANGED <<slots, alone>>
            \/ /\ at' = [at EXCEPT ![p] = "create"]
               /\ slots' \in [Processes -> {"negative", "valid"}]
               /\ \A q \in Processes \ {p} : slots'[q] = slots[q]
               /\ \A q \in Processes \ {p} : alone'[q] => alone[q] /\ ~Busy(q)
               /\ alone'[p] => \A r \in Processes \ {p} : ~Busy(r)
  <1>1. CASE conf \in {"missing", "invalid"}
    BY <1>1 DEF Load, Goes, TypeOK
  <1>2. CASE conf \in {"negative", "valid"}
    <2> DEFINE A == [q \in Processes |->
             IF q = p THEN \A r \in Processes \ {p} : ~Busy(r) ELSE alone[q] /\ ~Busy(q)]
    <2>1. alone' = A /\ slots' = [slots EXCEPT ![p] = conf] /\ at' = [at EXCEPT ![p] = "create"]
      BY <1>2 DEF Load, Goes
    <2>2. A[p] = \A r \in Processes \ {p} : ~Busy(r)
      BY Zenon
    <2>3. \A q \in Processes \ {p} : A[q] = (alone[q] /\ ~Busy(q))
      BY Zenon
    <2>4. alone \in [Processes -> BOOLEAN]
      BY DEF TypeOK
    <2>5. A \in [Processes -> BOOLEAN]
      <3>1. \A q \in Processes :
              (IF q = p THEN \A r \in Processes \ {p} : ~Busy(r) ELSE alone[q] /\ ~Busy(q))
                \in BOOLEAN
        BY <2>4, Zenon
      <3>2. QED
        BY <3>1, Zenon
    <2> HIDE DEF A
    <2>6. /\ slots' \in [Processes -> {"negative", "valid"}]
          /\ \A q \in Processes \ {p} : slots'[q] = slots[q]
      BY <1>2, <2>1 DEF TypeOK
    <2>7. QED
      BY <2>1, <2>2, <2>3, <2>5, <2>6, Zenon
  <1>3. QED
    BY <1>1, <1>2 DEF Load

\* Every variable keeps its type.
LEMMA TypeStep == TypeOK /\ [Next]_vars => TypeOK'
  <1> SUFFICES ASSUME TypeOK, [Next]_vars PROVE TypeOK'
    OBVIOUS
  <1> USE StartupAssumption DEF TypeOK, Goes, fileVars
  <1>1. ASSUME NEW p \in Processes, Load(p) PROVE TypeOK'
    <2>1. UNCHANGED <<conf, fileVars, deaths>> /\ known' = [known EXCEPT ![p] = 0]
      BY <1>1 DEF Load
    <2>2. QED
      BY <1>1, <2>1, LoadAlone
  <1>2. ASSUME NEW p \in Processes, Process(p) PROVE TypeOK'
    <2>1. CASE CreateTable(p) \/ CheckVersion(p) \/ InsertVersion(p)
      BY <2>1 DEF CreateTable, CheckVersion, InsertVersion, AfterConnect
    <2>2. CASE CommitVersion(p) \/ Seed(p) \/ CommitSeed(p) \/ Identify(p)
      BY <2>2, VersionsArePositive DEF CommitVersion, Seed, CommitSeed, Identify, AfterConnect
    <2>3. CASE Work(p) \/ FinishCommand(p)
      BY <2>3 DEF Work, FinishCommand
    <2>4. QED
      BY <1>2, <2>1, <2>2, <2>3 DEF Process
  <1>3. ASSUME NEW p \in Processes,
               BeginLog(p) \/ EndLog(p) \/ Stop(p) \/ LockedOut(p) \/ Die(p)
        PROVE  TypeOK'
    BY <1>3 DEF BeginLog, EndLog, Stop, LockedOut, Die
  <1>4. CASE Configure \/ UNCHANGED vars
    BY <1>4 DEF Configure, vars
  <1>5. QED
    BY <1>1, <1>2, <1>3, <1>4 DEF Next

\* Every step keeps the invariant.
LEMMA StartupStep == StartupInv /\ [Next]_vars => StartupInv'
  <1> SUFFICES ASSUME StartupInv, [Next]_vars PROVE StartupInv'
    OBVIOUS
  <1>1. TypeOK /\ TypeOK'
    BY TypeStep DEF StartupInv
  <1> USE StartupAssumption, VersionsArePositive, <1>1
      DEF StartupInv, TypeOK, LockInv, FileInv, AloneInv, Goes, fileVars
  <1>2. ASSUME NEW p \in Processes, Load(p) PROVE StartupInv'
    <2>1. /\ UNCHANGED <<conf, fileVars, deaths>> /\ known' = [known EXCEPT ![p] = 0]
          /\ at[p] \in Ended
      BY <1>2 DEF Load
    <2>2. QED
      BY <1>2, <2>1, LoadAlone
  <1>3. ASSUME NEW p \in Processes, CreateTable(p) PROVE StartupInv'
    BY <1>3 DEF CreateTable
  <1>4. ASSUME NEW p \in Processes, CheckVersion(p) PROVE StartupInv'
    BY <1>4 DEF CheckVersion, AfterConnect
  <1>5. ASSUME NEW p \in Processes, InsertVersion(p) PROVE StartupInv'
    BY <1>5 DEF InsertVersion
  <1>6. ASSUME NEW p \in Processes, CommitVersion(p) PROVE StartupInv'
    BY <1>6 DEF CommitVersion, AfterConnect
  <1>7. ASSUME NEW p \in Processes, Seed(p) PROVE StartupInv'
    BY <1>7 DEF Seed
  <1>8. ASSUME NEW p \in Processes, CommitSeed(p) PROVE StartupInv'
    BY <1>8 DEF CommitSeed
  <1>9. ASSUME NEW p \in Processes, Identify(p) PROVE StartupInv'
    BY <1>9 DEF Identify
  <1>10. ASSUME NEW p \in Processes, Work(p) \/ FinishCommand(p) PROVE StartupInv'
    BY <1>10 DEF Work, FinishCommand
  <1>11. ASSUME NEW p \in Processes, BeginLog(p) \/ EndLog(p) \/ Stop(p) PROVE StartupInv'
    BY <1>11 DEF BeginLog, EndLog, Stop
  <1>12. ASSUME NEW p \in Processes, LockedOut(p) PROVE StartupInv'
    BY <1>12 DEF LockedOut
  <1>13. ASSUME NEW p \in Processes, Die(p) PROVE StartupInv'
    BY <1>13 DEF Die
  <1>14. CASE Configure \/ UNCHANGED vars
    BY <1>14 DEF Configure, vars
  <1>15. QED
    BY <1>2, <1>3, <1>4, <1>5, <1>6, <1>7, <1>8, <1>9, <1>10, <1>11, <1>12, <1>13, <1>14
    DEF Next, Process

\* The invariant holds throughout.
LEMMA StartupHolds == Spec => []StartupInv
  BY StartupStart, StartupStep, PTL DEF Spec

\* No two releases ever work on one file, nobody on a schema that is not
\* complete, and a gateway that is up names the row that is in the file.
THEOREM RunningAgreeHolds == Spec => []RunningAgree
  <1>1. StartupInv => RunningAgree
    BY DEF StartupInv, FileInv, RunningAgree, Processes
  <1>2. QED
    BY <1>1, StartupHolds, PTL

\* No death leaves a file on which a start that is alone is refused.
THEOREM RefusedForCauseHolds == Spec => []RefusedForCause
  <1>1. StartupInv => RefusedForCause
    BY DEF StartupInv, AloneInv, RefusedForCause
  <1>2. QED
    BY <1>1, StartupHolds, PTL
==============================================================================
