-------------------------- MODULE AdminLoginProofs ---------------------------
(****************************************************************************)
(* Theorems of AdminLogin, for any number of logins, addresses and `admin   *)
(* init` processes, and any lengths of windows and sessions: about the      *)
(* sessions, admin init and the login limiter, each with its own invariant. *)
(****************************************************************************)
EXTENDS AdminLogin, FiniteSetTheorems, TLAPS

\* The type of the sessions and of the `admin init` processes.
StoreTypeOK ==
  /\ now \in Nat \ {0}
  /\ expires \in [Logins -> Nat]
  /\ created \in [Logins -> Nat]
  /\ seen \in [Logins -> Nat]
  /\ ended \subseteq Logins

SetupTypeOK ==
  /\ admin \in Inits \cup {Nobody}
  /\ setup \in [Inits -> {"new", "prompt", "recheck", "write", "done"}]
  /\ late \subseteq Inits

\* A session in the store was created here, is not ended, and expires when it
\* should.
SessionsStand ==
  \A s \in Logins :
    /\ expires[s] # 0 => /\ expires[s] = created[s] + SessionTtl
                         /\ created[s] # 0
                         /\ s \notin ended
    /\ at[s] # "done" => created[s] = 0 /\ s \notin ended

\* An init whose prompt was answered too late has yet to look again, and will
\* find the administrator; or it is over.
InitsStand ==
  \A i \in late : admin # Nobody /\ setup[i] \in {"recheck", "done"}

StoreInv == StoreTypeOK /\ at \in [Logins -> {"new", "body", "verify", "blocked", "done"}]
            /\ SessionsStand

SetupInv == SetupTypeOK /\ InitsStand

------------------------------------------------------------------------------
(* Sessions *)

\* The store is empty at first.
LEMMA StoreStart == Init => StoreInv
  BY DEF Init, NoSessions, StoreInv, StoreTypeOK, SessionsStand

\* What the steps that do not touch the store say about it.
LEMMA StoreFrame ==
  ASSUME StoreInv, UNCHANGED <<at, sessionVars>>, now' \in Nat \ {0}
  PROVE  StoreInv'
  BY DEF StoreInv, StoreTypeOK, SessionsStand, sessionVars

\* A login moves; only a successful one creates its session.
LEMMA LoginKeepsStore ==
  ASSUME StoreInv, NEW a \in Logins,
         LoginArrives(a) \/ LoginReads(a) \/ LoginFails(a) \/ LoginSucceeds(a)
  PROVE  StoreInv'
  <1>1. CASE LoginArrives(a) \/ LoginReads(a) \/ LoginFails(a)
    <2>1. /\ \E l \in {"body", "verify", "blocked", "done"} : at' = [at EXCEPT ![a] = l]
          /\ UNCHANGED <<now, sessionVars>> /\ at[a] # "done"
      BY <1>1 DEF LoginArrives, LoginReads, LoginFails, Answers
    <2> QED BY <2>1 DEF StoreInv, StoreTypeOK, SessionsStand, sessionVars
  <1>2. CASE LoginSucceeds(a)
    <2>1. /\ at[a] = "verify" /\ at' = [at EXCEPT ![a] = "done"] /\ now \in Nat \ {0}
          /\ expires' = [expires EXCEPT ![a] = now + SessionTtl]
          /\ created' = [created EXCEPT ![a] = now]
          /\ UNCHANGED <<now, seen, ended>>
      BY <1>2 DEF LoginSucceeds, Answers, StoreInv, StoreTypeOK
    <2>2. a \notin ended
      BY <2>1 DEF StoreInv, SessionsStand
    <2>3. now + SessionTtl \in Nat
      BY <2>1, LoginAssumption
    <2> QED BY <2>1, <2>2, <2>3 DEF StoreInv, StoreTypeOK, SessionsStand
  <1> QED BY <1>1, <1>2

\* Looking a session up, logging it out, losing it.
LEMMA StoreStep ==
  ASSUME StoreInv, [Next]_vars
  PROVE  StoreInv'
  <1>1. ASSUME NEW i \in Inits,
               InitLooks(i) \/ InitAnswers(i) \/ InitRechecks(i) \/ InitWrites(i)
        PROVE  StoreInv'
    BY <1>1, StoreFrame
    DEF InitLooks, InitAnswers, InitRechecks, InitWrites, GatewayIdle, StoreInv, StoreTypeOK
  <1>2. ASSUME NEW a \in Logins,
               LoginArrives(a) \/ LoginReads(a) \/ LoginFails(a) \/ LoginSucceeds(a)
        PROVE  StoreInv'
    BY <1>2, LoginKeepsStore
  <1>3. ASSUME NEW s \in Logins,
               Page(s) \/ ApiCall(s) \/ ApiCallEnds(s) \/ ApiLogout(s) \/ WebLogout(s)
        PROVE  StoreInv'
    <2>1. CASE Page(s) \/ ApiCall(s)
      <3>1. Lookup(s)
        BY <2>1 DEF Page, ApiCall
      <3> QED BY <3>1 DEF Lookup, NoLogin, StoreInv, StoreTypeOK, SessionsStand
    <2>2. CASE ApiCallEnds(s)
      BY <2>2 DEF ApiCallEnds, NoLogin, StoreInv, StoreTypeOK, SessionsStand
    <2>3. CASE ApiLogout(s) \/ WebLogout(s)
      <3>1. Delete(s)
        BY <2>3 DEF ApiLogout, WebLogout
      <3> QED BY <3>1 DEF Delete, NoLogin, StoreInv, StoreTypeOK, SessionsStand
    <2> QED BY <1>3, <2>1, <2>2, <2>3
  <1>4. CASE Tick
    BY <1>4, StoreFrame DEF Tick, StoreInv, StoreTypeOK
  <1>5. CASE Restart
    <2>1. /\ expires' = [s \in Logins |-> 0] /\ ended' = { s \in Logins : created[s] # 0 }
          /\ at' = [a \in Logins |-> IF at[a] \in {"body", "verify"} THEN "done" ELSE at[a]]
          /\ UNCHANGED <<now, created, seen>>
      BY <1>5 DEF Restart, NoSessions
    <2> QED BY <2>1 DEF StoreInv, StoreTypeOK, SessionsStand
  <1>6. CASE UNCHANGED vars
    BY <1>6, StoreFrame DEF vars, StoreInv, StoreTypeOK
  <1> QED BY <1>1, <1>2, <1>3, <1>4, <1>5, <1>6 DEF Next

\* What finds a session valid, or lets a call in, is a lookup.
LEMMA FoundByLookup ==
  ASSUME [Next]_vars, NEW s \in Logins, seen'[s] # seen[s] \/ s \in working' \ working
  PROVE  \E q \in Logins : /\ Lookup(q)
                           /\ s \in working' \ working => q = s /\ ~Expired(q)
  <1>1. ASSUME NEW q \in Logins, Page(q) \/ ApiCall(q)
        PROVE  Lookup(q) /\ (s \in working' \ working => q = s /\ ~Expired(q))
    BY <1>1 DEF Page, ApiCall
  <1>2. ASSUME NEW q \in Logins, ApiCallEnds(q) \/ ApiLogout(q) \/ WebLogout(q)
        PROVE  FALSE
    BY <1>2 DEF ApiCallEnds, ApiLogout, WebLogout, Delete
  <1>3. ASSUME NEW a \in Logins, LoginArrives(a) \/ LoginReads(a) \/ LoginFails(a)
                                 \/ LoginSucceeds(a)
        PROVE  FALSE
    BY <1>3 DEF LoginArrives, LoginReads, LoginFails, LoginSucceeds, sessionVars
  <1>4. ASSUME NEW i \in Inits,
               InitLooks(i) \/ InitAnswers(i) \/ InitRechecks(i) \/ InitWrites(i)
        PROVE  FALSE
    BY <1>4 DEF InitLooks, InitAnswers, InitRechecks, InitWrites, GatewayIdle, sessionVars
  <1>5. CASE Tick \/ Restart \/ UNCHANGED vars
    BY <1>5 DEF Tick, Restart, vars, sessionVars
  <1> QED BY <1>1, <1>2, <1>3, <1>4, <1>5 DEF Next

\* No session outlives its logout, its time or its process.
THEOREM ValidOnlyWhileAliveHolds == Spec => ValidOnlyWhileAlive
  <1>1. ASSUME StoreInv, [Next]_vars, NEW s \in Logins,
               seen'[s] # seen[s] \/ s \in working' \ working
        PROVE  s \notin ended /\ created[s] # 0 /\ now < created[s] + SessionTtl
    <2>1. PICK q \in Logins : /\ Lookup(q)
                              /\ s \in working' \ working => q = s /\ ~Expired(q)
      BY <1>1, FoundByLookup
    <2>2. q = s /\ ~Expired(s)
      BY <1>1, <2>1 DEF Lookup, StoreInv, StoreTypeOK
    <2>3. expires[s] # 0
      BY <1>1, <2>2 DEF Expired, StoreInv, StoreTypeOK
    <2>4. expires[s] = created[s] + SessionTtl /\ created[s] # 0 /\ s \notin ended
      BY <1>1, <2>3 DEF StoreInv, SessionsStand
    <2> QED BY <1>1, <2>2, <2>4, LoginAssumption DEF Expired, StoreInv, StoreTypeOK
  <1>2. StoreInv /\ [Next]_vars =>
          [\A s \in Logins : seen'[s] # seen[s] \/ s \in working' \ working =>
             /\ s \notin ended
             /\ created[s] # 0
             /\ now < created[s] + SessionTtl]_vars
    BY <1>1
  <1>3. StoreInv /\ [Next]_vars => StoreInv'
    BY StoreStep
  <1> QED BY <1>2, <1>3, StoreStart, PTL DEF Spec, ValidOnlyWhileAlive

------------------------------------------------------------------------------
(* admin init *)

\* Nobody has answered a prompt at first.
LEMMA SetupStart == Init => SetupInv
  BY DEF Init, SetupInv, SetupTypeOK, InitsStand

AtSession(s) ==
  Page(s) \/ ApiCall(s) \/ ApiCallEnds(s) \/ ApiLogout(s) \/ WebLogout(s)

\* What is done with a session has nothing to do with admin init.
LEMMA SessionsLeaveSetup ==
  ASSUME NEW s \in Logins, AtSession(s)
  PROVE  UNCHANGED cliVars
  BY DEF AtSession, Page, ApiCall, ApiCallEnds, ApiLogout, WebLogout, Lookup, Delete, NoLogin

\* An administrator stays one, and who came late is stopped by the second look.
LEMMA SetupStep ==
  ASSUME SetupInv, [Next]_vars
  PROVE  SetupInv'
  <1>1. ASSUME NEW i \in Inits, InitLooks(i) PROVE SetupInv'
    BY <1>1 DEF InitLooks, Sets, SetupInv, SetupTypeOK, InitsStand
  <1>2. ASSUME NEW i \in Inits, InitAnswers(i) PROVE SetupInv'
    BY <1>2 DEF InitAnswers, Sets, SetupInv, SetupTypeOK, InitsStand
  <1>3. ASSUME NEW i \in Inits, InitRechecks(i) PROVE SetupInv'
    BY <1>3 DEF InitRechecks, Sets, SetupInv, SetupTypeOK, InitsStand
  <1>4. ASSUME NEW i \in Inits, InitWrites(i) PROVE SetupInv'
    BY <1>4, LoginAssumption DEF InitWrites, Sets, SetupInv, SetupTypeOK, InitsStand
  <1>5. ASSUME UNCHANGED cliVars PROVE SetupInv'
    BY <1>5 DEF cliVars, SetupInv, SetupTypeOK, InitsStand
  <1>6. ASSUME NEW a \in Logins, LoginArrives(a) \/ LoginReads(a) \/ LoginFails(a)
                                 \/ LoginSucceeds(a) \/ AtSession(a)
        PROVE  UNCHANGED cliVars
    BY <1>6, SessionsLeaveSetup DEF LoginArrives, LoginReads, LoginFails, LoginSucceeds
  <1>7. CASE Tick \/ Restart \/ UNCHANGED vars
    BY <1>5, <1>7 DEF Tick, Restart, vars
  <1> QED BY <1>1, <1>2, <1>3, <1>4, <1>5, <1>6, <1>7 DEF Next, AtSession

\* A password is only replaced by an init that raced with the one that set it.
THEOREM ReplacedOnlyInRaceHolds == Spec => ReplacedOnlyInRace
  <1>1. ASSUME SetupInv, [Next]_vars, admin' # admin PROVE admin' \in Inits \ late
    <2>1. ASSUME NEW i \in Inits, InitWrites(i) PROVE admin' \in Inits \ late
      BY <1>1, <2>1 DEF InitWrites, SetupInv, InitsStand
    <2>2. ASSUME NEW i \in Inits, InitLooks(i) \/ InitAnswers(i) \/ InitRechecks(i)
          PROVE  admin' = admin
      BY <2>2 DEF InitLooks, InitAnswers, InitRechecks
    <2>3. ASSUME NEW a \in Logins, LoginArrives(a) \/ LoginReads(a) \/ LoginFails(a)
                                   \/ LoginSucceeds(a) \/ AtSession(a)
          PROVE  admin' = admin
      BY <2>3, SessionsLeaveSetup
      DEF LoginArrives, LoginReads, LoginFails, LoginSucceeds, cliVars
    <2>4. CASE Tick \/ Restart \/ UNCHANGED vars
      BY <1>1, <2>4 DEF Tick, Restart, vars, cliVars
    <2> QED BY <1>1, <2>1, <2>2, <2>3, <2>4 DEF Next, AtSession
  <1>2. SetupInv /\ [Next]_vars =>
          [admin # Nobody /\ admin' # admin => admin' \in Inits \ late]_vars
    BY <1>1
  <1>3. SetupInv /\ [Next]_vars => SetupInv'
    BY SetupStep
  <1> QED BY <1>2, <1>3, SetupStart, PTL DEF Spec, ReplacedOnlyInRace
------------------------------------------------------------------------------
(* The limiter *)

LimiterTypeOK ==
  /\ now \in Nat \ {0}
  /\ at \in [Logins -> {"new", "body", "verify", "blocked", "done"}]
  /\ from \in [Logins -> Origins]
  /\ failures \in [Origins -> SUBSET Logins]
  /\ stamp \in [Logins -> Nat]
  /\ failed \in [Origins -> SUBSET Logins]
  /\ crowd \in [Origins -> Nat]

\* What the limiter has of an address are failures since its last success, of
\* logins that are over, and all those of the window that ends now.
FailuresKept ==
  \A o \in Origins :
    /\ failures[o] \subseteq failed[o]
    /\ \A a \in failed[o] : /\ at[a] = "done"
                            /\ stamp[a] <= now
                            /\ stamp[a] + LoginWindow > now => a \in failures[o]

\* Who is in flight may still fail: with the failures of any window it makes at
\* most one less than MaxFailures and the crowd.
Pending(o) == Cardinality(InFlight(o))

Count(o, t) == Cardinality(Recent(failed[o], t))

AddressCounts(o) ==
  /\ Pending(o) <= crowd[o]
  /\ crowd[o] = 0 => failed[o] = {}
  /\ crowd[o] # 0 => Count(o, now) + Pending(o) + 1 <= MaxFailures + crowd[o]
  /\ crowd[o] # 0 => \A t \in 1..now : Count(o, t) + 1 <= MaxFailures + crowd[o]

CrowdCounts == \A o \in Origins : AddressCounts(o)

\* The inductive invariant.
LimiterInv == LimiterTypeOK /\ FailuresKept /\ CrowdCounts

\* Sets of logins can be counted, and a part never counts more than the whole.
LEMMA LoginSets ==
  ASSUME NEW S \in SUBSET Logins
  PROVE  /\ IsFiniteSet(S)
         /\ Cardinality(S) \in Nat
         /\ \A R \in SUBSET S : Cardinality(R) \in Nat /\ Cardinality(R) <= Cardinality(S)
  <1>1. IsFiniteSet(S)
    BY LoginAssumption, FS_Subset
  <1>2. Cardinality(S) \in Nat
    BY <1>1, FS_CardinalityType
  <1>3. \A R \in SUBSET S : Cardinality(R) \in Nat /\ Cardinality(R) <= Cardinality(S)
    BY <1>1, FS_Subset, FS_CardinalityType
  <1> QED BY <1>1, <1>2, <1>3

\* One login more or less.
LEMMA OneLogin ==
  ASSUME NEW S \in SUBSET Logins, NEW a \in Logins
  PROVE  /\ a \notin S => Cardinality(S \cup {a}) = Cardinality(S) + 1
         /\ a \in S => Cardinality(S \ {a}) + 1 = Cardinality(S)
  <1>1. IsFiniteSet(S) /\ Cardinality(S) \in Nat /\ Cardinality(S \ {a}) \in Nat
    BY LoginSets
  <1>2. Cardinality(S \cup {a}) = IF a \in S THEN Cardinality(S) ELSE Cardinality(S) + 1
    BY <1>1, FS_AddElement
  <1>3. Cardinality(S \ {a}) = IF a \in S THEN Cardinality(S) - 1 ELSE Cardinality(S)
    BY <1>1, FS_RemoveElement
  <1> QED BY <1>1, <1>2, <1>3

\* Nobody has failed yet.
LEMMA LimiterStart == Init => LimiterInv
  <1> SUFFICES ASSUME Init PROVE LimiterInv
    OBVIOUS
  <1>1. LimiterTypeOK /\ FailuresKept
    BY DEF Init, NoFailures, LimiterTypeOK, FailuresKept
  <1>2. \A o \in Origins : InFlight(o) = {} /\ crowd[o] = 0 /\ failed[o] = {}
    BY DEF Init, InFlight, NoFailures
  <1>3. CrowdCounts
    <2> SUFFICES ASSUME NEW o \in Origins PROVE AddressCounts(o)
      BY DEF CrowdCounts
    <2>1. Pending(o) = 0
      BY <1>2, FS_EmptySet DEF Pending
    <2> QED BY <1>2, <2>1 DEF AddressCounts
  <1> QED BY <1>1, <1>3 DEF LimiterInv

\* In the window that ends now the limiter counts what there is to count.
LEMMA LimiterSeesAll ==
  ASSUME LimiterInv, NEW o \in Origins
  PROVE  Recent(failures[o], now) = Recent(failed[o], now)
  BY DEF LimiterInv, FailuresKept, Recent

\* The counts are natural numbers.
CountsTypeOK == \A o \in Origins : Pending(o) \in Nat /\ \A t : Count(o, t) \in Nat

LEMMA CountTypes == LimiterTypeOK => CountsTypeOK
  <1> SUFFICES ASSUME LimiterTypeOK, NEW o \in Origins
               PROVE  Pending(o) \in Nat /\ \A t : Count(o, t) \in Nat
    BY DEF CountsTypeOK
  <1>1. InFlight(o) \in SUBSET Logins
    BY DEF InFlight
  <1>2. \A t : Recent(failed[o], t) \in SUBSET Logins
    BY DEF LimiterTypeOK, Recent
  <1> QED BY <1>1, <1>2, LoginSets DEF Pending, Count

LEMMA CountTypesNext == LimiterTypeOK' => CountsTypeOK'
  BY CountTypes, PTL

\* A step that leaves the counts of an address alone, or takes from them.
LEMMA FewerKeepCounts ==
  ASSUME LimiterInv, LimiterTypeOK', now' = now, NEW o \in Origins,
         crowd'[o] = crowd[o], \A a \in failed[o] : stamp'[a] = stamp[a],
         failed'[o] \subseteq failed[o], InFlight(o)' \subseteq InFlight(o)
  PROVE  AddressCounts(o)'
  <1>1. Pending(o)' <= Pending(o)
    <2>1. InFlight(o) \in SUBSET Logins
      BY DEF InFlight
    <2> QED BY <2>1, LoginSets DEF Pending
  <1>2. ASSUME NEW t PROVE Count(o, t)' <= Count(o, t)
    <2>1. Recent(failed[o], t) \in SUBSET Logins
      BY DEF LimiterInv, LimiterTypeOK, Recent
    <2>2. Recent(failed[o], t)' \subseteq Recent(failed[o], t)
      BY DEF Recent
    <2> QED BY <2>1, <2>2, LoginSets DEF Count
  <1>3. /\ Pending(o) \in Nat /\ Pending(o)' \in Nat /\ crowd[o] \in Nat
        /\ \A t : Count(o, t) \in Nat /\ Count(o, t)' \in Nat
    BY CountTypes, CountTypesNext DEF CountsTypeOK, LimiterInv, LimiterTypeOK
  <1>4. AddressCounts(o)
    BY DEF LimiterInv, CrowdCounts
  <1> HIDE DEF LimiterInv
  <1>5. Count(o, now)' <= Count(o, now)
    <2>1. Count(o, now)' = Cardinality(Recent(failed[o], now)') /\ now' = now
      BY DEF Count
    <2> QED BY <1>2, <2>1 DEF Count, Recent
  <1> QED BY <1>1, <1>2, <1>3, <1>4, <1>5, LoginAssumption DEF AddressCounts

\* A login is let in: one more in flight, and less than MaxFailures failures.
LEMMA LetInKeepsCounts ==
  ASSUME LimiterInv, LimiterTypeOK', NEW a \in Logins, NEW o \in Origins, o = from[a],
         LoginArrives(a), at'[a] = "body"
  PROVE  AddressCounts(o)'
  <1>1. /\ at[a] = "new" /\ at' = [at EXCEPT ![a] = "body"] /\ ~Blocked(o)
        /\ crowd' = [crowd EXCEPT ![o] = IF Pending(o) + 1 > @ THEN Pending(o) + 1 ELSE @]
        /\ UNCHANGED <<now, from, stamp, failed>>
    BY DEF LoginArrives, Answers, Pending, LimiterInv, LimiterTypeOK
  <1>2. /\ Pending(o) \in Nat /\ crowd[o] \in Nat
        /\ \A t : Count(o, t) \in Nat
    BY CountTypes DEF CountsTypeOK, LimiterInv, LimiterTypeOK
  <1>3. Pending(o)' = Pending(o) + 1
    <2>1. InFlight(o)' = InFlight(o) \cup {a} /\ a \notin InFlight(o)
      BY <1>1 DEF InFlight, LimiterInv, LimiterTypeOK
    <2>2. InFlight(o) \in SUBSET Logins
      BY DEF InFlight
    <2> QED BY <2>1, <2>2, OneLogin DEF Pending
  <1>4. \A t : Count(o, t)' = Count(o, t)
    BY <1>1 DEF Count, Recent
  <1>5. Count(o, now)' = Count(o, now)
    BY <1>1 DEF Count, Recent
  <1>6. Count(o, now) + 1 <= MaxFailures
    <2>1. ~(Count(o, now) >= MaxFailures)
      BY <1>1, LimiterSeesAll DEF Blocked, Count
    <2> QED BY <1>2, <2>1, LoginAssumption
  <1>7. crowd'[o] = IF Pending(o) + 1 > crowd[o] THEN Pending(o) + 1 ELSE crowd[o]
    BY <1>1 DEF LimiterInv, LimiterTypeOK
  <1>8. AddressCounts(o)
    BY DEF LimiterInv, CrowdCounts
  <1>9. crowd[o] = 0 => \A t : Count(o, t) = 0
    <2> SUFFICES ASSUME crowd[o] = 0, NEW t PROVE Count(o, t) = 0
      OBVIOUS
    <2>1. Recent(failed[o], t) = {}
      BY <1>8 DEF AddressCounts, Recent
    <2> QED BY <2>1, FS_EmptySet DEF Count
  <1>10. ASSUME NEW t \in 1..now PROVE Count(o, t) + 1 <= MaxFailures + crowd'[o]
    <2>1. CASE crowd[o] = 0
      BY <1>2, <1>7, <1>9, <2>1, LoginAssumption
    <2>2. CASE crowd[o] # 0
      <3>1. Count(o, t) + 1 <= MaxFailures + crowd[o]
        BY <1>8, <2>2 DEF AddressCounts
      <3> QED BY <1>2, <1>7, <3>1, LoginAssumption
    <2> QED BY <2>1, <2>2
  <1>11. Pending(o) <= crowd[o]
    BY <1>8 DEF AddressCounts
  <1> QED BY <1>1, <1>2, <1>3, <1>4, <1>5, <1>6, <1>7, <1>10, <1>11, LoginAssumption
          DEF AddressCounts

\* A login fails: one less in flight, one more among the failures of the window
\* that ends now, and none more in those that ended before.
LEMMA FailureKeepsCounts ==
  ASSUME LimiterInv, LimiterTypeOK', NEW a \in Logins, NEW o \in Origins, o = from[a],
         LoginFails(a)
  PROVE  AddressCounts(o)'
  <1>1. /\ at[a] = "verify" /\ at' = [at EXCEPT ![a] = "done"]
        /\ stamp' = [stamp EXCEPT ![a] = now]
        /\ failed' = [failed EXCEPT ![o] = @ \cup {a}]
        /\ UNCHANGED <<now, from, crowd>>
    BY DEF LoginFails, Answers, RecordFailure
  <1>2. /\ Pending(o) \in Nat /\ crowd[o] \in Nat /\ now \in Nat
        /\ \A t : Count(o, t) \in Nat
        /\ Pending(o)' \in Nat
    BY CountTypes, CountTypesNext DEF CountsTypeOK, LimiterInv, LimiterTypeOK
  <1>3. Pending(o)' + 1 = Pending(o)
    <2>1. InFlight(o)' = InFlight(o) \ {a} /\ a \in InFlight(o)
      BY <1>1 DEF InFlight, LimiterInv, LimiterTypeOK
    <2>2. InFlight(o) \in SUBSET Logins
      BY DEF InFlight
    <2> QED BY <2>1, <2>2, OneLogin DEF Pending
  <1>4. /\ failed'[o] = failed[o] \cup {a} /\ a \notin failed[o]
        /\ \A b \in failed[o] : stamp'[b] = stamp[b]
        /\ stamp'[a] = now
    BY <1>1 DEF LimiterInv, LimiterTypeOK, FailuresKept
  <1>5. Count(o, now)' = Count(o, now) + 1
    <2>1. Recent(failed[o], now)' = Recent(failed[o], now) \cup {a}
      BY <1>1, <1>2, <1>4, LoginAssumption DEF Recent
    <2>2. Recent(failed[o], now) \in SUBSET Logins /\ a \notin Recent(failed[o], now)
      BY <1>4 DEF LimiterInv, LimiterTypeOK, Recent
    <2> QED BY <2>1, <2>2, OneLogin DEF Count
  <1>6. ASSUME NEW t \in 1..now, t # now PROVE Count(o, t)' = Count(o, t)
    <2>1. ~(now <= t)
      BY <1>2, <1>6
    <2>2. Recent(failed[o], t)' = Recent(failed[o], t)
      BY <1>4, <2>1 DEF Recent
    <2> QED BY <2>2 DEF Count
  <1>7. AddressCounts(o)
    BY DEF LimiterInv, CrowdCounts
  <1>8. Count(o, now)' + Pending(o)' + 1 <= MaxFailures + crowd[o] /\ crowd[o] # 0
    BY <1>2, <1>3, <1>5, <1>7, LoginAssumption DEF AddressCounts
  <1>9. ASSUME NEW t \in 1..now PROVE Count(o, t)' + 1 <= MaxFailures + crowd[o]
    <2>1. CASE t = now
      <3>1. Count(o, t)' = Count(o, now)'
        BY <1>1, <2>1 DEF Count, Recent
      <3> QED BY <1>2, <1>5, <1>8, <3>1, LoginAssumption
    <2>2. CASE t # now
      BY <1>6, <1>7, <1>8, <2>2 DEF AddressCounts
    <2> QED BY <2>1, <2>2
  <1>10. Pending(o)' <= crowd[o]
    BY <1>2, <1>3, <1>7 DEF AddressCounts
  <1> QED BY <1>1, <1>8, <1>9, <1>10 DEF AddressCounts

\* Time passes: failures leave the window that ends now, none comes to the others.
LEMMA TickKeepsCounts ==
  ASSUME LimiterInv, LimiterTypeOK', Tick, NEW o \in Origins
  PROVE  AddressCounts(o)'
  <1>1. now' = now + 1 /\ UNCHANGED <<at, from, stamp, failed, crowd>>
    BY DEF Tick, limiterVars
  <1>2. /\ Pending(o) \in Nat /\ crowd[o] \in Nat /\ now \in Nat \ {0}
        /\ \A t : Count(o, t) \in Nat
    BY CountTypes DEF CountsTypeOK, LimiterInv, LimiterTypeOK
  <1>3. Pending(o)' = Pending(o) /\ \A t : Count(o, t)' = Count(o, t)
    BY <1>1 DEF Pending, InFlight, Count, Recent
  <1>4. Count(o, now + 1) <= Count(o, now)
    <2>1. Recent(failed[o], now) \in SUBSET Logins
      BY DEF LimiterInv, LimiterTypeOK, Recent
    <2>2. Recent(failed[o], now + 1) \subseteq Recent(failed[o], now)
      BY LoginAssumption DEF LimiterInv, LimiterTypeOK, FailuresKept, Recent
    <2> QED BY <2>1, <2>2, LoginSets DEF Count
  <1>5. Count(o, now)' = Count(o, now + 1)
    BY <1>1 DEF Count, Recent
  <1>6. AddressCounts(o)
    BY DEF LimiterInv, CrowdCounts
  <1>7. crowd[o] # 0 => Count(o, now + 1) + Pending(o) + 1 <= MaxFailures + crowd[o]
    BY <1>2, <1>4, <1>6, LoginAssumption DEF AddressCounts
  <1>8. ASSUME crowd[o] # 0, NEW t \in 1..(now + 1)
        PROVE  Count(o, t) + 1 <= MaxFailures + crowd[o]
    <2>1. CASE t = now + 1
      BY <1>2, <1>7, <1>8, <2>1, LoginAssumption
    <2>2. CASE t \in 1..now
      BY <1>6, <1>8, <2>2 DEF AddressCounts
    <2> QED BY <1>2, <2>1, <2>2
  <1> QED BY <1>1, <1>3, <1>5, <1>6, <1>7, <1>8 DEF AddressCounts

\* The steps of a login that neither fails nor is let in.
LEMMA QuietLoginKeepsLimiter ==
  ASSUME LimiterInv, LimiterTypeOK', NEW a \in Logins,
         LoginReads(a) \/ LoginSucceeds(a) \/ (LoginArrives(a) /\ at'[a] # "body")
  PROVE  FailuresKept' /\ CrowdCounts'
  <1>1. /\ \E l \in {"verify", "blocked", "done"} :
             at' = [at EXCEPT ![a] = l] /\ (l = "verify" => at[a] = "body")
        /\ at[a] # "done"
        /\ UNCHANGED <<now, from, stamp, crowd>>
        /\ \A o \in Origins :
             \/ failed'[o] = {} /\ failures'[o] = {}
             \/ failed'[o] = failed[o] /\ failures'[o] \in {failures[o], Pruned(o)}
    <2>1. CASE LoginReads(a)
      BY <2>1 DEF LoginReads, Answers, limiterVars
    <2>2. CASE LoginSucceeds(a)
      BY <2>2 DEF LoginSucceeds, Answers, Reset, LimiterInv, LimiterTypeOK
    <2>3. CASE LoginArrives(a) /\ at'[a] # "body"
      BY <2>3 DEF LoginArrives, Answers, LimiterInv, LimiterTypeOK
    <2> QED BY <2>1, <2>2, <2>3
  <1>2. FailuresKept'
    BY <1>1 DEF LimiterInv, LimiterTypeOK, FailuresKept, Pruned
  <1>3. \A o \in Origins : InFlight(o)' \subseteq InFlight(o) /\ failed'[o] \subseteq failed[o]
    BY <1>1 DEF InFlight, LimiterInv, LimiterTypeOK
  <1>4. CrowdCounts'
    BY <1>1, <1>3, FewerKeepCounts DEF CrowdCounts
  <1> QED BY <1>2, <1>4

\* What one address does leaves the counts of the others alone.
LEMMA OthersKeepCounts ==
  ASSUME LimiterInv, LimiterTypeOK', NEW a \in Logins, NEW o \in Origins, o # from[a],
         LoginArrives(a) \/ LoginFails(a)
  PROVE  AddressCounts(o)'
  <1>1. /\ \E l \in {"body", "blocked", "done"} : at' = [at EXCEPT ![a] = l]
        /\ UNCHANGED <<now, from>>
        /\ crowd'[o] = crowd[o] /\ failed'[o] = failed[o]
        /\ \A b \in Logins \ {a} : stamp'[b] = stamp[b]
        /\ LoginArrives(a) => stamp' = stamp
        /\ LoginFails(a) => at[a] = "verify"
    BY DEF LoginArrives, LoginFails, Answers, RecordFailure, LimiterInv, LimiterTypeOK
  <1>2. \A b \in failed[o] : stamp'[b] = stamp[b]
    BY <1>1 DEF LimiterInv, LimiterTypeOK, FailuresKept
  <1>3. InFlight(o)' \subseteq InFlight(o)
    BY <1>1 DEF InFlight, LimiterInv, LimiterTypeOK
  <1> QED BY <1>1, <1>2, <1>3, FewerKeepCounts

\* A login that is let in, or fails.
LEMMA LoginKeepsLimiter ==
  ASSUME LimiterInv, LimiterTypeOK', NEW a \in Logins,
         LoginFails(a) \/ (LoginArrives(a) /\ at'[a] = "body")
  PROVE  FailuresKept' /\ CrowdCounts'
  <1>1. CrowdCounts'
    BY LetInKeepsCounts, FailureKeepsCounts, OthersKeepCounts DEF CrowdCounts
  <1>2. CASE LoginArrives(a)
    <2>1. /\ at[a] = "new" /\ \E l \in {"body", "blocked"} : at' = [at EXCEPT ![a] = l]
          /\ failures' = [failures EXCEPT ![from[a]] = Pruned(from[a])]
          /\ UNCHANGED <<now, from, stamp, failed>>
      BY <1>2 DEF LoginArrives, Answers
    <2>2. FailuresKept'
      BY <2>1 DEF LimiterInv, LimiterTypeOK, FailuresKept, Pruned
    <2> QED BY <1>1, <2>2
  <1>3. CASE LoginFails(a)
    <2>1. /\ at[a] = "verify" /\ at' = [at EXCEPT ![a] = "done"]
          /\ failures' = [failures EXCEPT ![from[a]] = Pruned(from[a]) \cup {a}]
          /\ stamp' = [stamp EXCEPT ![a] = now]
          /\ failed' = [failed EXCEPT ![from[a]] = @ \cup {a}]
          /\ UNCHANGED <<now, from>>
      BY <1>3 DEF LoginFails, Answers, RecordFailure
    <2>2. from[a] \in Origins /\ now \in Nat /\ \A o \in Origins : a \notin failed[o]
      BY <2>1 DEF LimiterInv, LimiterTypeOK, FailuresKept
    <2>3. ASSUME NEW o \in Origins, NEW b \in failed'[o]
          PROVE  /\ at'[b] = "done" /\ stamp'[b] <= now
                 /\ stamp'[b] + LoginWindow > now => b \in failures'[o]
      <3>1. CASE b = a
        BY <2>1, <2>2, <2>3, <3>1 DEF LimiterInv, LimiterTypeOK
      <3>2. CASE b # a
        <4>1. b \in failed[o] /\ stamp'[b] = stamp[b] /\ at'[b] = at[b]
          BY <2>1, <2>2, <2>3, <3>2 DEF LimiterInv, LimiterTypeOK
        <4>2. /\ at[b] = "done" /\ stamp[b] <= now
              /\ stamp[b] + LoginWindow > now => b \in failures[o]
          BY <4>1 DEF LimiterInv, FailuresKept
        <4>3. stamp[b] + LoginWindow > now => b \in failures'[o]
          BY <2>1, <2>2, <4>2 DEF LimiterInv, LimiterTypeOK, Pruned
        <4> QED BY <4>1, <4>2, <4>3
      <3> QED BY <3>1, <3>2
    <2>4. \A o \in Origins : failures'[o] \subseteq failed'[o]
      BY <2>1, <2>2 DEF LimiterInv, LimiterTypeOK, FailuresKept, Pruned
    <2>5. FailuresKept'
      BY <2>1, <2>3, <2>4 DEF FailuresKept
    <2> QED BY <1>1, <2>5
  <1> QED BY <1>2, <1>3

\* Every variable of the limiter keeps its type.
LEMMA LimiterTypeStep == LimiterTypeOK /\ [Next]_vars => LimiterTypeOK'
  <1> SUFFICES ASSUME LimiterTypeOK, [Next]_vars PROVE LimiterTypeOK'
    OBVIOUS
  <1>1. ASSUME NEW i \in Inits,
               InitLooks(i) \/ InitAnswers(i) \/ InitRechecks(i) \/ InitWrites(i)
        PROVE  LimiterTypeOK'
    BY <1>1 DEF InitLooks, InitAnswers, InitRechecks, InitWrites, GatewayIdle, limiterVars,
                LimiterTypeOK
  <1>2. ASSUME NEW a \in Logins, LoginArrives(a) PROVE LimiterTypeOK'
    <2>1. Pending(from[a]) + 1 \in Nat /\ Pruned(from[a]) \in SUBSET Logins
      BY CountTypes DEF CountsTypeOK, LimiterTypeOK, Pruned
    <2> QED BY <1>2, <2>1 DEF LoginArrives, Answers, Pending, LimiterTypeOK
  <1>3. ASSUME NEW a \in Logins, LoginReads(a) \/ LoginFails(a) \/ LoginSucceeds(a)
        PROVE  LimiterTypeOK'
    BY <1>3 DEF LoginReads, LoginFails, LoginSucceeds, Answers, RecordFailure, Reset, Pruned,
                limiterVars, LimiterTypeOK
  <1>4. ASSUME NEW s \in Logins, AtSession(s) PROVE LimiterTypeOK'
    BY <1>4 DEF AtSession, Page, ApiCall, ApiCallEnds, ApiLogout, WebLogout, Lookup, Delete,
                NoLogin, limiterVars, LimiterTypeOK
  <1>5. CASE Tick \/ Restart \/ UNCHANGED vars
    BY <1>5 DEF Tick, Restart, NoFailures, vars, limiterVars, LimiterTypeOK
  <1> QED BY <1>1, <1>2, <1>3, <1>4, <1>5 DEF Next, AtSession

\* Every step keeps the limiter's invariant.
LEMMA LimiterStep == LimiterInv /\ [Next]_vars => LimiterInv'
  <1> SUFFICES ASSUME LimiterInv, [Next]_vars PROVE LimiterInv'
    OBVIOUS
  <1>1. LimiterTypeOK'
    BY LimiterTypeStep DEF LimiterInv
  <1>2. ASSUME UNCHANGED <<now, at, from, limiterVars>> PROVE FailuresKept' /\ CrowdCounts'
    <2>1. FailuresKept'
      BY <1>2 DEF limiterVars, LimiterInv, FailuresKept
    <2>2. \A o \in Origins : InFlight(o)' = InFlight(o)
      BY <1>2 DEF InFlight
    <2>3. CrowdCounts'
      BY <1>1, <1>2, <2>2, FewerKeepCounts DEF limiterVars, CrowdCounts
    <2> QED BY <2>1, <2>3
  <1>3. ASSUME NEW i \in Inits,
               InitLooks(i) \/ InitAnswers(i) \/ InitRechecks(i) \/ InitWrites(i)
        PROVE  UNCHANGED <<now, at, from, limiterVars>>
    BY <1>3 DEF InitLooks, InitAnswers, InitRechecks, InitWrites, GatewayIdle
  <1>4. ASSUME NEW a \in Logins,
               LoginArrives(a) \/ LoginReads(a) \/ LoginFails(a) \/ LoginSucceeds(a)
        PROVE  FailuresKept' /\ CrowdCounts'
    BY <1>1, <1>4, QuietLoginKeepsLimiter, LoginKeepsLimiter
  <1>5. ASSUME NEW s \in Logins, AtSession(s) PROVE UNCHANGED <<now, at, from, limiterVars>>
    BY <1>5 DEF AtSession, Page, ApiCall, ApiCallEnds, ApiLogout, WebLogout, Lookup, Delete,
                NoLogin
  <1>6. CASE Tick
    <2>1. CrowdCounts'
      BY <1>1, <1>6, TickKeepsCounts DEF CrowdCounts
    <2>2. FailuresKept'
      BY <1>6, LoginAssumption
      DEF Tick, limiterVars, LimiterInv, LimiterTypeOK, FailuresKept
    <2> QED BY <1>1, <2>1, <2>2 DEF LimiterInv
  <1>7. CASE Restart
    <2>1. /\ \A o \in Origins : failures'[o] = {} /\ failed'[o] = {}
          /\ UNCHANGED <<now, from, stamp, crowd>>
          /\ at' = [a \in Logins |-> IF at[a] \in {"body", "verify"} THEN "done" ELSE at[a]]
      BY <1>7 DEF Restart, NoFailures
    <2>2. FailuresKept'
      BY <2>1 DEF FailuresKept
    <2>3. \A o \in Origins : InFlight(o)' \subseteq InFlight(o)
      BY <2>1 DEF InFlight
    <2>4. CrowdCounts'
      BY <1>1, <2>1, <2>3, FewerKeepCounts DEF CrowdCounts
    <2> QED BY <1>1, <2>2, <2>4 DEF LimiterInv
  <1>8. CASE UNCHANGED vars
    BY <1>1, <1>2, <1>8 DEF vars, LimiterInv
  <1> QED BY <1>1, <1>2, <1>3, <1>4, <1>5, <1>6, <1>7, <1>8 DEF Next, AtSession, LimiterInv

\* The limiter's invariant holds throughout.
LEMMA LimiterInvHolds == Spec => []LimiterInv
  BY LimiterStart, LimiterStep, PTL DEF Spec

\* An address with n logins in flight at once fails at most n - 1 times more than
\* LOGIN_MAX_FAILURES in any window, whatever the order of its logins.
THEOREM FailuresBoundedHolds == Spec => []FailuresBounded
  <1>1. LimiterInv => FailuresBounded
    <2> SUFFICES ASSUME LimiterInv, NEW o \in Origins, NEW t \in 1..now
                 PROVE  Cardinality(Recent(failed[o], t)) + 1
                          <= MaxFailures + (IF crowd[o] = 0 THEN 1 ELSE crowd[o])
      BY DEF FailuresBounded
    <2>1. AddressCounts(o)
      BY DEF LimiterInv, CrowdCounts
    <2>2. CASE crowd[o] = 0
      <3>1. Recent(failed[o], t) = {}
        BY <2>1, <2>2 DEF AddressCounts, Recent
      <3> QED BY <2>2, <3>1, FS_EmptySet, LoginAssumption
    <2>3. CASE crowd[o] # 0
      BY <2>1, <2>3 DEF AddressCounts, Count
    <2> QED BY <2>2, <2>3
  <1> QED BY <1>1, LimiterInvHolds, PTL

\* An address is only blocked for MaxFailures failures of its own, all of the
\* window that ends now and none from before its last success.
THEOREM BlockedOnlyForFailuresHolds == Spec => BlockedOnlyForFailures
  <1>1. ASSUME LimiterInv, [Next]_vars, NEW a \in Logins, at[a] = "new", at'[a] = "blocked"
        PROVE  Cardinality(Recent(failed[from[a]], now)) >= MaxFailures
    <2>1. ASSUME NEW b \in Logins, LoginArrives(b) PROVE a = b /\ Blocked(from[b])
      BY <1>1, <2>1 DEF LoginArrives, Answers, LimiterInv, LimiterTypeOK
    <2>2. ASSUME NEW b \in Logins, LoginReads(b) \/ LoginFails(b) \/ LoginSucceeds(b)
          PROVE  FALSE
      BY <1>1, <2>2
      DEF LoginReads, LoginFails, LoginSucceeds, Answers, LimiterInv, LimiterTypeOK
    <2>3. ASSUME NEW s \in Logins, AtSession(s) PROVE FALSE
      BY <1>1, <2>3 DEF AtSession, Page, ApiCall, ApiCallEnds, ApiLogout, WebLogout, Lookup,
                        Delete, NoLogin
    <2>4. ASSUME NEW i \in Inits,
                 InitLooks(i) \/ InitAnswers(i) \/ InitRechecks(i) \/ InitWrites(i)
          PROVE  FALSE
      BY <1>1, <2>4 DEF InitLooks, InitAnswers, InitRechecks, InitWrites, GatewayIdle
    <2>5. ASSUME Tick \/ Restart \/ UNCHANGED vars PROVE FALSE
      BY <1>1, <2>5 DEF Tick, Restart, vars, LimiterInv, LimiterTypeOK
    <2>6. Blocked(from[a]) /\ from[a] \in Origins
      BY <1>1, <2>1, <2>2, <2>3, <2>4, <2>5 DEF Next, AtSession, LimiterInv, LimiterTypeOK
    <2> QED BY <1>1, <2>6, LimiterSeesAll DEF Blocked
  <1>2. LimiterInv /\ [Next]_vars =>
          [\A a \in Logins : at[a] = "new" /\ at'[a] = "blocked" =>
             Cardinality(Recent(failed[from[a]], now)) >= MaxFailures]_vars
    BY <1>1
  <1> QED BY <1>2, LimiterInvHolds, PTL DEF Spec, BlockedOnlyForFailures
==============================================================================
