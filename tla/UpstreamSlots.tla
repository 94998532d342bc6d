---------------------------- MODULE UpstreamSlots ----------------------------
(****************************************************************************)
(* The pool of upstream slots: class UpstreamSlots of core/concurrency.py,  *)
(* a wrapper around asyncio.Semaphore (CPython 3.12, the frozen runtime).   *)
(*                                                                          *)
(* The semaphore is FIFO.  A coroutine that finds it locked parks a future  *)
(* in a deque; whoever gives a unit back completes the future of the oldest *)
(* waiter and takes the unit away again on its behalf, so between that      *)
(* moment and the moment the waiter runs, the unit belongs to a coroutine   *)
(* that does not know it yet.  The timeout of the waiter may hit exactly    *)
(* there.  The three places a unit can be are value, granted and holders.   *)
(****************************************************************************)
EXTENDS Naturals, Sequences, FiniteSets

CONSTANTS
  Requests,   \* the requests (one forward_chat coroutine each)
  Slots       \* cfg.upstream.slots, the initial value of the semaphore

ASSUME SlotsAssumption ==
  /\ IsFiniteSet(Requests)
  /\ Slots \in Nat

VARIABLES
  value,      \* Semaphore._value
  waiters,    \* the pending futures of Semaphore._waiters, oldest first
  granted,    \* waiters whose future is completed but which have not run yet
  holders     \* requests past acquire() that have not called release()

slotVars == <<value, waiters, granted, holders>>

Waiting == { waiters[i] : i \in 1..Len(waiters) }

SlotsInit ==
  /\ value = Slots
  /\ waiters = << >>
  /\ granted = {}
  /\ holders = {}

------------------------------------------------------------------------------
(* asyncio.Semaphore *)

\* Semaphore.locked(): a newcomer must queue behind every future that is not
\* cancelled, the completed ones that have not resumed included.
Locked == value = 0 \/ waiters # << >> \/ granted # {}

\* while self._value > 0: self._wake_up_next(), from value v, pending futures
\* w and completed futures g.
Wake(v, w, g) ==
  LET k == IF v < Len(w) THEN v ELSE Len(w)
  IN  /\ value' = v - k
      /\ waiters' = SubSeq(w, k + 1, Len(w))
      /\ granted' = g \cup { w[i] : i \in 1..k }

Without(s, i) == SubSeq(s, 1, i - 1) \o SubSeq(s, i + 1, Len(s))

------------------------------------------------------------------------------
(* UpstreamSlots *)

\* Mutant of AcquireNow: only the counter is looked at, not the deque.
AcquireNowBarging(r) ==
  /\ value > 0
  /\ value' = value - 1
  /\ holders' = holders \cup {r}
  /\ UNCHANGED <<waiters, granted>>

\* acquire() that does not suspend.
AcquireNow(r) ==
  /\ ~Locked
  /\ value' = value - 1
  /\ holders' = holders \cup {r}
  /\ UNCHANGED <<waiters, granted>>

\* acquire() that parks a future.
AcquireWait(r) ==
  /\ Locked
  /\ waiters' = Append(waiters, r)
  /\ UNCHANGED <<value, granted, holders>>

\* The coroutine of a completed future runs: acquire() returns.
AcquireResumes(r) ==
  /\ r \in granted
  /\ holders' = holders \cup {r}
  /\ Wake(value, waiters, granted \ {r})

\* Mutant of AcquireTimesOut: the unit of a completed future is forgotten.
TimesOutForgetsUnit(r) ==
  /\ \/ \E i \in 1..Len(waiters) :
           /\ waiters[i] = r
           /\ Wake(value, Without(waiters, i), granted)
     \/ /\ r \in granted
        /\ Wake(value, waiters, granted \ {r})
  /\ UNCHANGED holders

\* wait_for cancels acquire(): SlotQueueTimeout.  A future that was completed
\* in the meantime puts its unit back.
AcquireTimesOut(r) ==
  /\ \/ \E i \in 1..Len(waiters) :
           /\ waiters[i] = r
           /\ Wake(value, Without(waiters, i), granted)
     \/ /\ r \in granted
        /\ Wake(value + 1, waiters, granted \ {r})
  /\ UNCHANGED holders

\* Mutant of Release: the youngest waiter is woken.
ReleaseToYoungest(r) ==
  /\ holders' = holders \ {r}
  /\ IF waiters = << >>
     THEN value' = value + 1 /\ UNCHANGED <<waiters, granted>>
     ELSE /\ waiters' = SubSeq(waiters, 1, Len(waiters) - 1)
          /\ granted' = granted \cup {waiters[Len(waiters)]}
          /\ UNCHANGED value

\* Mutant of Release: the counter goes up and nobody is woken.
ReleaseWakesNobody(r) ==
  /\ holders' = holders \ {r}
  /\ value' = value + 1
  /\ UNCHANGED <<waiters, granted>>

\* release(): one unit back, at most one waiter woken.
Release(r) ==
  /\ holders' = holders \ {r}
  /\ IF waiters = << >>
     THEN value' = value + 1 /\ UNCHANGED <<waiters, granted>>
     ELSE /\ waiters' = Tail(waiters)
          /\ granted' = granted \cup {Head(waiters)}
          /\ UNCHANGED value

------------------------------------------------------------------------------
(* The pool by itself, under callers that acquire once and then release *)

Idle(r) == r \notin Waiting \cup granted \cup holders

SlotsNext ==
  \E r \in Requests :
    \/ Idle(r) /\ (AcquireNow(r) \/ AcquireWait(r))
    \/ AcquireResumes(r)
    \/ AcquireTimesOut(r)
    \/ r \in holders /\ Release(r)

SlotsSpec == SlotsInit /\ [][SlotsNext]_slotVars

\* Woken coroutines run and callers release; nobody is obliged to time out.
FairSlotsSpec ==
  /\ SlotsSpec
  /\ \A r \in Requests : WF_slotVars(AcquireResumes(r))
  /\ \A r \in Requests : WF_slotVars(r \in holders /\ Release(r))

------------------------------------------------------------------------------
(* Properties *)

\* The type of the pool: a queue of distinct requests that are neither woken
\* nor holding a slot.
SlotsTypeOK ==
  /\ value \in Nat
  /\ waiters \in Seq(Requests)
  /\ granted \subseteq Requests
  /\ holders \subseteq Requests
  /\ \A i, j \in 1..Len(waiters) : waiters[i] = waiters[j] => i = j
  /\ Waiting \cap (granted \cup holders) = {}
  /\ granted \cap holders = {}

\* No slot is lost or invented: each unit of the semaphore is free, promised
\* to a waiter whose future is completed, or held.  A timeout that hits a
\* waiter after its future was completed is where a unit could vanish.
SlotConservation ==
  value + Cardinality(granted) + Cardinality(holders) = Slots

\* A free unit while somebody waits means that a woken coroutine has yet to
\* run and will wake the others: no wake-up is lost, whatever is cancelled.
NoLostWakeup ==
  value > 0 /\ waiters # << >> => granted # {}

\* First come, first served: no step gives a slot, or the promise of one, to
\* a request while another that queued before it keeps waiting.
FirstComeFirstServed ==
  [][\A i \in 1..Len(waiters) :
       waiters[i] \in { waiters'[k] : k \in 1..Len(waiters') } =>
         (granted' \cup holders') \ (granted \cup holders)
            \subseteq { waiters[j] : j \in 1..(i - 1) }]_slotVars

\* Nobody queues for ever, even if no timeout ever fires, as long as those who
\* hold a slot return it.
WaitersServed ==
  \A r \in Requests : r \in Waiting ~> r \notin Waiting
==============================================================================
