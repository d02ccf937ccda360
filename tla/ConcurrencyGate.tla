-------------------------- MODULE ConcurrencyGate --------------------------
(***************************************************************************)
(* _ConcurrencyGate (data/dcs_service.py): a resizable limit on how many   *)
(* threads of one client query the server at a time.  Each operation runs  *)
(* under the condition's lock, except while it waits; a thread that waits  *)
(* is woken by notify, notify_all or its timeout, takes the lock again and *)
(* looks at the limit again, and other threads may get in first.           *)
(* threading.Condition promises no order among the threads it wakes.       *)
(***************************************************************************)
EXTENDS Integers, FiniteSets

CONSTANTS
  Thread,           \* the threads that query
  Limit             \* the limits the server may announce (_positive_int)

ASSUME LimitAssumption == Limit \subseteq Nat \ {0}

VARIABLES
  limit,            \* _limit: 0 before the server has announced one
  active,           \* _active: the count of slots taken
  inside,           \* threads between acquire and release
  waiting,          \* threads asleep in Condition.wait
  woken             \* threads woken, that have not yet looked again

gateVars == <<limit, active, inside, waiting, woken>>

GateInit ==
  /\ limit = 0
  /\ active = 0
  /\ inside = {}
  /\ waiting = {}
  /\ woken = {}

-----------------------------------------------------------------------------
Free == limit > 0 /\ active < limit

\* A thread at the head of acquire's loop: it has just come, or was woken.
Looking(t) == t \notin inside \cup waiting

SetLimit(l) ==
  /\ limit' = l
  /\ waiting' = {}
  /\ woken' = woken \cup waiting          \* notify_all
  /\ UNCHANGED <<active, inside>>

\* A slip: a woken thread takes a slot without looking again.
AcquireOnceWoken(t) ==
  /\ Looking(t)
  /\ Free \/ t \in woken
  /\ active' = active + 1
  /\ inside' = inside \cup {t}
  /\ woken' = woken \ {t}
  /\ UNCHANGED <<limit, waiting>>

Acquire(t) ==
  /\ Looking(t)
  /\ Free
  /\ active' = active + 1
  /\ inside' = inside \cup {t}
  /\ woken' = woken \ {t}
  /\ UNCHANGED <<limit, waiting>>

Wait(t) ==
  /\ Looking(t)
  /\ ~Free
  /\ waiting' = waiting \cup {t}
  /\ woken' = woken \ {t}
  /\ UNCHANGED <<limit, active, inside>>

\* wait(timeout=remaining) returns because the time is over.
TimeOut(t) ==
  /\ t \in waiting
  /\ waiting' = waiting \ {t}
  /\ woken' = woken \cup {t}
  /\ UNCHANGED <<limit, active, inside>>

\* remaining <= 0: DcsRequestTimeoutError, unless a slot is free after all.
GiveUp(t) ==
  /\ Looking(t)
  /\ ~Free
  /\ woken' = woken \ {t}
  /\ UNCHANGED <<limit, active, inside, waiting>>

\* notify wakes one thread, if any waits.
Notify ==
  \/ \E u \in waiting :
       /\ waiting' = waiting \ {u}
       /\ woken' = woken \cup {u}
  \/ waiting = {} /\ UNCHANGED <<waiting, woken>>

\* Slips: nobody is notified; the slot is kept for the thread that is woken.
ReleaseQuietly(t) ==
  /\ t \in inside
  /\ active' = active - 1
  /\ inside' = inside \ {t}
  /\ UNCHANGED <<limit, waiting, woken>>

ReleaseHandsOver(t) ==
  /\ t \in inside
  /\ active' = IF waiting = {} THEN active - 1 ELSE active
  /\ inside' = inside \ {t}
  /\ Notify
  /\ UNCHANGED limit

Release(t) ==
  /\ t \in inside
  /\ active > 0                           \* else RuntimeError: see Balanced
  /\ active' = active - 1
  /\ inside' = inside \ {t}
  /\ Notify
  /\ UNCHANGED limit

GateNext ==
  \/ \E l \in Limit : SetLimit(l)
  \/ \E t \in Thread :
       Acquire(t) \/ Wait(t) \/ TimeOut(t) \/ GiveUp(t) \/ Release(t)

GateSpec == GateInit /\ [][GateNext]_gateVars

-----------------------------------------------------------------------------
GateTypeOK ==
  /\ limit \in Limit \cup {0}
  /\ active \in Nat
  /\ inside \subseteq Thread
  /\ waiting \subseteq Thread \ inside
  /\ woken \subseteq Thread \ (inside \cup waiting)

\* The counter is the number of leases: whatever the order of timeouts, wake-ups
\* and releases, no slot is lost and none is returned twice ("released empty").
Balanced == active = Cardinality(inside)

\* No wake-up is lost: while a thread sleeps, every slot is taken or one of the
\* threads already woken is about to take it.
NoIdleSlot == waiting # {} => active + Cardinality(woken) >= limit

\* No thread gets in while as many are inside as the limit of that moment allows,
\* though the limit may have fallen below the number of those inside.
WithinLimit ==
  [][inside' \ inside # {} => Cardinality(inside') <= limit]_gateVars
=============================================================================
