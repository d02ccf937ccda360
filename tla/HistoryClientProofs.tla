------------------------ MODULE HistoryClientProofs ------------------------
(***************************************************************************)
(* Theorems about the concurrency gate, for any threads and limits, and    *)
(* about the queries of a client, which are its threads: they keep to the  *)
(* gate's specification, so what is proved of any threads that use it      *)
(* holds of them.                                                          *)
(***************************************************************************)
EXTENDS HistoryClient, FiniteSetTheorems, TLAPS

\* The inductive invariant: the counter is exact, and the sleeping threads have
\* nothing to wake up for.  The sets are finite, since threads come one by one.
GateInv ==
  /\ GateTypeOK
  /\ IsFiniteSet(inside) /\ IsFiniteSet(waiting) /\ IsFiniteSet(woken)
  /\ Balanced
  /\ NoIdleSlot

-----------------------------------------------------------------------------
\* What the count of a finite set does when a member comes or goes.
LEMMA CountAdd ==
  ASSUME NEW S, NEW x, IsFiniteSet(S), x \notin S
  PROVE  /\ IsFiniteSet(S \cup {x})
         /\ Cardinality(S \cup {x}) = Cardinality(S) + 1
         /\ Cardinality(S) \in Nat
BY FS_AddElement, FS_CardinalityType

LEMMA CountRemove ==
  ASSUME NEW S, NEW x, IsFiniteSet(S), x \in S
  PROVE  /\ IsFiniteSet(S \ {x})
         /\ Cardinality(S \ {x}) = Cardinality(S) - 1
         /\ Cardinality(S) \in Nat
BY FS_RemoveElement, FS_CardinalityType

\* A thread that leaves the woken ones, if it is one of them, lowers their count
\* by one at most.
LEMMA CountLeave ==
  ASSUME NEW S, NEW x, IsFiniteSet(S)
  PROVE  /\ IsFiniteSet(S \ {x})
         /\ Cardinality(S \ {x}) \in Nat
         /\ Cardinality(S) \in Nat
         /\ Cardinality(S \ {x}) + 1 >= Cardinality(S)
<1>1. /\ IsFiniteSet(S \ {x})
      /\ Cardinality(S \ {x}) = IF x \in S THEN Cardinality(S) - 1 ELSE Cardinality(S)
  BY FS_RemoveElement
<1>2. Cardinality(S) \in Nat /\ Cardinality(S \ {x}) \in Nat
  BY <1>1, FS_CardinalityType
<1> QED
  BY <1>1, <1>2

-----------------------------------------------------------------------------
LEMMA GateInitially == GateInit => GateInv
<1> SUFFICES ASSUME GateInit PROVE GateInv
  OBVIOUS
<1>1. IsFiniteSet({}) /\ Cardinality({}) = 0
  BY FS_EmptySet
<1> QED
  BY <1>1 DEF GateInit, GateInv, GateTypeOK, Balanced, NoIdleSlot

LEMMA SetLimitKeeps ==
  ASSUME GateInv, NEW l \in Limit, SetLimit(l)
  PROVE  GateInv'
<1>1. IsFiniteSet(woken \cup waiting) /\ IsFiniteSet({})
  BY FS_Union, FS_EmptySet DEF GateInv
<1> QED
  BY <1>1 DEF GateInv, GateTypeOK, Balanced, NoIdleSlot, SetLimit

LEMMA AcquireKeeps ==
  ASSUME GateInv, NEW t \in Thread, Acquire(t)
  PROVE  GateInv'
<1>1. GateTypeOK'
  BY DEF GateInv, GateTypeOK, Acquire, Looking
<1>2. IsFiniteSet(inside') /\ Balanced'
  <2>1. IsFiniteSet(inside) /\ t \notin inside /\ active = Cardinality(inside)
    BY DEF GateInv, Balanced, Acquire, Looking
  <2>2. inside' = inside \cup {t} /\ active' = active + 1
    BY DEF Acquire
  <2> QED
    BY <2>1, <2>2, CountAdd DEF Balanced
<1>3. IsFiniteSet(woken') /\ NoIdleSlot'
  <2>1. IsFiniteSet(woken) /\ woken' = woken \ {t}
    BY DEF GateInv, Acquire
  <2>2. /\ IsFiniteSet(woken')
        /\ Cardinality(woken') \in Nat /\ Cardinality(woken) \in Nat
        /\ Cardinality(woken') + 1 >= Cardinality(woken)
    BY <2>1, CountLeave
  <2>3. active \in Nat /\ limit \in Nat
    BY LimitAssumption DEF GateInv, GateTypeOK
  <2>4. active' = active + 1 /\ limit' = limit /\ waiting' = waiting
    BY DEF Acquire
  <2>5. NoIdleSlot
    BY DEF GateInv
  <2> QED
    BY <2>2, <2>3, <2>4, <2>5 DEF NoIdleSlot
<1>4. IsFiniteSet(waiting')
  BY DEF GateInv, Acquire
<1> QED
  BY <1>1, <1>2, <1>3, <1>4 DEF GateInv

\* A thread that found no slot: nothing is idle, whoever sleeps.
LEMMA FullKeeps ==
  ASSUME GateInv, ~Free, UNCHANGED <<limit, active>>, IsFiniteSet(woken')
  PROVE  NoIdleSlot'
<1>1. active \in Nat /\ limit \in Nat
  BY LimitAssumption DEF GateInv, GateTypeOK
<1>2. Cardinality(woken') \in Nat
  BY FS_CardinalityType
<1> QED
  BY <1>1, <1>2 DEF NoIdleSlot, Free

LEMMA WaitKeeps ==
  ASSUME GateInv, NEW t \in Thread, Wait(t)
  PROVE  GateInv'
<1>1. GateTypeOK'
  BY DEF GateInv, GateTypeOK, Wait, Looking
<1>2. IsFiniteSet(waiting') /\ IsFiniteSet(woken')
  BY FS_AddElement, CountLeave DEF GateInv, Wait
<1>3. NoIdleSlot'
  BY <1>2, FullKeeps DEF Wait
<1>4. IsFiniteSet(inside') /\ Balanced'
  BY DEF GateInv, Balanced, Wait
<1> QED
  BY <1>1, <1>2, <1>3, <1>4 DEF GateInv

LEMMA GiveUpKeeps ==
  ASSUME GateInv, NEW t \in Thread, GiveUp(t)
  PROVE  GateInv'
<1>1. GateTypeOK'
  BY DEF GateInv, GateTypeOK, GiveUp, Looking
<1>2. IsFiniteSet(waiting') /\ IsFiniteSet(woken')
  BY CountLeave DEF GateInv, GiveUp
<1>3. NoIdleSlot'
  BY <1>2, FullKeeps DEF GiveUp
<1>4. IsFiniteSet(inside') /\ Balanced'
  BY DEF GateInv, Balanced, GiveUp
<1> QED
  BY <1>1, <1>2, <1>3, <1>4 DEF GateInv

LEMMA TimeOutKeeps ==
  ASSUME GateInv, NEW t \in Thread, TimeOut(t)
  PROVE  GateInv'
<1>1. GateTypeOK'
  BY DEF GateInv, GateTypeOK, TimeOut
<1>2. IsFiniteSet(waiting') /\ IsFiniteSet(inside') /\ Balanced'
  BY CountLeave DEF GateInv, Balanced, TimeOut
<1>3. IsFiniteSet(woken') /\ NoIdleSlot'
  <2>1. t \notin woken /\ IsFiniteSet(woken) /\ woken' = woken \cup {t}
    BY DEF GateInv, GateTypeOK, TimeOut
  <2>2. /\ IsFiniteSet(woken') /\ Cardinality(woken) \in Nat
        /\ Cardinality(woken') = Cardinality(woken) + 1
    BY <2>1, CountAdd
  <2>3. /\ active \in Nat /\ limit \in Nat /\ waiting # {} /\ NoIdleSlot
        /\ active' = active /\ limit' = limit
    BY LimitAssumption DEF GateInv, GateTypeOK, TimeOut
  <2> QED
    BY <2>2, <2>3 DEF NoIdleSlot
<1> QED
  BY <1>1, <1>2, <1>3 DEF GateInv

\* The slot that comes free is matched by the thread that is woken for it.
LEMMA ReleaseKeeps ==
  ASSUME GateInv, NEW t \in Thread, Release(t)
  PROVE  GateInv'
<1>1. GateTypeOK'
  <2>1. active' \in Nat /\ inside' \subseteq inside
    BY DEF GateInv, GateTypeOK, Release
  <2>2. /\ waiting' \subseteq waiting
        /\ woken' \subseteq Thread \ (inside \cup waiting')
    BY DEF GateInv, GateTypeOK, Release, Notify
  <2> QED
    BY <2>1, <2>2 DEF GateInv, GateTypeOK, Release
<1>2. IsFiniteSet(inside') /\ Balanced'
  <2>1. IsFiniteSet(inside) /\ t \in inside /\ active = Cardinality(inside)
    BY DEF GateInv, Balanced, Release
  <2>2. inside' = inside \ {t} /\ active' = active - 1
    BY DEF Release
  <2> QED
    BY <2>1, <2>2, CountRemove DEF Balanced
<1>3. IsFiniteSet(waiting') /\ IsFiniteSet(woken') /\ NoIdleSlot'
  <2>1. CASE waiting = {} /\ UNCHANGED <<waiting, woken>>
    BY <2>1 DEF GateInv, NoIdleSlot
  <2>2. ASSUME NEW u \in waiting, waiting' = waiting \ {u}, woken' = woken \cup {u}
        PROVE  IsFiniteSet(waiting') /\ IsFiniteSet(woken') /\ NoIdleSlot'
    <3>1. u \notin woken /\ IsFiniteSet(woken) /\ IsFiniteSet(waiting)
      BY DEF GateInv, GateTypeOK
    <3>2. IsFiniteSet(waiting')
      BY <2>2, <3>1, CountLeave
    <3>3. /\ IsFiniteSet(woken') /\ Cardinality(woken) \in Nat
          /\ Cardinality(woken') = Cardinality(woken) + 1
      BY <2>2, <3>1, CountAdd
    <3>4. /\ active \in Nat /\ limit \in Nat /\ NoIdleSlot
          /\ active' = active - 1 /\ limit' = limit
      BY LimitAssumption DEF GateInv, GateTypeOK, Release
    <3> QED
      BY <3>2, <3>3, <3>4 DEF NoIdleSlot
  <2> QED
    BY <2>1, <2>2 DEF Release, Notify
<1> QED
  BY <1>1, <1>2, <1>3 DEF GateInv

LEMMA GateStepKeeps == GateInv /\ [GateNext]_gateVars => GateInv'
<1> SUFFICES ASSUME GateInv, [GateNext]_gateVars PROVE GateInv'
  OBVIOUS
<1>1. ASSUME NEW l \in Limit, SetLimit(l) PROVE GateInv'
  BY <1>1, SetLimitKeeps
<1>2. ASSUME NEW t \in Thread, Acquire(t) PROVE GateInv'
  BY <1>2, AcquireKeeps
<1>3. ASSUME NEW t \in Thread, Wait(t) PROVE GateInv'
  BY <1>3, WaitKeeps
<1>4. ASSUME NEW t \in Thread, TimeOut(t) PROVE GateInv'
  BY <1>4, TimeOutKeeps
<1>5. ASSUME NEW t \in Thread, GiveUp(t) PROVE GateInv'
  BY <1>5, GiveUpKeeps
<1>6. ASSUME NEW t \in Thread, Release(t) PROVE GateInv'
  BY <1>6, ReleaseKeeps
<1>7. CASE UNCHANGED gateVars
  BY <1>7 DEF gateVars, GateInv, GateTypeOK, Balanced, NoIdleSlot
<1> QED
  BY <1>1, <1>2, <1>3, <1>4, <1>5, <1>6, <1>7 DEF GateNext

\* Nobody waits inside, and the counter never falls below zero.
THEOREM GateTypes == GateSpec => []GateTypeOK
<1>1. GateInv => GateTypeOK
  BY DEF GateInv
<1> QED
  BY <1>1, GateInitially, GateStepKeeps, PTL DEF GateSpec

-----------------------------------------------------------------------------
\* The counter of _ConcurrencyGate is the number of leases, for any number of
\* threads: a slot is neither lost nor returned twice, so that release never
\* raises "released empty".
THEOREM GateBalanced == GateSpec => []Balanced
<1>1. GateInv => Balanced
  BY DEF GateInv
<1> QED
  BY <1>1, GateInitially, GateStepKeeps, PTL DEF GateSpec

\* No thread sleeps in acquire while a slot is free that no woken thread is about
\* to look at: waking one thread per release is enough.
THEOREM GateLosesNoWakeUp == GateSpec => []NoIdleSlot
<1>1. GateInv => NoIdleSlot
  BY DEF GateInv
<1> QED
  BY <1>1, GateInitially, GateStepKeeps, PTL DEF GateSpec

\* A thread gets in only below the limit of that moment.
THEOREM GateWithinLimit == GateSpec => WithinLimit
<1>1. GateInv /\ [GateNext]_gateVars
        => [inside' \ inside # {} => Cardinality(inside') <= limit]_(gateVars)
  <2> SUFFICES ASSUME GateInv, GateNext, inside' \ inside # {}
               PROVE  Cardinality(inside') <= limit
    OBVIOUS
  <2>1. PICK t \in Thread : Acquire(t)
    BY DEF GateNext, SetLimit, Wait, TimeOut, GiveUp, Release
  <2>2. active' = Cardinality(inside')
    BY <2>1, AcquireKeeps DEF GateInv, Balanced
  <2>3. active' = active + 1 /\ active < limit
    BY <2>1 DEF Acquire, Free
  <2>4. active \in Nat /\ limit \in Nat
    BY LimitAssumption DEF GateInv, GateTypeOK
  <2> QED
    BY <2>2, <2>3, <2>4
<1> QED
  BY <1>1, GateInitially, GateStepKeeps, PTL DEF GateSpec, WithinLimit

-----------------------------------------------------------------------------
Stages == {"none", "queued", "gate", "open", "consume", "retry", "leave", "ok", "failed"}

\* A query exists only once a limit has been cached: what Take announces again is
\* a limit of the server.
Cached ==
  /\ info \in Limit \cup {0}
  /\ stage \in [Query -> Stages]
  /\ outcome \in [Query -> {"none", "ok", "failed"}]
  /\ \A q \in Query : stage[q] # "none" => info \in Limit

-----------------------------------------------------------------------------
\* Every step of one query but Take only moves its stage on, and uses the gate.
LEMMA MoveKeepsCached ==
  ASSUME Cached, NEW q \in Query, NEW s \in Stages,
         stage[q] # "none", stage' = [stage EXCEPT ![q] = s], info' = info,
         outcome' \in [Query -> {"none", "ok", "failed"}]
  PROVE  Cached'
<1>1. info \in Limit
  BY DEF Cached
<1> QED
  BY <1>1 DEF Cached

LEMMA FinishStep ==
  ASSUME Cached, NEW q \in Query, NEW from \in Stages \ {"none"},
         NEW how \in {"ok", "retry", "failed"}, Finish(q, from, how)
  PROVE  Cached' /\ UNCHANGED gateVars
<1>1. CASE how = "retry" /\ StageGoto(q, from, "retry") /\ UNCHANGED outcome
  BY <1>1, MoveKeepsCached DEF Finish, StageGoto, Stages, Cached
<1>2. CASE /\ StageGoto(q, from, "leave")
           /\ outcome' = [outcome EXCEPT ![q] = how]
           /\ how \in {"ok", "failed"}
  <2>1. outcome' \in [Query -> {"none", "ok", "failed"}]
    BY <1>2 DEF Cached
  <2> QED
    BY <1>2, <2>1, MoveKeepsCached DEF Finish, StageGoto, Stages
<1> QED
  BY <1>1, <1>2 DEF Finish

\* The threads of the gate are the queries.
LEMMA QueryUsesGate ==
  ASSUME NEW q \in Query,
         Acquire(q) \/ Wait(q) \/ TimeOut(q) \/ GiveUp(q) \/ Release(q)
  PROVE  GateNext
BY ThreadAssumption DEF GateNext

LEMMA WorkStep ==
  ASSUME Cached, NEW q \in Query, Work(q)
  PROVE  Cached' /\ [GateNext]_gateVars
<1>1. CASE Take(q)
  <2>1. info \in Limit /\ SetLimit(info)
    BY <1>1 DEF Take, StageGoto, CacheInfo, Cached
  <2>2. Cached'
    BY <1>1, MoveKeepsCached DEF Take, StageGoto, CacheInfo, Stages, Cached, queryVars
  <2> QED
    BY <2>1, <2>2 DEF GateNext
<1>2. CASE Block(q)
  BY <1>2, QueryUsesGate DEF Block, Cached, queryVars
<1>3. CASE WaitTimesOut(q)
  BY <1>3, QueryUsesGate DEF WaitTimesOut, Cached, queryVars
<1>4. CASE StopWaiting(q)
  <2>1. Cached'
    BY <1>4, MoveKeepsCached DEF StopWaiting, StageGoto, Stages, Cached, queryVars
  <2> QED
    BY <1>4, <2>1, QueryUsesGate DEF StopWaiting
<1>5. CASE Enter(q)
  <2>1. outcome' \in [Query -> {"none", "ok", "failed"}]
    BY <1>5 DEF Enter, Cached
  <2>2. Cached'
    BY <1>5, <2>1, MoveKeepsCached DEF Enter, StageGoto, Stages
  <2> QED
    BY <1>5, <2>2, QueryUsesGate DEF Enter
<1>6. CASE Open(q)
  <2>1. CASE StageGoto(q, "open", "consume") /\ UNCHANGED <<info, refreshes, callVars, queryVars, gateVars>>
    BY <2>1, MoveKeepsCached DEF StageGoto, Stages, Cached, queryVars
  <2>2. CASE \E how \in {"retry", "failed"} : Finish(q, "open", how)
    BY <2>2, FinishStep DEF Stages
  <2> QED
    BY <1>6, <2>1, <2>2 DEF Open
<1>7. CASE Consume(q)
  BY <1>7, FinishStep DEF Consume, Stages
<1>8. CASE Retry(q)
  <2>1. CASE Finish(q, "retry", "failed")
    BY <2>1, FinishStep DEF Stages
  <2>2. CASE /\ StageGoto(q, "retry", "open")
             /\ UNCHANGED <<info, refreshes, callVars, lateHttp, outcome, gateVars>>
    BY <2>2, MoveKeepsCached DEF StageGoto, Stages, Cached
  <2> QED
    BY <1>8, <2>1, <2>2 DEF Retry
<1>9. CASE Leave(q)
  <2>1. outcome' \in [Query -> {"none", "ok", "failed"}]
    BY <1>9 DEF Leave, Cached
  <2>2. outcome[q] \in Stages
    BY DEF Cached, Stages
  <2>3. Cached'
    BY <1>9, <2>1, <2>2, MoveKeepsCached DEF Leave, StageGoto
  <2> QED
    BY <1>9, <2>3, QueryUsesGate DEF Leave
<1> QED
  BY <1>1, <1>2, <1>3, <1>4, <1>5, <1>6, <1>7, <1>8, <1>9 DEF Work

LEMMA ClientStep == Cached /\ [Next]_vars => Cached' /\ [GateNext]_gateVars
<1> SUFFICES ASSUME Cached, [Next]_vars PROVE Cached' /\ [GateNext]_gateVars
  BY DEF gateVars
<1>1. CASE Refresh
  <2>1. PICK l \in Limit : info' = l /\ SetLimit(l)
    BY <1>1 DEF Refresh, CacheInfo
  <2> QED
    BY <1>1, <2>1 DEF Refresh, Cached, GateNext, queryVars
<1>2. ASSUME NEW c \in Call, Begin(c)
      PROVE  Cached' /\ [GateNext]_gateVars
  <2>1. CASE UNCHANGED <<info, workers, stage, gateVars>>
    BY <1>2, <2>1 DEF Begin, Cached, queryVars
  <2>2. ASSUME NEW l \in (IF info = 0 THEN Limit ELSE {info}), CacheInfo(l),
               stage' = [q \in Query |-> IF q[1] = c THEN "queued" ELSE stage[q]]
        PROVE  Cached' /\ [GateNext]_gateVars
    <3>1. l \in Limit /\ info' = l /\ SetLimit(l)
      BY <2>2 DEF Cached, CacheInfo
    <3>2. stage' \in [Query -> Stages] /\ outcome' = outcome
      BY <1>2, <2>2 DEF Cached, Stages, Begin, queryVars
    <3> QED
      BY <3>1, <3>2 DEF Cached, GateNext
  <2> QED
    BY <1>2, <2>1, <2>2 DEF Begin
<1>3. ASSUME NEW c \in Call, Return(c) \/ CallLate(c)
      PROVE  Cached' /\ [GateNext]_gateVars
  BY <1>3 DEF Return, CallLate, Cached, queryVars
<1>4. ASSUME NEW q \in Query, HttpLate(q)
      PROVE  Cached' /\ [GateNext]_gateVars
  BY <1>4 DEF HttpLate, Cached
<1>5. CASE UNCHANGED vars
  BY <1>5 DEF vars, Cached, queryVars
<1> QED
  BY <1>1, <1>2, <1>3, <1>4, <1>5, WorkStep DEF Next

-----------------------------------------------------------------------------
\* The queries of get_histories use _ConcurrencyGate as its specification says,
\* whatever the number of calls, TAGs and retries.
THEOREM ClientUsesGate == Spec => UsesGate
<1>1. Init => Cached /\ GateInit
  BY DEF Init, Cached, Stages
<1> QED
  BY <1>1, ClientStep, PTL DEF Spec, UsesGate, GateSpec

\* So the count of active leases is exact in every client ...
THEOREM ClientBalanced == Spec => []Balanced
BY ClientUsesGate, GateBalanced, PTL DEF UsesGate

\* ... and no query sleeps while a slot is free for it.
THEOREM ClientLosesNoWakeUp == Spec => []NoIdleSlot
BY ClientUsesGate, GateLosesNoWakeUp, PTL DEF UsesGate

-----------------------------------------------------------------------------
Inside == {"open", "consume", "retry", "leave"}

\* Who holds a slot, or sleeps for one, is where the code does; and no query exists
\* before its call, so that a call that begins finds none of its queries inside.
Slots ==
  /\ SlotsFollowQueries
  /\ phase = [c \in Call |-> phase[c]]
  /\ \A q \in Query : phase[q[1]] = "idle" => stage[q] = "none"

LEMMA QueryOfCall == \A q \in Query : q[1] \in Call
BY DEF Query, Queries

\* A query that moves on without the gate stays on its side of it.
LEMMA MoveKeepsSlots ==
  ASSUME Cached, Slots, NEW q \in Query, NEW from, NEW to, StageGoto(q, from, to),
         from # "none", from \in Inside <=> to \in Inside, from # "gate",
         UNCHANGED <<phase, gateVars>>
  PROVE  Slots'
BY DEF Slots, SlotsFollowQueries, Cached, StageGoto, Inside, gateVars

LEMMA WorkKeepsSlots == ASSUME Cached, Slots, NEW q \in Query, Work(q) PROVE Slots'
<1>0. stage \in [Query -> Stages] /\ phase' = phase
  BY DEF Cached, Work, Take, Block, WaitTimesOut, StopWaiting, Enter, Open, Consume, Retry, Leave,
         Finish, callVars
<1>1. CASE Take(q)
  BY <1>0, <1>1 DEF Take, CacheInfo, StageGoto, SetLimit, Slots, SlotsFollowQueries
<1>2. CASE Block(q) \/ WaitTimesOut(q)
  BY <1>0, <1>2 DEF Block, WaitTimesOut, Wait, TimeOut, Looking,
                    Slots, SlotsFollowQueries
<1>3. CASE StopWaiting(q)
  BY <1>0, <1>3 DEF StopWaiting, StageGoto, GiveUp, Looking, Slots, SlotsFollowQueries
<1>4. CASE Enter(q)
  BY <1>0, <1>4 DEF Enter, StageGoto, Acquire, Looking, Slots, SlotsFollowQueries
<1>5. CASE Open(q) \/ Consume(q) \/ Retry(q)
  <2>1. PICK from \in {"open", "consume", "retry"}, to \in Inside : StageGoto(q, from, to)
    BY <1>5 DEF Open, Consume, Retry, Finish, Inside
  <2>2. UNCHANGED gateVars
    BY <1>5 DEF Open, Consume, Retry, Finish
  <2> QED
    BY <1>0, <2>1, <2>2, MoveKeepsSlots DEF Inside
<1>6. CASE Leave(q)
  <2>1. outcome[q] \in {"none", "ok", "failed"}
    BY DEF Cached
  <2> QED
    BY <1>0, <1>6, <2>1 DEF Leave, StageGoto, Release, Notify,
                            Slots, SlotsFollowQueries
<1> QED
  BY <1>1, <1>2, <1>3, <1>4, <1>5, <1>6 DEF Work

LEMMA StepKeepsSlots == Cached /\ Slots /\ [Next]_vars => Slots'
<1> SUFFICES ASSUME Cached, Slots, [Next]_vars PROVE Slots'
  OBVIOUS
<1>1. CASE Refresh
  BY <1>1 DEF Refresh, CacheInfo, SetLimit, Slots, SlotsFollowQueries, callVars
<1>2. ASSUME NEW c \in Call, Begin(c)
      PROVE  Slots'
  <2>1. CASE PhaseGoto(c, "idle", "failed") /\ UNCHANGED <<stage, gateVars>>
    <3>1. /\ phase' = [d \in Call |-> phase'[d]]
          /\ \A d \in Call : phase'[d] = "idle" => phase[d] = "idle"
      BY <2>1 DEF PhaseGoto, Slots
    <3> QED
      BY <2>1, <3>1, QueryOfCall DEF Slots, SlotsFollowQueries, gateVars
  <2>2. CASE /\ PhaseGoto(c, "idle", "collect")
             /\ \E l \in (IF info = 0 THEN Limit ELSE {info}) : CacheInfo(l)
             /\ stage' = [q \in Query |-> IF q[1] = c THEN "queued" ELSE stage[q]]
    <3>1. /\ inside' = inside /\ waiting' \cup woken' = waiting \cup woken
      BY <2>2 DEF CacheInfo, SetLimit
    <3>2. \A q \in Query : q[1] = c => stage[q] = "none" /\ stage'[q] = "queued"
      BY <2>2 DEF PhaseGoto, Slots
    <3>3. \A q \in Query : q[1] # c => stage'[q] = stage[q]
      BY <2>2
    <3>4. SlotsFollowQueries'
      BY <3>1, <3>2, <3>3 DEF Slots, SlotsFollowQueries
    <3>5. \A q \in Query : phase'[q[1]] = "idle" => q[1] # c /\ phase[q[1]] = "idle"
      BY <2>2, QueryOfCall DEF PhaseGoto, Slots
    <3>6. phase' = [d \in Call |-> phase'[d]]
      BY <2>2 DEF PhaseGoto, Slots
    <3> QED
      BY <3>3, <3>4, <3>5, <3>6 DEF Slots
  <2> QED
    BY <1>2, <2>1, <2>2 DEF Begin
<1>3. ASSUME NEW c \in Call, Return(c) \/ CallLate(c)
      PROVE  Slots'
  <2>1. UNCHANGED <<stage, inside, waiting, woken>>
    BY <1>3 DEF Return, CallLate, gateVars
  <2>2. /\ phase' = [d \in Call |-> phase'[d]]
        /\ \A d \in Call : phase'[d] = "idle" => phase[d] = "idle"
    BY <1>3 DEF Return, CallLate, PhaseGoto, Slots
  <2> QED
    BY <2>1, <2>2, QueryOfCall DEF Slots, SlotsFollowQueries
<1>4. ASSUME NEW q \in Query, HttpLate(q)
      PROVE  Slots'
  BY <1>4 DEF HttpLate, Slots, SlotsFollowQueries, gateVars, callVars
<1>5. CASE UNCHANGED vars
  BY <1>5 DEF vars, Slots, SlotsFollowQueries, gateVars, callVars
<1> QED
  BY <1>1, <1>2, <1>3, <1>4, <1>5, WorkKeepsSlots DEF Next

\* A query holds a slot exactly while it talks to the server, on every path through
\* _get_history_validated and the transport, for any calls, TAGs, limits and retries.
THEOREM SlotsAreFollowed == Spec => []SlotsFollowQueries
<1>1. Init => Cached /\ Slots
  BY DEF Init, Cached, Stages, Slots, SlotsFollowQueries, GateInit
<1>2. Cached /\ [Next]_vars => Cached'
  BY ClientStep
<1>3. Slots => SlotsFollowQueries
  BY DEF Slots
<1> QED
  BY <1>1, <1>2, <1>3, StepKeepsSlots, PTL DEF Spec
=============================================================================
