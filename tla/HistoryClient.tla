--------------------------- MODULE HistoryClient ---------------------------
(***************************************************************************)
(* get_histories (data/dcs_service.py) over the HTTP transport             *)
(* (data/transport.py): calls of several threads on one client, each with  *)
(* a pool of workers that query one TAG after the other.  A query takes a  *)
(* slot of the history gate, module ConcurrencyGate, whose threads are the *)
(* queries, and keeps it through all its attempts.  get_history is a call  *)
(* for one TAG; get_events does the same on a gate of its own.             *)
(*                                                                         *)
(* total_timeout_seconds is counted twice: by the call, from its start,    *)
(* and by the transport, from when the query has its slot.  The second     *)
(* budget is as long as the first, so it runs out later.                   *)
(***************************************************************************)
EXTENDS ConcurrencyGate

CONSTANTS
  Call,             \* concurrent calls of get_histories
  Asks,             \* the TAGs each call asks for, without duplicates
  MaxRetries,       \* max_retries
  MaxRefreshes      \* bound: calls of refresh_info

ASSUME AsksAssumption == DOMAIN Asks = Call /\ \A c \in Call : Asks[c] # {}
ASSUME MaxRetriesAssumption == MaxRetries \in Nat
ASSUME MaxRefreshesAssumption == MaxRefreshes \in Nat

Queries(c) == {c} \X Asks[c]
Query == UNION {Queries(c) : c \in Call}

\* A query is made by one worker of a pool, and who waits at the gate is that thread.
ASSUME ThreadAssumption == Thread = Query

VARIABLES
  info,             \* _service_info.history_max_concurrent, 0 if not cached
  refreshes,        \* refresh_info calls so far
  phase,            \* where the calling thread is
  workers,          \* the size of each call's pool
  late,             \* calls whose deadline has passed
  stage,            \* where each query is
  retries,          \* per query: retry_count
  lateHttp,         \* queries whose transport deadline has passed
  outcome           \* per query: how the lease will be left

callVars == <<phase, workers, late>>
queryVars == <<retries, lateHttp, outcome>>
vars == <<info, refreshes, callVars, stage, queryVars, gateVars>>

Init ==
  /\ info = 0
  /\ refreshes = 0
  /\ phase = [c \in Call |-> "idle"]
  /\ workers = [c \in Call |-> 0]
  /\ late = {}
  /\ stage = [q \in Query |-> "none"]
  /\ retries = [q \in Query |-> 0]
  /\ lateHttp = {}
  /\ outcome = [q \in Query |-> "none"]
  /\ GateInit

-----------------------------------------------------------------------------
\* The calling thread.
PhaseGoto(c, from, to) == phase[c] = from /\ phase' = [phase EXCEPT ![c] = to]

StageGoto(q, from, to) == stage[q] = from /\ stage' = [stage EXCEPT ![q] = to]

Ended(q) == stage[q] \in {"none", "ok", "failed"}
Running(q) == ~Ended(q) /\ stage[q] # "queued"

\* get_info, as one step: _info_lock is held throughout.
CacheInfo(l) == info' = l /\ SetLimit(l)

\* get_histories: _ensure_info and _check_deadline, either of which may raise, and
\* the TAGs are submitted.
Begin(c) ==
  /\ \/ /\ PhaseGoto(c, "idle", "collect")
        /\ \E l \in IF info = 0 THEN Limit ELSE {info} :
             /\ CacheInfo(l)
             /\ workers' = [workers EXCEPT ![c] =
                              IF l < Cardinality(Asks[c]) THEN l ELSE Cardinality(Asks[c])]
        /\ stage' = [q \in Query |-> IF q[1] = c THEN "queued" ELSE stage[q]]
     \/ /\ PhaseGoto(c, "idle", "failed")
        /\ UNCHANGED <<info, workers, stage, gateVars>>
  /\ UNCHANGED <<refreshes, late, queryVars>>

\* refresh_info, on any thread; the server may have been reconfigured.
Refresh ==
  /\ refreshes < MaxRefreshes
  /\ refreshes' = refreshes + 1
  /\ \E l \in Limit : CacheInfo(l)
  /\ UNCHANGED <<callVars, stage, queryVars>>

\* The pool is left once every query has ended; the first that failed, if any,
\* is raised.
Return(c) ==
  /\ \A q \in Queries(c) : Ended(q)
  /\ PhaseGoto(c, "collect", IF \E q \in Queries(c) : stage[q] = "failed"
                             THEN "failed" ELSE "returned")
  /\ UNCHANGED <<info, refreshes, workers, late, stage, queryVars, gateVars>>

-----------------------------------------------------------------------------
\* The workers: _get_history_validated.

\* A free worker takes the query; _ensure_info, _check_deadline.
Take(q) ==
  /\ Cardinality({r \in Queries(q[1]) : Running(r)}) < workers[q[1]]
  /\ StageGoto(q, "queued", IF q[1] \in late THEN "failed" ELSE "gate")
  /\ CacheInfo(info)
  /\ UNCHANGED <<refreshes, callVars, queryVars>>

Block(q) ==
  /\ stage[q] = "gate" /\ q[1] \notin late
  /\ Wait(q)
  /\ UNCHANGED <<info, refreshes, callVars, stage, queryVars>>

WaitTimesOut(q) ==
  /\ q[1] \in late
  /\ TimeOut(q)
  /\ UNCHANGED <<info, refreshes, callVars, stage, queryVars>>

\* A slip: a thread whose time is over gives up without looking for a slot.
StopOnTime(q) ==
  /\ q[1] \in late
  /\ StageGoto(q, "gate", "failed")
  /\ waiting' = waiting \ {q}
  /\ woken' = woken \ {q}
  /\ UNCHANGED <<info, refreshes, callVars, queryVars, limit, active, inside>>

StopWaiting(q) ==
  /\ q[1] \in late
  /\ GiveUp(q)
  /\ StageGoto(q, "gate", "failed")
  /\ UNCHANGED <<info, refreshes, callVars, queryVars>>

\* The slot is taken; _check_deadline; the transport starts its own deadline.
Enter(q) ==
  /\ Acquire(q)
  /\ StageGoto(q, "gate", IF q[1] \in late THEN "leave" ELSE "open")
  /\ outcome' = [outcome EXCEPT ![q] = IF q[1] \in late THEN "failed" ELSE "none"]
  /\ UNCHANGED <<info, refreshes, callVars, retries, lateHttp>>

\* The attempt ends: with a result, or an error that is raised, through the
\* lease's finally, or one that may be retried.
Finish(q, from, how) ==
  /\ \/ how = "retry" /\ StageGoto(q, from, "retry") /\ UNCHANGED outcome
     \/ /\ how \in {"ok", "failed"}
        /\ StageGoto(q, from, "leave")
        /\ outcome' = [outcome EXCEPT ![q] = how]
  /\ UNCHANGED <<info, refreshes, callVars, retries, lateHttp, gateVars>>

\* _open_stream and the status: a complete answer, one of the failures that
\* _should_retry repeats, or another.
Open(q) ==
  \/ q \notin lateHttp /\ StageGoto(q, "open", "consume")
       /\ UNCHANGED <<info, refreshes, callVars, queryVars, gateVars>>
  \/ q \notin lateHttp /\ \E how \in {"retry", "failed"} : Finish(q, "open", how)
  \/ q \in lateHttp /\ Finish(q, "open", "retry")

\* consume: _check_deadline before and after the stream is parsed; its timeout is
\* raised to the transport, which repeats a request_timeout.
Consume(q) ==
  \/ q[1] \notin late /\ \E how \in {"ok", "retry", "failed"} : Finish(q, "consume", how)
  \/ q[1] \in late /\ \E how \in {"retry", "failed"} : Finish(q, "consume", how)

\* _can_retry and _sleep_before_retry, which gives up when the pause would
\* outlast the deadline.
Retry(q) ==
  \/ /\ retries[q] < MaxRetries /\ q \notin lateHttp
     /\ StageGoto(q, "retry", "open")
     /\ retries' = [retries EXCEPT ![q] = @ + 1]
     /\ UNCHANGED <<info, refreshes, callVars, lateHttp, outcome, gateVars>>
  \/ Finish(q, "retry", "failed")

\* A slip: the release is not in a finally, and an error skips it.
LeaveHoldingSlot(q) ==
  /\ StageGoto(q, "leave", outcome[q])
  /\ IF outcome[q] = "ok" THEN Release(q) ELSE UNCHANGED gateVars
  /\ UNCHANGED <<info, refreshes, callVars, queryVars>>

\* The end of the lease, and of the transport's variables.
Leave(q) ==
  /\ StageGoto(q, "leave", outcome[q])
  /\ Release(q)
  /\ retries' = [retries EXCEPT ![q] = 0]
  /\ lateHttp' = lateHttp \ {q}
  /\ outcome' = [outcome EXCEPT ![q] = "none"]
  /\ UNCHANGED <<info, refreshes, callVars>>

\* Time passes.  A client without a total timeout is one where these do not
\* happen.
CallLate(c) ==
  /\ phase[c] = "collect"
  /\ c \notin late
  /\ late' = late \cup {c}
  /\ UNCHANGED <<info, refreshes, phase, workers, stage, queryVars, gateVars>>

HttpLate(q) ==
  /\ q[1] \in late /\ q \notin lateHttp
  /\ stage[q] \in {"open", "consume", "retry"}
  /\ lateHttp' = lateHttp \cup {q}
  /\ UNCHANGED <<info, refreshes, callVars, stage, retries, outcome, gateVars>>

Work(q) ==
  \/ Take(q) \/ Block(q) \/ WaitTimesOut(q) \/ StopWaiting(q) \/ Enter(q)
  \/ Open(q) \/ Consume(q) \/ Retry(q) \/ Leave(q)

Next ==
  \/ Refresh
  \/ \E c \in Call : Begin(c) \/ Return(c) \/ CallLate(c)
  \/ \E q \in Query : Work(q) \/ HttpLate(q)

\* Every thread runs on, and an attempt ends: timeout_seconds bounds each wait for
\* the network.  Time need not pass: there may be no total timeout.
Spec ==
  /\ Init /\ [][Next]_vars
  /\ \A c \in Call : WF_vars(Return(c))
  /\ \A q \in Query : WF_vars(Work(q))

-----------------------------------------------------------------------------
\* The queries use the gate as the gate expects, and so inherit what is proved of
\* it: only who acquired releases, once, and a timeout is reported only by a
\* thread that found no slot.
UsesGate == GateSpec

\* A query is inside the gate exactly while it talks to the server: no path, not
\* even a timeout between the slot and the request, ends a query with its slot.
SlotsFollowQueries ==
  /\ \A q \in Query : q \in inside <=> stage[q] \in {"open", "consume", "retry", "leave"}
  /\ waiting \cup woken \subseteq {q \in Query : stage[q] = "gate"}

\* Every call returns or raises: no query sleeps at the gate for ever, whatever
\* limits are announced and whichever queries fail.
CallsEnd == \A c \in Call : phase[c] = "collect" ~> phase[c] \in {"returned", "failed"}

\* total_timeout_seconds "covers queueing, request setup, retries, backoff" (class
\* DcsServiceClient): a query whose call is out of time is not tried again.
NoRetryOutOfTime ==
  [][\A q \in Query : retries'[q] > retries[q] => q[1] \notin late]_vars
=============================================================================
