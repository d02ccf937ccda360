---------------------------- MODULE AnalogLimit ----------------------------
(***************************************************************************)
(* The rule analog_limit_exceedance (rules/analog_limit_exceedance) for a  *)
(* set of points: a value above the high or below the low limit for longer *)
(* than a minimum, where a recovery no longer than the merge gap does not  *)
(* end an exceedance.                                                      *)
(*                                                                         *)
(* A point is a record: tag; low and high, each with enabled, limit,       *)
(* minDuration and mergeGap; smoothing; maxEvents (0: no limit).  An       *)
(* exceedance is start, end, type and open.                                *)
(***************************************************************************)
EXTENDS HistoryQuality, HistoryContext, FiniteSetsExt

CONFIRMATION_MARGIN == 1
Sides == {"low", "high"}

\* _parse_side and _parse_smoothing
ValidSide(side) == side.minDuration \in Nat \ {0} /\ side.mergeGap \in Nat
ValidSmoothing(smoothing) == {smoothing.window, smoothing.minSamples} \subseteq Nat \ {0}

\* _parse_point: a side is enabled, and the normal band is not empty.
ValidPoint(point) ==
  /\ ValidSide(point.low) /\ ValidSide(point.high) /\ ValidSmoothing(point.smoothing)
  /\ \E side \in Sides : point[side].enabled
  /\ point.low.enabled /\ point.high.enabled => point.low.limit < point.high.limit
  /\ point.maxEvents \in Nat

\* parse_config: no two points assess the same TAG.
ValidPoints(points) ==
  /\ IsFiniteSet(points)
  /\ \A point \in points : ValidPoint(point)
  /\ \A p, q \in points : p.tag = q.tag => p = q

\* smooth_history_segments: the segments of good readings, smoothed, and for each
\* whether a break ends it.
SmoothSegments(samples, smoothing) ==
  LET p == PrepareNumericHistory(samples, 0)
      bounded(i) ==
        \E b \in p.breaks : /\ b >= Last(p.segments[i]).time
                            /\ i < Len(p.segments) => b <= p.segments[i + 1][1].time
      all == {[samples |-> Smooth(p.segments[i], smoothing), bounded |-> bounded(i)] :
                i \in DOMAIN p.segments}
  IN  {segment \in all : segment.samples # <<>>}

-----------------------------------------------------------------------------
\* AnalogLimitExceedanceDetector.  A run is a side, its start, and the first good
\* reading after it (pending, 0: none), if it may yet be resumed.
Classify(point, value) ==
  IF point.low.enabled /\ value < point.low.limit THEN "low"
  ELSE IF point.high.enabled /\ value > point.high.limit THEN "high" ELSE "normal"

NoRun == [side |-> "none", start |-> 0, pending |-> 0]
NewRun(side, time) == [side |-> side, start |-> time, pending |-> 0]

\* _append_closed and _append_open: only what lasts longer than the minimum counts.
Qualified(point, run, end, open) ==
  IF end - run.start > point[run.side].minDuration
  THEN {[start |-> run.start, end |-> end, type |-> run.side, open |-> open]}
  ELSE {}

Closed(point, run, end) == Qualified(point, run, end, FALSE)

\* A slip: the time that may pass before a run is resumed is counted from its start.
ResumesFromStart(point, run, time) ==
  run.pending = 0 \/ time - run.start <= point[run.side].mergeGap

\* Whether a deviation at time, to the same side, belongs to the run.
Resumes(point, run, time) ==
  run.pending = 0 \/ time - run.pending <= point[run.side].mergeGap

\* One reading while no run is known.  A first reading that is abnormal starts one
\* only if the caller asks for it: nobody saw when it became so.
StepIdle(d, kind, time, allowInitial) ==
  LET begins == /\ kind # "normal" /\ kind # d.state
                /\ d.state = "unknown" => allowInitial
  IN  [d EXCEPT !.state = kind, !.run = IF begins THEN NewRun(kind, time) ELSE NoRun]

\* One reading while there is a run: it goes on, recovers, is resumed too late, or
\* is replaced by one to the other side.
StepRun(point, d, kind, time) ==
  LET run == d.run
      end == IF run.pending # 0 THEN run.pending ELSE time
  IN  CASE kind = "normal" -> [d EXCEPT !.run.pending = end]
        [] kind = run.side /\ Resumes(point, run, time) -> [d EXCEPT !.run.pending = 0]
        [] OTHER -> [state |-> kind, run |-> NewRun(kind, time),
                     found |-> d.found \cup Closed(point, run, end)]

Step(point, d, sample, allowInitial) ==
  LET kind == Classify(point, sample.value)
  IN  IF d.run = NoRun THEN StepIdle(d, kind, sample.time, allowInitial)
      ELSE StepRun(point, d, kind, sample.time)

\* A slip: whatever the last reading before start was, all is taken to be well.
DetectorFromNormal(point, previous) ==
  [state |-> "normal", found |-> {}, run |-> NoRun]

\* The state at start, from the last reading before it.
DetectorFrom(point, previous) ==
  LET kind == IF previous = <<>> THEN "unknown" ELSE Classify(point, Last(previous).value)
  IN  [state |-> kind, found |-> {},
       run   |-> IF kind \in Sides THEN NewRun(kind, Last(previous).time) ELSE NoRun]

\* The run that is left when the readings end: at a recovery, at the boundary of the
\* segment (0: none), or not known to be over at the horizon.
Remaining(point, run, horizon, boundary) ==
  IF run = NoRun THEN {}
  ELSE IF run.pending # 0 THEN Closed(point, run, run.pending)
  ELSE IF boundary # 0 THEN Closed(point, run, boundary)
  ELSE Qualified(point, run, horizon, TRUE)

\* detect: what is found in the readings of [start, horizon).
Detect(point, samples, start, horizon, boundary, allowInitial) ==
  LET current == GetHistory(samples, start, horizon)
      after[i \in 0..Len(current)] ==
        IF i = 0 THEN DetectorFrom(point, SubSeq(samples, 1, Earlier(samples, start)))
        ELSE Step(point, after[i - 1], current[i], allowInitial)
      d == after[Len(current)]
  IN  {o \in d.found \cup Remaining(point, d.run, horizon, boundary) :
         start <= o.start /\ o.start < horizon}

-----------------------------------------------------------------------------
\* _max_confirmation_tail_seconds
ConfirmationTail(points) ==
  Max({0} \cup {ps[1][ps[2]].minDuration + ps[1][ps[2]].mergeGap :
                 ps \in {qs \in points \X Sides : qs[1][qs[2]].enabled}})

\* _max_smoothing_window_seconds
SmoothingWindow(points) ==
  Max({0} \cup {p.smoothing.window : p \in {q \in points : q.smoothing.enabled}})

\* A slip: the history is read up to the end of the window.
WindowOnly(points, end) == end

\* Until when evaluate reads: long enough to see what begins in the window qualify.
QueryEnd(points, end) == end + ConfirmationTail(points) + CONFIRMATION_MARGIN

\* What the rule reads to assess from start on, per TAG.
Histories(points, recorded, start, until, steps) ==
  WithPreviousSamples(recorded, {p.tag : p \in points}, start - SmoothingWindow(points),
                      until, steps)

\* The first of the events, as many as may be charged for a point and window.
Capped(point, events) ==
  {e \in events : \/ point.maxEvents = 0
                  \/ Cardinality({f \in events : f.start < e.start}) < point.maxEvents}

\* Only what began in the window is charged to it.
Owned(o, start, end) == start <= o.start /\ o.start < end

\* evaluate, for one of the points that are assessed together.
PointEvents(points, point, recorded, start, end, steps) ==
  LET until    == QueryEnd(points, end)
      segments == SmoothSegments(Histories(points, recorded, start, until, steps)[point.tag],
                                 point.smoothing)
      found(segment) == Detect(point, segment.samples, start, until,
                               IF segment.bounded THEN Last(segment.samples).time ELSE 0,
                               FALSE)
  IN  Capped(point, {o \in UNION {found(s) : s \in segments} : Owned(o, start, end)})
=============================================================================
