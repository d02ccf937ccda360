------------------------------- MODULE Trend -------------------------------
(***************************************************************************)
(* The rule analog_trend_stability for one point: a rolling mean of the    *)
(* readings, the readings that deviate from it (stability), and changes of *)
(* the mean over several horizons (drift), which are merged.               *)
(*                                                                         *)
(* A point is tag, maxGap, alignment, window (even), minSamples, stability *)
(* (enabled, warning, high, minDuration, mergeGap) and drift (enabled,     *)
(* mergeGap, windows: id, length, warning, high, minDuration).  A metric   *)
(* is a sequence of time and value ordered by time; an observation is      *)
(* time, dir ("none" when all is well) and high.                           *)
(***************************************************************************)
EXTENDS HistoryQuality, HistoryContext, FiniteSetsExt

\* _parse_trend, _parse_stability and _parse_drift
ValidTrendPoint(point) ==
  /\ point.alignment \in {"centered", "trailing"}
  /\ {point.maxGap, point.window, point.minSamples, point.stability.minDuration}
       \subseteq Nat \ {0}
  /\ {point.stability.warning, point.stability.high, point.stability.mergeGap,
      point.drift.mergeGap} \subseteq Nat
  /\ point.stability.warning < point.stability.high
  /\ IsFiniteSet(point.drift.windows)
  /\ point.drift.enabled => point.drift.windows # {}
  /\ \A w \in point.drift.windows : /\ {w.warning, w.high} \subseteq Nat /\ w.warning < w.high
                                    /\ {w.length, w.minDuration} \subseteq Nat \ {0}
                                    /\ \A v \in point.drift.windows : v.id = w.id => v = w

\* How far the mean at a time reaches back and ahead.
TrendLeft(point) == IF point.alignment = "centered" THEN point.window \div 2 ELSE point.window
TrendRight(point) == IF point.alignment = "centered" THEN point.window \div 2 ELSE 0

\* split_numeric_segments
NumericSegments(point, samples) == PrepareNumericHistory(samples, point.maxGap).segments

\* rolling_mean: a trend wherever enough readings are near; pv is the reading there.
RollingMean(point, segment) ==
  LET near(t)  == {j \in DOMAIN segment : /\ t - TrendLeft(point) <= segment[j].time
                                          /\ segment[j].time <= t + TrendRight(point)}
      mean(t)  == SumAt(segment, near(t)) \div Cardinality(near(t))
      enough   == Subsequence(segment, {i \in DOMAIN segment :
                    Cardinality(near(segment[i].time)) >= point.minSamples})
      after[i \in 0..Len(enough)] ==
        IF i = 0 THEN <<>>
        ELSE Append(after[i - 1], [time |-> enough[i].time, pv |-> enough[i].value,
                                   value |-> mean(enough[i].time)])
  IN  after[Len(enough)]

\* _interpolate_with_pointer: the trend at time, which is not after the last; as a
\* sequence of at most one value.
TrendAt(trend, time) ==
  LET n     == Cardinality({i \in DOMAIN trend : trend[i].time <= time})
      left  == trend[n]
      right == trend[n + 1]
  IN  IF n = 0 THEN <<>>
      ELSE IF left.time = time THEN <<left.value>>
      ELSE <<left.value + ((right.value - left.value) * (time - left.time))
                            \div (right.time - left.time)>>

\* calculate_drift for one window: the change of the trend over its length.
DriftPoints(trend, window) ==
  LET old(i)  == TrendAt(trend, trend[i].time - window.length)
      known   == Subsequence([i \in DOMAIN trend |-> i], {i \in DOMAIN trend : old(i) # <<>>})
      after[k \in 0..Len(known)] ==
        IF k = 0 THEN <<>>
        ELSE Append(after[k - 1], [time  |-> trend[known[k]].time,
                                   value |-> trend[known[k]].value - old(known[k])[1]])
  IN  after[Len(known)]

-----------------------------------------------------------------------------
Size(v) == IF v < 0 THEN -v ELSE v

\* A deviation has no direction; the change of a drift has.
StabilityObs(point, item) ==
  [time |-> item.time, high |-> Size(item.pv - item.value) > point.stability.high,
   dir  |-> IF Size(item.pv - item.value) > point.stability.warning THEN "off" ELSE "none"]
DriftObs(window, item) ==
  [time |-> item.time, high |-> Size(item.value) > window.high,
   dir  |-> IF Size(item.value) <= window.warning THEN "none"
            ELSE IF item.value > 0 THEN "up" ELSE "down"]

NoRun == [dir |-> "none", start |-> 0, pending |-> 0, high |-> FALSE]
NewRun(obs) == [dir |-> obs.dir, start |-> obs.time, pending |-> 0, high |-> obs.high]

\* _append_qualified_stability and _append_qualified_drift
Qualified(run, end, minDuration) ==
  IF end > run.start /\ end - run.start >= minDuration
  THEN {[start |-> run.start, end |-> end, dir |-> run.dir, high |-> run.high]}
  ELSE {}

\* A slip: a run that is resumed keeps the recovery it had.
ResumeKeepsRecovery(d, obs) == [d EXCEPT !.run.high = @ \/ obs.high]

\* resume and add_abnormal
Resume(d, obs) == [d EXCEPT !.run.pending = 0, !.run.high = @ \/ obs.high]

\* One observation of detect_stability_events or _detect_one_drift_window.
TrendStep(d, obs, minDuration, mergeGap) ==
  LET run == d.run
      end == IF run.pending # 0 THEN run.pending ELSE obs.time
  IN  CASE obs.dir = "none" /\ run = NoRun -> d
        [] obs.dir = "none" /\ run # NoRun -> [d EXCEPT !.run.pending = end]
        [] obs.dir # "none" /\ run = NoRun -> [d EXCEPT !.run = NewRun(obs)]
        [] run # NoRun /\ obs.dir = run.dir /\ obs.time - end <= mergeGap -> Resume(d, obs)
        [] OTHER -> [run |-> NewRun(obs), found |-> d.found \cup Qualified(run, end, minDuration)]

\* detect_stability_events and _detect_one_drift_window; horizon is observation_end.
DetectTrendRuns(line, minDuration, mergeGap, horizon) ==
  LET after[i \in 0..Len(line)] ==
        IF i = 0 THEN [run |-> NoRun, found |-> {}]
        ELSE TrendStep(after[i - 1], line[i], minDuration, mergeGap)
      d    == after[Len(line)]
      last == IF d.run.pending # 0 THEN d.run.pending ELSE horizon
  IN  d.found \cup (IF d.run = NoRun THEN {} ELSE Qualified(d.run, last, minDuration))

\* A slip: the later of two that are merged gives the end.
EndOfLater(left, right) == right.end

\* The end of two drifts that are merged.
EndOfBoth(left, right) == Max({left.end, right.end})

\* _merge_drift_pair
MergePair(left, right) ==
  [left EXCEPT !.end = EndOfBoth(left, right), !.high = @ \/ right.high,
               !.windows = @ \cup right.windows]

\* A slip: only drifts that overlap are merged, whatever mergeGap says.
OverlapsNearby(left, right, mergeGap) == left.dir = right.dir /\ right.start < left.end

\* Whether the next drift belongs to the current one.
Nearby(left, right, mergeGap) == left.dir = right.dir /\ right.start <= left.end + mergeGap

\* merge_drift_occurrences: in the order of their starts, down before up, each is merged
\* with the one before it or follows it.
MergeDrifts(drifts, mergeGap) ==
  LET key(o)  == 2 * o.start + (IF o.dir = "up" THEN 1 ELSE 0)
      line    == CHOOSE l \in [1..Cardinality(drifts) -> drifts] :
                   /\ Range(l) = drifts
                   /\ \A i, j \in DOMAIN l : i < j => key(l[i]) <= key(l[j])
      after[i \in 0..Len(line)] ==
        IF i = 0 THEN <<>>
        ELSE LET m == after[i - 1]
             IN  IF m # <<>> /\ Nearby(Last(m), line[i], mergeGap)
                 THEN [m EXCEPT ![Len(m)] = MergePair(@, line[i])]
                 ELSE Append(m, line[i])
  IN  Range(after[Len(line)])

-----------------------------------------------------------------------------
\* A slip: only the mean needs readings before the window.
NoDriftPadding(point) == TrendLeft(point)

\* _point_padding
LeftPadding(point) ==
  TrendLeft(point) + (IF point.drift.enabled
                      THEN Max({0} \cup {w.length : w \in point.drift.windows}) ELSE 0)

\* _slice_metric_points
SliceMetric(line, start, end) ==
  Between(line, start, end)

\* _metric_observation_end, of the times of the points of a segment
ObservationEnd(times, end) == Min({end, Max({0} \cup times)})

Times(line) == {item.time : item \in Range(line)}

\* What is observed in a window of one segment with this trend.
StabilityLine(point, trend, start, end) ==
  LET slice == SliceMetric(trend, start, end)
  IN  [i \in DOMAIN slice |-> StabilityObs(point, slice[i])]
DriftLine(trend, window, start, end) ==
  LET slice == SliceMetric(DriftPoints(trend, window), start, end)
  IN  [i \in DOMAIN slice |-> DriftObs(window, slice[i])]
DriftHorizon(point, trend, end) ==
  ObservationEnd(UNION {Times(DriftPoints(trend, w)) : w \in point.drift.windows}, end)

\* _clip_interval
Clipped(found, start, end) ==
  {o \in {[f EXCEPT !.start = Max({@, start}), !.end = Min({@, end})] : f \in found} :
     o.start < o.end}

\* _stability_events
StabilityEvents(point, trend, start, end) ==
  IF ~point.stability.enabled THEN {}
  ELSE Clipped(DetectTrendRuns(StabilityLine(point, trend, start, end),
                               point.stability.minDuration, point.stability.mergeGap,
                               ObservationEnd(Times(trend), end)), start, end)

\* _drift_events
DriftEvents(point, trend, start, end) ==
  LET found(w) == DetectTrendRuns(DriftLine(trend, w, start, end), w.minDuration,
                                  point.drift.mergeGap, DriftHorizon(point, trend, end))
      drifts   == UNION {{[start |-> o.start, end |-> o.end, dir |-> o.dir, high |-> o.high,
                           windows |-> {w.id}] : o \in found(w)} : w \in point.drift.windows}
  IN  IF ~point.drift.enabled THEN {}
      ELSE Clipped(MergeDrifts(drifts, point.drift.mergeGap), start, end)

\* The trends of the segments that evaluate reads for a window, or of any other range.
TrendsOf(point, recorded, from, to) ==
  LET segments == NumericSegments(point, GetHistory(recorded[point.tag], from, to))
  IN  {RollingMean(point, segments[i]) : i \in DOMAIN segments}
TrendsFor(point, recorded, start, end) ==
  TrendsOf(point, recorded, start - LeftPadding(point), end + TrendRight(point))
=============================================================================
