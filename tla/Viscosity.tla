----------------------------- MODULE Viscosity -----------------------------
(***************************************************************************)
(* The rule component_viscosity_control for one point: medians of fixed    *)
(* buckets, their trailing mean, disturbances cut out of it, and what is   *)
(* left judged by the detector of analog_limit_exceedance.  A long         *)
(* exceedance is penalised repeatedly.                                     *)
(*                                                                         *)
(* A point is tag, bucket, bucketMin, smoothing (enabled, window,          *)
(* minSamples), low, high, minDuration, mergeGap, exclusion (enabled,      *)
(* method, baseline, deviation, window, range, mergeGap, removeAfter) and  *)
(* penalty (enabled, interval, maxUnits; 0: no limit).  A metric is a      *)
(* sequence of time, value and segment, ordered by time.                   *)
(***************************************************************************)
EXTENDS AnalogLimit

Methods == {"rolling_range", "robust_deviation"}

\* _parse_exclusion and _parse_repeat_penalty
ValidExclusion(exclusion, bucket) ==
  /\ exclusion.method \in Methods
  /\ {exclusion.deviation, exclusion.range, exclusion.window, exclusion.removeAfter}
       \subseteq Nat \ {0}
  /\ exclusion.baseline \in Int /\ exclusion.mergeGap \in Nat
  /\ exclusion.method = "rolling_range" => exclusion.window % bucket = 0

ValidPenalty(penalty) ==
  penalty.maxUnits \in Nat /\ (penalty.enabled => penalty.interval \in Nat \ {0})

\* _parse_point
ValidViscosityPoint(point) ==
  /\ {point.bucket, point.bucketMin, point.minDuration} \subseteq Nat \ {0}
  /\ ValidSmoothing(point.smoothing)
  /\ point.smoothing.enabled => point.smoothing.window % point.bucket = 0
  /\ point.low < point.high /\ point.mergeGap \in Nat
  /\ ValidExclusion(point.exclusion, point.bucket)
  /\ ValidPenalty(point.penalty)

-----------------------------------------------------------------------------
\* The k-th smallest of some values.
Smallest(values, k) ==
  CHOOSE v \in Range(values) : /\ Cardinality({i \in DOMAIN values : values[i] < v}) < k
                               /\ k <= Cardinality({i \in DOMAIN values : values[i] <= v})

\* statistics.median
Median(values) ==
  LET n == Len(values)
  IN  IF n % 2 = 1 THEN Smallest(values, (n + 1) \div 2)
      ELSE (Smallest(values, n \div 2) + Smallest(values, n \div 2 + 1)) \div 2

\* The medians of one segment, and of all: two segments may meet in one bucket.
SegmentMedians(point, segment, number) ==
  LET of(t)   == Subsequence(segment, {i \in DOMAIN segment :
                               segment[i].time - (segment[i].time % point.bucket) = t})
      buckets == Subsequence([k \in 1..(Last(segment).time + 1) |-> k - 1],
                             {k \in 1..(Last(segment).time + 1) :
                                Len(of(k - 1)) >= point.bucketMin})
      value(t) == Median([i \in 1..Len(of(t)) |-> of(t)[i].value])
  IN  [i \in DOMAIN buckets |->
         [time |-> buckets[i], segment |-> number, value |-> value(buckets[i])]]

\* aggregate_minute_medians: a gap longer than a bucket separates segments.
MinuteMedians(point, samples) ==
  LET segments == PrepareNumericHistory(samples, point.bucket).segments
      first[k \in 0..Len(segments)] ==
        IF k = 0 THEN <<>> ELSE first[k - 1] \o SegmentMedians(point, segments[k], k)
  IN  first[Len(segments)]

\* Whether the item at i follows the one before it without a gap.
Follows(point, items, i) ==
  /\ items[i].segment = items[i - 1].segment
  /\ items[i].time = items[i - 1].time + point.bucket

\* Where a window of n items without a gap ends.
WindowEnds(point, items, n) ==
  Subsequence([i \in DOMAIN items |-> i],
              {i \in DOMAIN items : /\ i >= n
                                    /\ \A j \in (i - n + 2)..i : Follows(point, items, j)})

\* calculate_trailing_mean: only complete windows have a mean.
BucketMeans(point, minutes) ==
  LET n    == point.smoothing.window \div point.bucket
      ends == IF n < point.smoothing.minSamples THEN <<>> ELSE WindowEnds(point, minutes, n)
      mean(i) == SumAt(minutes, (i - n + 1)..i) \div n
  IN  [k \in DOMAIN ends |-> [minutes[ends[k]] EXCEPT !.value = mean(ends[k])]]

\* calculate_metric
Metric(point, samples) ==
  IF point.smoothing.enabled THEN BucketMeans(point, MinuteMedians(point, samples))
  ELSE MinuteMedians(point, samples)

-----------------------------------------------------------------------------
Distance(a, b) == IF a < b THEN b - a ELSE a - b

\* detect_disturbance_windows, robust_deviation: runs of deviating items, each until the
\* next good one, or until its last bucket is over.
DeviationIntervals(point, metric) ==
  LET off(i)   == Distance(metric[i].value, point.exclusion.baseline) > point.exclusion.deviation
      joins(i) == i > 1 /\ off(i - 1) /\ Follows(point, metric, i)
      starts   == {i \in DOMAIN metric : off(i) /\ ~joins(i)}
      last(i)  == Max({j \in i..Len(metric) : \A k \in (i + 1)..j : off(k) /\ joins(k)})
      end(j)   == IF j < Len(metric) /\ ~off(j + 1) THEN metric[j + 1].time
                  ELSE metric[j].time + point.bucket
  IN  {[start |-> metric[i].time, end |-> end(last(i))] : i \in starts}

\* _detect_rolling_range_windows: where the values of a window differ too much, from the
\* first of the largest changes in it.
RollingIntervals(point, metric) ==
  LET n == point.exclusion.window \div point.bucket
      values(i)  == {metric[j].value : j \in (i - n + 1)..i}
      change(j)  == Distance(metric[j].value, metric[j - 1].value)
      jumps(i)   == {j \in (i - n + 2)..i : \A k \in (i - n + 2)..i : change(k) <= change(j)}
      wide       == {i \in Range(WindowEnds(point, metric, n)) :
                       Max(values(i)) - Min(values(i)) > point.exclusion.range}
  IN  IF n < 2 THEN {}
      ELSE {[start |-> metric[Min(jumps(i))].time, end |-> metric[i].time + point.bucket] :
              i \in wide}

\* _merge_intervals: one that begins more than gap after all earlier ones ended is new.
MergeIntervals(intervals, gap) ==
  LET starts == {i.start : i \in {j \in intervals :
                   \A k \in intervals : k.start < j.start => j.start - k.end > gap}}
      within(s) == {i \in intervals : /\ s <= i.start
                                      /\ \A t \in starts : s < t => i.start < t}
  IN  {[start |-> s, end |-> Max({i.end : i \in within(s)})] : s \in starts}

\* The disturbances, each with the end of what is removed for it.
Disturbances(point, metric) ==
  LET found == IF point.exclusion.method = "rolling_range" THEN RollingIntervals(point, metric)
               ELSE DeviationIntervals(point, metric)
  IN  IF ~point.exclusion.enabled THEN {}
      ELSE {[start |-> d.start, end |-> d.end, until |-> d.start + point.exclusion.removeAfter] :
              d \in MergeIntervals(found, point.exclusion.mergeGap)}

\* exclude_disturbances
Exclude(metric, disturbances) ==
  Subsequence(metric, {i \in DOMAIN metric :
    ~\E d \in disturbances : d.start <= metric[i].time /\ metric[i].time < d.until})

\* A slip: only holes in the data separate segments.
SplitAtHoles(point, metric) ==
  LET numbers == {metric[i].segment : i \in DOMAIN metric}
  IN  {Subsequence(metric, {i \in DOMAIN metric : metric[i].segment = k}) : k \in numbers}

\* split_contiguous_segments
SplitContiguous(point, metric) ==
  LET starts == {i \in DOMAIN metric : i = 1 \/ ~Follows(point, metric, i)}
      end(i) == Min({j - 1 : j \in {k \in starts : k > i}} \cup {Len(metric)})
  IN  {SubSeq(metric, i, end(i)) : i \in starts}

\* A slip: a segment after a disturbance is like one after a hole.
FollowsNothing(segment, clean, disturbances) == FALSE

\* _segment_follows_exclusion: it is the first one that is left after a disturbance.
FollowsExclusion(segment, clean, disturbances) ==
  \E d \in disturbances :
    /\ d.until <= segment[1].time
    /\ ~\E m \in Range(clean) : d.until <= m.time /\ m.time < segment[1].time

-----------------------------------------------------------------------------
\* A slip: the minimum does not count as the first interval.
UnitsFromStart(point, duration) ==
  IF duration < point.minDuration THEN 0 ELSE duration \div point.penalty.interval

\* calculate_penalty_units: one when the minimum is reached, one for each interval after.
PenaltyUnits(point, duration) ==
  LET units == IF point.penalty.enabled
               THEN 1 + ((duration - point.minDuration) \div point.penalty.interval) ELSE 1
  IN  IF duration < point.minDuration THEN 0
      ELSE IF point.penalty.maxUnits = 0 THEN units ELSE Min({units, point.penalty.maxUnits})

\* calculate_penalty_checkpoints
Checkpoints(point, start, duration) ==
  IF PenaltyUnits(point, duration) = 0 THEN {}
  ELSE IF point.penalty.enabled
  THEN {start + point.minDuration + k * point.penalty.interval :
          k \in 0..(PenaltyUnits(point, duration) - 1)}
  ELSE {start + point.minDuration}

\* build_history_query_range
QueryStart(point, start) ==
  start - (IF point.smoothing.enabled THEN point.smoothing.window ELSE point.bucket)
        - point.bucket - (IF point.exclusion.enabled THEN point.exclusion.removeAfter ELSE 0)
ViscosityEnd(point, end) ==
  end + point.minDuration + point.mergeGap + point.bucket + CONFIRMATION_MARGIN

\* _generic_point_config
GenericPoint(point) ==
  LET side(limit) == [enabled |-> TRUE, limit |-> limit,
                      minDuration |-> point.minDuration, mergeGap |-> point.mergeGap]
  IN  [tag |-> point.tag, low |-> side(point.low), high |-> side(point.high)]

\* What evaluate finds in one segment of the clean metric.
SegmentEvents(point, segment, allowInitial, start, end) ==
  LET over    == Last(segment).time + point.bucket
      horizon == Min({ViscosityEnd(point, end), over})
  IN  IF over <= start THEN {}
      ELSE {o \in Detect(GenericPoint(point), segment, start, horizon, 0, allowInitial) :
              Owned(o, start, end) /\ o.end > o.start}

\* The metric and the disturbances that evaluate sees.
MetricOf(point, recorded, from, to) == Metric(point, GetHistory(recorded[point.tag], from, to))

\* evaluate
ViscosityEvents(point, recorded, start, end) ==
  LET metric == MetricOf(point, recorded, QueryStart(point, start), ViscosityEnd(point, end))
      disturbances == Disturbances(point, metric)
      clean == Exclude(metric, disturbances)
      events(segment) == SegmentEvents(point, segment,
                                       FollowsExclusion(segment, clean, disturbances), start, end)
  IN  {[start |-> o.start, end |-> o.end, type |-> o.type, open |-> o.open,
        units |-> PenaltyUnits(point, o.end - o.start),
        checkpoints |-> Checkpoints(point, o.start, o.end - o.start)] :
         o \in UNION {events(segment) : segment \in SplitContiguous(point, clean)}}
=============================================================================
