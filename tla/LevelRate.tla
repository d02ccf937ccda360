----------------------------- MODULE LevelRate -----------------------------
(***************************************************************************)
(* The rule level_rate_compliance for one point: the change of a smoothed  *)
(* level over a fixed time, runs of rates above or below the limits.       *)
(*                                                                         *)
(* A point is tag, smoothing, rateWindow, low and high (limits of the      *)
(* change over rateWindow), minDuration (persistence_seconds), mergeGap,   *)
(* maxGap.                                                                 *)
(***************************************************************************)
EXTENDS HistoryQuality, HistoryContext, RunDetector

\* parse_config and _parse_smoothing
ValidRatePoint(point) ==
  /\ {point.smoothing.window, point.smoothing.minSamples} \subseteq Nat \ {0}
  /\ point.rateWindow \in Nat \ {0} /\ point.low < point.high
  /\ {point.minDuration, point.maxGap} \subseteq Nat \ {0} /\ point.mergeGap \in Nat

Direction(point, change) ==
  IF change < point.low THEN "rate_down"
  ELSE IF change > point.high THEN "rate_up" ELSE "none"

\* _interpolate, where target is not before the first level: the level at target, on
\* the straight line between the levels beside it.
Interpolate(levels, target, i) ==
  LET right == CHOOSE j \in 1..i : /\ levels[j].time >= target
                                   /\ \A k \in 1..(j - 1) : levels[k].time < target
      left  == right - 1
  IN  IF levels[right].time = target THEN levels[right].value
      ELSE levels[left].value
             + ((levels[right].value - levels[left].value) * (target - levels[left].time))
                 \div (levels[right].time - levels[left].time)

\* calculate_rate_points for one segment: the rates that its levels reach back for.
SegmentRates(point, segment, number) ==
  LET levels   == Smooth(segment, point.smoothing)
      target(i) == levels[i].time - point.rateWindow
      rated    == Subsequence([i \in DOMAIN levels |-> i],
                              {i \in DOMAIN levels : target(i) >= levels[1].time})
      change(i) == levels[i].value - Interpolate(levels, target(i), i)
  IN  [k \in DOMAIN rated |->
         [time |-> levels[rated[k]].time, segment |-> number,
          dir  |-> Direction(point, change(rated[k]))]]

RatePoints(point, samples) ==
  LET segments == PrepareNumericHistory(samples, point.maxGap).segments
      first[k \in 0..Len(segments)] ==
        IF k = 0 THEN <<>> ELSE first[k - 1] \o SegmentRates(point, segments[k], k)
  IN  first[Len(segments)]

\* detect_rate_events: a new segment is a hole.
DetectRateEvents(point, rates, horizon) ==
  DetectRuns(point,
             [i \in DOMAIN rates |->
                [time |-> rates[i].time, dir |-> rates[i].dir, valid |-> TRUE,
                 boundary |-> i > 1 /\ rates[i].segment # rates[i - 1].segment]],
             horizon)

-----------------------------------------------------------------------------
\* A slip: nothing before the window is read.
NoLookback(point) == 0

\* How far before the window evaluate reads, and until when.
LookbackOf(point) == point.rateWindow + point.smoothing.window + point.maxGap

ObservationEnd(point, end) == end + point.minDuration + point.mergeGap

\* evaluate
PointEvents(point, recorded, start, end) ==
  LET until == ObservationEnd(point, end)
      samples == GetHistory(recorded[point.tag], start - LookbackOf(point), until)
  IN  Charged(DetectRateEvents(point, RatePoints(point, samples), until), start, end)
=============================================================================
