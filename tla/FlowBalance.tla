---------------------------- MODULE FlowBalance ----------------------------
(***************************************************************************)
(* The rule flow_balance_compliance for one point: the flow of one TAG     *)
(* (logic) against the sum of others (sy), on a common timeline.           *)
(*                                                                         *)
(* A point is logic, sy, low and high (limits of the difference),          *)
(* smoothing, minDuration, mergeGap, maxGap.                               *)
(***************************************************************************)
EXTENDS HistoryQuality, HistoryContext, RunDetector, FiniteSetsExt

\* parse_config and _parse_smoothing
ValidFlowPoint(point) ==
  /\ Cardinality(point.sy) = 2 /\ point.logic \notin point.sy
  /\ {point.smoothing.window, point.smoothing.minSamples} \subseteq Nat \ {0}
  /\ point.low < point.high
  /\ {point.minDuration, point.maxGap} \subseteq Nat \ {0} /\ point.mergeGap \in Nat

PointTags(point) == {point.logic} \cup point.sy

Direction(point, difference) ==
  IF difference < point.low THEN "flow_low"
  ELSE IF difference > point.high THEN "flow_high" ELSE "none"

\* The smoothed readings of a TAG, each with the number of its segment, and its breaks.
PreparedTag(point, samples) ==
  LET p == PrepareNumericHistory(samples, point.maxGap)
      numbered(k) == LET line == Smooth(p.segments[k], point.smoothing)
                     IN  [i \in DOMAIN line |-> [sample |-> line[i], segment |-> k]]
      first[k \in 0..Len(p.segments)] ==
        IF k = 0 THEN <<>> ELSE first[k - 1] \o numbered(k)
  IN  [line |-> first[Len(p.segments)], breaks |-> p.breaks]

\* The reading of a TAG that is still current when time comes: the last one, unless a
\* break has come after it.
CurrentBefore(prepared, time) ==
  LET seen == SelectSeq(prepared.line, LAMBDA item : item.sample.time < time)
  IN  IF \/ seen = <<>>
         \/ \E b \in prepared.breaks : Last(seen).sample.time < b /\ b < time
      THEN <<>> ELSE <<Last(seen)>>

\* A break at time forgets it, then the readings of this time follow each other.
LineAt(prepared, time) ==
  (IF time \in prepared.breaks THEN <<>> ELSE CurrentBefore(prepared, time))
    \o SelectSeq(prepared.line, LAMBDA item : item.sample.time = time)

\* A TAG is interrupted when its current reading is forgotten, or followed by one of
\* another segment.
Interrupted(prepared, time) ==
  \/ time \in prepared.breaks /\ CurrentBefore(prepared, time) # <<>>
  \/ LET line == LineAt(prepared, time)
     IN  \E i \in 2..Len(line) : line[i].segment # line[i - 1].segment

\* _all_current_values_are_valid
Usable(point, lines, time) ==
  \A tag \in DOMAIN lines :
    lines[tag] # <<>> /\ time - Last(lines[tag]).sample.time <= point.maxGap

\* build_flow_balance_timeline for one time.
ObservationAt(point, prepared, time) ==
  LET lines      == [tag \in PointTags(point) |-> LineAt(prepared[tag], time)]
      valid      == Usable(point, lines, time)
      value(tag) == Last(lines[tag]).sample.value
      total      == FoldFunction(+, 0, [tag \in point.sy |-> value(tag)])
  IN  [time |-> time, valid |-> valid,
       boundary |-> \E tag \in PointTags(point) : Interrupted(prepared[tag], time),
       dir |-> IF valid THEN Direction(point, value(point.logic) - total) ELSE "none"]

\* build_flow_balance_timeline, given the prepared readings of each TAG.
Timeline(point, prepared) ==
  LET times    == UNION {prepared[tag].breaks
                           \cup {item.sample.time : item \in Range(prepared[tag].line)} :
                           tag \in DOMAIN prepared}
      order    == Subsequence([t \in 1..Max({0} \cup times) |-> t], times)
  IN  [i \in DOMAIN order |-> ObservationAt(point, prepared, order[i])]

\* The timeline of the readings of a range.  (One, as the member of a set, so that TLC
\* computes it once.)
Timelines(point, recorded, from, to) ==
  LET histories == GetHistories(recorded, PointTags(point), from, to)
  IN  {Timeline(point, prepared) :
         prepared \in {[tag \in PointTags(point) |-> PreparedTag(point, histories[tag])]}}

-----------------------------------------------------------------------------
\* A slip: nothing before the window is read.
NoLookback(point) == 0

\* How far before the window evaluate reads, and until when.
LookbackOf(point) == point.smoothing.window + point.maxGap

ObservationEnd(point, end) == end + point.minDuration + point.mergeGap

\* evaluate
PointEvents(point, recorded, start, end) ==
  LET until == ObservationEnd(point, end)
  IN  UNION {Charged(DetectRuns(point, timeline, until), start, end) :
               timeline \in Timelines(point, recorded, start - LookbackOf(point), until)}
=============================================================================
