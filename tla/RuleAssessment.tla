--------------------------- MODULE RuleAssessment ---------------------------
(***************************************************************************)
(* The rules that read numeric histories, each assessing consecutive       *)
(* windows of a history that the historian goes on recording.              *)
(*                                                                         *)
(* The rule is chosen once; the historian records the readings of one unit *)
(* of time after another.  What a rule finds is a function of the history, *)
(* so the properties compare, in every history, what Rule.evaluate returns *)
(* with what the rule's documentation says of it.                          *)
(***************************************************************************)
EXTENDS Integers, FiniteSets, Subsequences, Runs

CONSTANTS
  Rules,            \* the rules that are assessed
  First, Length,    \* per rule, the start of the first window; the length of each of the
                    \* two
  Lookback,         \* DEFAULT_LOOKBACK_STEPS: increasing horizons before the window
  Reading,          \* per rule, what one unit of time may add: functions from TAGs
                    \* to sequences of value and good
  Usual,            \* per rule, the readings that may come any number of times
  MaxOdd,           \* bound per rule: units of time with other readings
  Began,            \* when the historian begins; 0 is no time at all
  MaxTime,          \* bound per rule: the last time the historian records
  LimitPoints,      \* the points of analog_limit_exceedance
  FlowPoint,        \* the point of flow_balance_compliance
  RatePoint,        \* the point of level_rate_compliance
  PumpPoints,       \* the points of pump_flow_compliance
  ViscosityPoints,  \* alternative points of component_viscosity_control
  TrendPoints       \* alternative points of analog_trend_stability

\* Every bucket of readings begins at a time.
ASSUME BeganAssumption ==
  Began \in Nat \ {0} /\ \A point \in ViscosityPoints : point.bucket <= Began
\* Each unit of time adds readings of the same TAGs; windows and horizons are not empty.
ASSUME ReadingAssumption ==
  \A r \in Rules : \A one, other \in Reading[r] :
    /\ DOMAIN one = DOMAIN other
    /\ \A tag \in DOMAIN one : one[tag] \in Seq([value : Int, good : BOOLEAN])
ASSUME WindowAssumption ==
  \A r \in Rules : First[r] \in Nat /\ Length[r] \in Nat \ {0}
ASSUME LookbackAssumption ==
  /\ Lookback \in Seq(Nat \ {0}) /\ Lookback # <<>>
  /\ \A i, j \in 1..Len(Lookback) : i < j => Lookback[i] < Lookback[j]

VARIABLES
  rule,             \* the rule that is assessed
  now,              \* every reading before now is recorded
  odd,              \* how many units of time had unusual readings
  recorded          \* the readings of each TAG

vars == <<rule, now, odd, recorded>>

Window == 1..2
Start(w) == First[rule] + (w - 1) * Length[rule]
End(w) == First[rule] + w * Length[rule]

Tags(r) == UNION {DOMAIN reading : reading \in Reading[r]}

Init ==
  /\ rule \in Rules
  /\ now = Began
  /\ odd = 0
  /\ recorded = [tag \in Tags(rule) |-> <<>>]

\* The historian records what becomes known in one unit of time.
Record ==
  /\ now <= MaxTime[rule]
  /\ now' = now + 1
  /\ \E reading \in Reading[rule] :
       /\ odd' = IF reading \in Usual[rule] THEN odd ELSE odd + 1
       /\ odd' <= MaxOdd[rule]
       /\ recorded' = [tag \in DOMAIN recorded |->
            recorded[tag] \o [i \in DOMAIN reading[tag] |->
              [time |-> now, value |-> reading[tag][i].value, good |-> reading[tag][i].good]]]
  /\ UNCHANGED rule

Next == Record

Spec == Init /\ [][Next]_vars

-----------------------------------------------------------------------------
Context == INSTANCE HistoryContext
Limit == INSTANCE AnalogLimit
Flow == INSTANCE FlowBalance
Rate == INSTANCE LevelRate
Pump == INSTANCE PumpFlow
Visc == INSTANCE Viscosity
Drift == INSTANCE Trend

\* The configurations that the rules accept.
ASSUME PointsAreValid ==
  /\ Limit!ValidPoints(LimitPoints)
  /\ Flow!ValidFlowPoint(FlowPoint)
  /\ Rate!ValidRatePoint(RatePoint)
  /\ IsFiniteSet(PumpPoints) /\ \A point \in PumpPoints : Pump!ValidPoint(point)
  /\ \A point \in ViscosityPoints : Visc!ValidViscosityPoint(point)
  /\ \A point \in TrendPoints : Drift!ValidTrendPoint(point)

\* The historian has a record, empty perhaps, of every TAG that a rule asks for.
ASSUME TagsAssumption ==
  \A r \in Rules :
    /\ r = "limit" => {point.tag : point \in LimitPoints} \subseteq Tags(r)
    /\ r = "flow" => Flow!PointTags(FlowPoint) \subseteq Tags(r)
    /\ r = "rate" => RatePoint.tag \in Tags(r)
    /\ r = "pump" => UNION {Pump!PointTags(point) : point \in PumpPoints} \subseteq Tags(r)
    /\ r = "viscosity" => {point.tag : point \in ViscosityPoints} \subseteq Tags(r)
    /\ r = "trend" => {point.tag : point \in TrendPoints} \subseteq Tags(r)

\* A rule sees each reading of its range, and for every TAG the last one before the
\* range if there is one within the lookback, however the others look.
LastBeforeIsFound ==
  LET before(tag) == Context!GetHistory(recorded[tag], Start(2) - Last(Lookback), Start(2))
      within(tag) == Context!GetHistory(recorded[tag], Start(2), End(2))
  IN  Context!WithPreviousSamples(recorded, DOMAIN recorded, Start(2), End(2), Lookback)
        = [tag \in DOMAIN recorded |->
             (IF before(tag) = <<>> THEN <<>> ELSE <<Last(before(tag))>>) \o within(tag)]

LimitEvents(point, w) ==
  Limit!PointEvents(LimitPoints, point, recorded, Start(w), End(w), Lookback)

\* What detect is given of a segment: its last reading before start and those after.
Observed(point, samples, start) ==
  LET earlier == Cardinality({i \in DOMAIN samples : samples[i].time < start})
      kept    == SubSeq(samples, IF earlier = 0 THEN 1 ELSE earlier, Len(samples))
      dir(v)  == IF Limit!Classify(point, v) = "normal" THEN "none" ELSE Limit!Classify(point, v)
  IN  [i \in DOMAIN kept |->
         [time |-> kept[i].time, dir |-> dir(kept[i].value), fresh |-> FALSE]]

\* A deviation whose beginning nobody saw is left out.
Proven(obs, start) ==
  LET same == {k \in DOMAIN obs : obs[1].time >= start /\ obs[1].dir # "none"
                                   /\ \A i \in 1..k : obs[i].dir = obs[1].dir}
  IN  SubSeq(obs, Cardinality(same) + 1, Len(obs))

\* The merged exceedances in a segment that is read up to horizon, and ends at boundary
\* if that is not 0; first says whether its first readings may begin one.
SegmentExceedances(point, samples, start, horizon, boundary, first) ==
  LET obs == IF first THEN Observed(point, samples, start)
             ELSE Proven(Observed(point, samples, start), start)
      event(run) ==
        [start |-> obs[run.first].time, type |-> obs[run.first].dir,
         open  |-> ~Over(obs, run) /\ boundary = 0,
         end   |-> IF Over(obs, run) THEN OverAt(obs, run)
                   ELSE IF boundary # 0 THEN boundary ELSE horizon]
      gap == [side \in Limit!Sides |-> point[side].mergeGap]
  IN  {e \in {event(run) : run \in MergedRuns(obs, gap)} :
         e.end - e.start > point[e.type].minDuration}

\* "The gap between two exceedances of one direction is at most merge_gap_seconds: one
\* event, from the start of the first to the end of the last" (README of the rule), as
\* far as the readings before until show, and if it began in window w.
Exceedances(point, w, until) ==
  LET history == Limit!Histories(LimitPoints, recorded, Start(w), until, Lookback)[point.tag]
      Of(segment) == SegmentExceedances(point, segment.samples, Start(w), until,
                       IF segment.bounded THEN Last(segment.samples).time ELSE 0, FALSE)
      all == UNION {Of(s) : s \in Limit!SmoothSegments(history, point.smoothing)}
  IN  Limit!Capped(point, {e \in all : Start(w) <= e.start /\ e.start < End(w)})

LimitAssessed(w) == rule = "limit" /\ now >= Limit!QueryEnd(LimitPoints, End(w))

\* The rule charges exactly the merged exceedances that begin in the window and last
\* longer than their minimum, with their ends: the state machine loses none, splits
\* none at a short recovery and joins none across a long one.
MergedExceedancesFound ==
  \A w \in Window, point \in LimitPoints :
    LimitAssessed(w) /\ now = Limit!QueryEnd(LimitPoints, End(w)) =>
      LimitEvents(point, w) = Exceedances(point, w, Limit!QueryEnd(LimitPoints, End(w)))

\* analog_limit_exceedance reads far enough ahead: whoever waits longer charges the same
\* beginnings, since what the confirmation tail does not show cannot make an exceedance
\* qualify, unless a hole in the data cuts it short.
TailSuffices ==
  \A point \in LimitPoints :
    /\ LimitAssessed(2)
    /\ \A s \in Range(recorded[point.tag]) :
         s.time >= Limit!QueryEnd(LimitPoints, End(1)) => s.good
    => {e.start : e \in LimitEvents(point, 1)} = {e.start : e \in Exceedances(point, 1, now)}

\* "A merged occurrence beginning before the window remains owned by the earlier window
\* and is not repeated" (detector.py:386-388): no exceedance that is charged to the second
\* window begins while one of its direction that is charged to the first goes on.
NotRepeated ==
  \A point \in LimitPoints : LimitAssessed(2) =>
    \A e \in LimitEvents(point, 1), f \in LimitEvents(point, 2) :
      e.type = f.type => e.end <= f.start

\* Where the code repeats one all the same, it recovered for a short time when the windows
\* met: the last reading before the second window, all that its detector sees of before,
\* was normal, and the rest is charged again.  One that is going on is not repeated.
RepeatedOnlyAfterRecovery ==
  \A point \in LimitPoints :
    LimitAssessed(2) /\ ~point.smoothing.enabled =>
      \A e \in LimitEvents(point, 1), f \in LimitEvents(point, 2) :
        e.end > f.start =>
          /\ f.type = e.type
          /\ e.open \/ e.end <= f.end
          /\ \E s \in Range(recorded[point.tag]) :
               /\ s.good /\ Limit!Classify(point, s.value) = "normal"
               /\ e.start <= s.time /\ s.time < Start(2)
               /\ f.start - s.time <= point[e.type].mergeGap
               /\ \A t \in Range(recorded[point.tag]) :
                    t.time < Start(2) => t.time <= s.time

-----------------------------------------------------------------------------
\* The runs in a timeline that begin in a window, up to its end, with a hole wherever
\* a value is missing, a TAG was interrupted or the values are too far apart.
RunsCharged(point, timeline, w, until) ==
  LET valid  == Subsequence(timeline, {k \in DOMAIN timeline : timeline[k].valid})
      hole(i) == \/ valid[i].boundary
                 \/ i > 1 /\ valid[i].time - valid[i - 1].time > point.maxGap
                 \/ \E o \in Range(timeline) :
                      /\ ~o.valid /\ o.time < valid[i].time
                      /\ i > 1 => valid[i - 1].time < o.time
      obs    == [i \in DOMAIN valid |->
                   [time |-> valid[i].time, dir |-> valid[i].dir, fresh |-> hole(i)]]
      broken == ~Last(timeline).valid
      event(run) ==
        LET last == obs[Len(obs)].time
            open == ~Over(obs, run) /\ ~broken /\ until - last <= point.maxGap
        IN  [start |-> obs[run.first].time, type |-> obs[run.first].dir, open |-> open,
             end   |-> IF Over(obs, run) THEN OverAt(obs, run)
                       ELSE IF open THEN until ELSE last]
      gap    == [dir \in {o.dir : o \in Range(obs)} |-> point.mergeGap]
      long   == {e \in {event(run) : run \in MergedRuns(obs, gap)} :
                   e.end > e.start /\ e.end - e.start >= point.minDuration}
  IN  IF timeline = <<>> THEN {}
      ELSE {[e EXCEPT !.end = IF e.end < End(w) THEN e.end ELSE End(w)] :
              e \in {f \in long : Start(w) <= f.start /\ f.start < End(w)}}

\* The timelines of the two rules, from all that was recorded in a range.
FlowTimelines(from, to) == Flow!Timelines(FlowPoint, recorded, from, to)
RateTimeline(from, to) ==
  LET rates == Rate!RatePoints(RatePoint, Context!GetHistory(recorded[RatePoint.tag], from, to))
  IN  [i \in DOMAIN rates |->
         [time |-> rates[i].time, dir |-> rates[i].dir, valid |-> TRUE,
          boundary |-> i > 1 /\ rates[i].segment # rates[i - 1].segment]]

FlowAssessed(w) == rule = "flow" /\ now >= Flow!ObservationEnd(FlowPoint, End(w))
RateAssessed(w) == rule = "rate" /\ now >= Rate!ObservationEnd(RatePoint, End(w))

\* Every TAG has a reading in every unit of time, and none was rejected.
Regular ==
  \A tag \in DOMAIN recorded : \A t \in Began..(now - 1) :
    LET at == {s \in Range(recorded[tag]) : s.time = t}
    IN  at # {} /\ \A s \in at : s.good

Spans(events) == {<<e.start, e.end, e.type>> : e \in events}

\* "Each continuous deviation gives one event" (README of flow_balance_compliance): the
\* rule charges the runs of the timeline that begin in the window and last long enough,
\* merged over short recoveries and cut where the data of any TAG has a hole.
FlowRunsFound ==
  \A w \in Window : FlowAssessed(w) /\ now = Flow!ObservationEnd(FlowPoint, End(w)) =>
    \A timeline \in FlowTimelines(Start(w) - Flow!LookbackOf(FlowPoint), now) :
      Flow!PointEvents(FlowPoint, recorded, Start(w), End(w))
        = RunsCharged(FlowPoint, timeline, w, now)

\* flow_balance_compliance reads far enough back and ahead: where readings come
\* regularly, everything that was recorded shows the same deviations in a window, with
\* their beginnings and their ends in it.
FlowRangeSuffices ==
  FlowAssessed(2) /\ Regular =>
    \A timeline \in FlowTimelines(0, now), w \in Window :
      Spans(Flow!PointEvents(FlowPoint, recorded, Start(w), End(w)))
        = Spans(RunsCharged(FlowPoint, timeline, w, now))

\* The same for level_rate_compliance and its runs of rates.
RateRunsFound ==
  \A w \in Window : RateAssessed(w) /\ now = Rate!ObservationEnd(RatePoint, End(w)) =>
    \A timeline \in {RateTimeline(Start(w) - Rate!LookbackOf(RatePoint), now)} :
      Rate!PointEvents(RatePoint, recorded, Start(w), End(w))
        = RunsCharged(RatePoint, timeline, w, now)

\* And level_rate_compliance reads far enough back and ahead, where levels come regularly.
RateRangeSuffices ==
  RateAssessed(2) /\ Regular =>
    \A timeline \in {RateTimeline(0, now)}, w \in Window :
      Spans(Rate!PointEvents(RatePoint, recorded, Start(w), End(w)))
        = Spans(RunsCharged(RatePoint, timeline, w, now))

\* Both rules that merge runs of a computed value, flow_balance_compliance and
\* level_rate_compliance, charge the runs there are, each once.
RunsFound == FlowRunsFound /\ RateRunsFound

-----------------------------------------------------------------------------
\* What is known of a pump group at a time, from every reading so far.
PumpValue(point, t) == Pump!ValuesBefore(Pump!HistoryOf(point, recorded), t + 1)

\* What the rule is to charge from start to end, as far as the readings before until
\* show: the flow from where it becomes too low for the mode of the pumps, and a switch
\* from normal operation from where it has taken longer than it may.
PumpFaults(point, start, end, until) ==
  LET low(t)  == Pump!LowFlow(point, PumpValue(point, t))
      mode(t) == Pump!Mode(point, PumpValue(point, t))
      slow(t) == /\ mode(t - point.maxSwitch - 1) \in {"NORMAL_A", "NORMAL_B"}
                 /\ \A u \in (t - point.maxSwitch)..t : mode(u) = "SWITCHING"
      fault(type, t, over) ==
        [type |-> type, start |-> t, open |-> over = {},
         end  |-> IF over = {} THEN until ELSE CHOOSE u \in over : \A v \in over : u <= v]
      later(t) == (t + 1)..(until - 1)
  IN  {fault("low_flow", t, {u \in later(t) : ~low(u)}) :
         t \in {u \in start..(end - 1) : low(u) /\ ~low(u - 1)}}
        \cup {fault("switch_timeout", t, {u \in later(t) : mode(u) # "SWITCHING"}) :
                t \in {u \in start..(end - 1) : slow(u)}}

\* Every TAG that had a reading before a time had one within the lookback.
PumpSeen(point, from) ==
  \A tag \in Pump!PointTags(point) : \A s \in Range(recorded[tag]) :
    s.time < from =>
      \E r \in Range(recorded[tag]) : from - Last(Lookback) <= r.time /\ r.time < from

PumpAssessed(points, w) == rule = "pump" /\ now = End(w) + Pump!SwitchLookback(points)

\* Together with whatever other points a point is assessed, so however far before the
\* window the reading begins, the rule charges its faults that begin in the window: a
\* switch that began before the window is timed from its true beginning, and one that
\* nobody saw begin is not charged.
PumpFaultsFound ==
  \A points \in SUBSET PumpPoints \ {{}} : \A point \in points, w \in Window :
    /\ PumpAssessed(points, w)
    /\ Pump!Evaluates(points, recorded, Start(w), End(w), Lookback)
    /\ PumpSeen(point, Start(w) - Pump!SwitchLookback(points))
    => Pump!PointEvents(points, point, recorded, Start(w), End(w), Lookback)
         = PumpFaults(point, Start(w), End(w), End(w) + Pump!SwitchLookback(points))
-----------------------------------------------------------------------------
ViscosityAssessed(point, w) == rule = "viscosity" /\ now = Visc!ViscosityEnd(point, End(w))

\* What the rule makes of the history for window w.
ViscosityMetric(point, w) ==
  Visc!MetricOf(point, recorded, Visc!QueryStart(point, Start(w)), Visc!ViscosityEnd(point, End(w)))
Disturbed(point, w) == Visc!Disturbances(point, ViscosityMetric(point, w))
ViscosityCharged(point, w) == Visc!ViscosityEvents(point, recorded, Start(w), End(w))

\* In each uninterrupted part of the metric that disturbances leave, the rule charges the
\* merged exceedances that begin in the window, also one that is going on when a
\* disturbance ends, but none whose beginning a hole in the data hides.
ViscosityRunsFound ==
  \A point \in ViscosityPoints, w \in Window : ViscosityAssessed(point, w) =>
    LET metric == ViscosityMetric(point, w)
        disturbed == Visc!Disturbances(point, metric)
        clean == Visc!Exclude(metric, disturbed)
        horizon(segment) == IF Last(segment).time + point.bucket < now
                            THEN Last(segment).time + point.bucket ELSE now
        first(segment) ==
          \E d \in disturbed :
            /\ d.until <= segment[1].time
            /\ \A m \in Range(clean) : m.time < d.until \/ segment[1].time <= m.time
        Of(segment) == SegmentExceedances(Visc!GenericPoint(point), segment, Start(w),
                                          horizon(segment), 0, first(segment))
    IN  {[start |-> e.start, end |-> e.end, type |-> e.type, open |-> e.open] :
           e \in ViscosityCharged(point, w)}
          = {e \in UNION {Of(segment) : segment \in Visc!SplitContiguous(point, clean)} :
               Start(w) <= e.start /\ e.start < End(w)}

\* No time that is removed for a disturbance is part of an exceedance that is charged,
\* not even by merging what lies before and after it.
NothingChargedWhileDisturbed ==
  \A point \in ViscosityPoints, w \in Window : ViscosityAssessed(point, w) =>
    \A e \in ViscosityCharged(point, w), d \in Disturbed(point, w) :
      e.end <= d.start \/ d.until <= e.start

\* component_viscosity_control charges what goes wrong outside disturbances, all of it
\* and nothing else.
ViscosityFound == ViscosityRunsFound /\ NothingChargedWhileDisturbed

\* "Each further repeat interval that is complete adds a unit" (README of the rule): the
\* checkpoints are the times within the exceedance at which it is penalised again.
PenaltiesRepeat ==
  \A point \in ViscosityPoints, w \in Window : ViscosityAssessed(point, w) =>
    \A e \in ViscosityCharged(point, w) :
      LET due == {t \in e.start..e.end :
                    /\ t - e.start >= point.minDuration
                    /\ \/ t - e.start = point.minDuration
                       \/ /\ point.penalty.enabled
                          /\ (t - e.start - point.minDuration) % point.penalty.interval = 0}
          before(t) == Cardinality({u \in due : u < t})
      IN  /\ e.checkpoints = {t \in due : \/ point.penalty.maxUnits = 0
                                         \/ before(t) < point.penalty.maxUnits}
          /\ e.units = Cardinality(e.checkpoints)
-----------------------------------------------------------------------------
TrendAssessed(point, w) == rule = "trend" /\ now = End(w) + Drift!TrendRight(point)

TrendsRead(point, w) == Drift!TrendsFor(point, recorded, Start(w), End(w))

\* The merged runs in a sequence of observations that are long enough.
LongRuns(line, minDuration, mergeGap, horizon) ==
  LET obs == [i \in DOMAIN line |-> [time |-> line[i].time, dir |-> line[i].dir, fresh |-> FALSE]]
      event(run) ==
        [start |-> obs[run.first].time, dir |-> obs[run.first].dir,
         end   |-> IF Over(obs, run) THEN OverAt(obs, run) ELSE horizon,
         high  |-> \E j \in run.first..run.last : line[j].high]
      gap == [dir \in {"off", "up", "down"} |-> mergeGap]
  IN  {e \in {event(run) : run \in MergedRuns(obs, gap)} :
         e.end > e.start /\ e.end - e.start >= minDuration}

\* "Abnormal intervals with a recovery of at most merge_gap_seconds are merged; the whole
\* is high if high_deviation is reached in it" (README of the rule): stability is
\* charged for the merged runs of deviations in the window, within each segment.
StabilityFound ==
  \A point \in TrendPoints, w \in Window :
    TrendAssessed(point, w) /\ point.stability.enabled =>
      \A trend \in TrendsRead(point, w) :
        Drift!StabilityEvents(point, trend, Start(w), End(w))
          = LongRuns(Drift!StabilityLine(point, trend, Start(w), End(w)),
                     point.stability.minDuration, point.stability.mergeGap,
                     Drift!ObservationEnd(Drift!Times(trend), End(w)))

\* What each drift window shows is kept when the drifts are merged: a drift of one window
\* lies in an event of its direction that names the window and is as severe, and events
\* begin and end where drifts do.
DriftsKept ==
  \A point \in TrendPoints, w \in Window : TrendAssessed(point, w) =>
    \A trend \in TrendsRead(point, w) :
      LET charged == Drift!DriftEvents(point, trend, Start(w), End(w))
          runs(v) == LongRuns(Drift!DriftLine(trend, v, Start(w), End(w)), v.minDuration,
                              point.drift.mergeGap, Drift!DriftHorizon(point, trend, End(w)))
      IN  /\ \A v \in point.drift.windows : \A r \in runs(v) : \E e \in charged :
               /\ e.dir = r.dir /\ v.id \in e.windows /\ (r.high => e.high)
               /\ e.start <= r.start /\ r.end <= e.end
          /\ LET all == UNION {runs(v) : v \in point.drift.windows}
             IN  \A e \in charged :
                   /\ \E r \in all : r.dir = e.dir /\ r.start = e.start
                   /\ \E r \in all : r.dir = e.dir /\ r.end = e.end

\* "The windows do not deduct twice" (README of the rule), as far as it goes: two events
\* of one direction are merged if they are no further apart than the merge gap, unless
\* one of the other direction begins between them.
DriftsMerged ==
  \A point \in TrendPoints, w \in Window : TrendAssessed(point, w) =>
    \A trend \in TrendsRead(point, w) :
      LET charged == Drift!DriftEvents(point, trend, Start(w), End(w))
      IN  \A e, f \in charged :
            (e # f /\ e.dir = f.dir /\ e.start <= f.start) =>
              \/ f.start > e.end + point.drift.mergeGap
              \/ \E g \in charged : /\ g.dir # e.dir
                                     /\ e.start <= g.start /\ g.start <= f.start

\* Merging the drifts of several windows loses none and counts none twice.
DriftsFound == DriftsKept /\ DriftsMerged

\* analog_trend_stability reads far enough back: where readings come regularly, the rule
\* finds in a window what it would find with everything recorded until it is assessed.
TrendRangeSuffices ==
  \A point \in TrendPoints, w \in Window :
    TrendAssessed(point, w) /\ Regular =>
      LET Found(trends) ==
            UNION {Drift!StabilityEvents(point, trend, Start(w), End(w))
                     \cup Drift!DriftEvents(point, trend, Start(w), End(w)) : trend \in trends}
      IN  Found(TrendsRead(point, w)) = Found(Drift!TrendsOf(point, recorded, 0, now))

\* The ranges that four of the rules read suffice: of the limit rule ahead, for where its
\* exceedances begin; of the rules of flow balances and rates back and ahead, and of the
\* trend rule back, for all they charge where readings come regularly.
RangesSuffice ==
  TailSuffices /\ FlowRangeSuffices /\ RateRangeSuffices /\ TrendRangeSuffices
=============================================================================
