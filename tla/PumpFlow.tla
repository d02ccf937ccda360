------------------------------ MODULE PumpFlow ------------------------------
(***************************************************************************)
(* The rule pump_flow_compliance for the selected points: two pumps that   *)
(* take turns, their common flow, which must reach a minimum that depends  *)
(* on the pumps' mode, and switches that take too long.                    *)
(*                                                                         *)
(* A point is pumpA, pumpB, flow, running, normalMin, switchingMin,        *)
(* maxSwitch.  A reading that is not good cannot be parsed.                *)
(***************************************************************************)
EXTENDS HistoryContext, FiniteSets, FiniteSetsExt

PointTags(point) == {point.pumpA, point.pumpB, point.flow}

\* _validate_points: three different TAGs, positive limits.
ValidPoint(point) ==
  /\ Cardinality(PointTags(point)) = 3
  /\ point.running \in {0, 1}
  /\ {point.normalMin, point.switchingMin, point.maxSwitch} \subseteq Nat \ {0}

\* parse_digital_state and parse_flow_value: one reading that is not what its TAG is
\* for fails the whole evaluation.
Parses(point, sample, tag) ==
  sample.good /\ (tag # point.flow => sample.value \in {0, 1})

-----------------------------------------------------------------------------
\* PumpFlowDetector, given the history of each of the three.  value has the current
\* value of each, <<>> while it is not known.  A switch whose beginning is not known has switchStart 0.
Modes == {"UNKNOWN", "NORMAL_A", "NORMAL_B", "SWITCHING"}

\* _mode_for_values
Mode(point, value) ==
  LET a == value.pumpA
      b == value.pumpB
  IN  CASE a = <<>> \/ b = <<>> -> "UNKNOWN"
        [] a = <<point.running>> /\ b \notin {a, <<>>} -> "NORMAL_A"
        [] b = <<point.running>> /\ a \notin {b, <<>>} -> "NORMAL_B"
        [] OTHER -> "SWITCHING"

\* _is_low_flow
LowFlow(point, value) ==
  LET mode == Mode(point, value)
  IN  /\ value.flow # <<>> /\ mode # "UNKNOWN"
      /\ value.flow[1] < (IF mode = "SWITCHING" THEN point.switchingMin
                                 ELSE point.normalMin)

\* _low_flow_occurrence and _timeout_occurrences
LowOccurrence(d, end, open) ==
  IF end > d.lowStart
  THEN {[type |-> "low_flow", start |-> d.lowStart, end |-> end, open |-> open]}
  ELSE {}

TimeoutOccurrence(point, d, end, open) ==
  IF end - d.switchStart > point.maxSwitch
  THEN {[type |-> "switch_timeout", start |-> d.switchStart + point.maxSwitch,
         end |-> end, open |-> open]}
  ELSE {}

\* A slip: a switch counts from where it is first seen, whatever was before.
SwitchFromFirstSeen(point, d, value, time) ==
  LET before == Mode(point, d.value)
      mode   == Mode(point, value)
  IN  CASE before = "SWITCHING" /\ mode # "SWITCHING" ->
             [d EXCEPT !.switchStart = 0,
                       !.found = IF d.switchStart = 0 THEN @
                                 ELSE @ \cup TimeoutOccurrence(point, d, time, FALSE)]
        [] before # "SWITCHING" /\ mode = "SWITCHING" -> [d EXCEPT !.switchStart = time]
        [] OTHER -> d

\* How the values at time move the switch: one that ends may have taken too long, one
\* that begins is timed only if the mode before was a normal one.
SwitchStep(point, d, value, time) ==
  LET before == Mode(point, d.value)
      mode   == Mode(point, value)
  IN  CASE before = "SWITCHING" /\ mode # "SWITCHING" ->
             [d EXCEPT !.switchStart = 0,
                       !.found = IF d.switchStart = 0 THEN @
                                 ELSE @ \cup TimeoutOccurrence(point, d, time, FALSE)]
        [] before # "SWITCHING" /\ mode = "SWITCHING" ->
             [d EXCEPT !.switchStart = IF before = "UNKNOWN" THEN 0 ELSE time]
        [] OTHER -> d

\* How they move the low flow: it goes on across a change of mode.
LowStep(point, d, value, time) ==
  LET low == LowFlow(point, value)
  IN  CASE d.lowStart # 0 /\ ~low ->
             [d EXCEPT !.lowStart = 0, !.found = @ \cup LowOccurrence(d, time, FALSE)]
        [] d.lowStart = 0 /\ low -> [d EXCEPT !.lowStart = time]
        [] OTHER -> d

\* All readings of one time (_build_timeline): the last one of each TAG counts.
StepAt(point, d, history, time) ==
  LET now(samples, value) ==
        LET at == Between(samples, time, time + 1)
        IN  IF at = <<>> THEN value ELSE <<Last(at).value>>
      value == [pumpA |-> now(history.pumpA, d.value.pumpA),
                pumpB |-> now(history.pumpB, d.value.pumpB),
                flow  |-> now(history.flow, d.value.flow)]
  IN  [LowStep(point, SwitchStep(point, d, value, time), value, time) EXCEPT !.value = value]

\* _latest_before: the last value before a time, if there is one.
ValueBefore(samples, time) ==
  LET before == SubSeq(samples, 1, Earlier(samples, time))
  IN  IF before = <<>> THEN <<>> ELSE <<Last(before).value>>

ValuesBefore(history, time) ==
  [pumpA |-> ValueBefore(history.pumpA, time), pumpB |-> ValueBefore(history.pumpB, time),
   flow  |-> ValueBefore(history.flow, time)]

\* The detector when the analysis starts; a flow that is low then counts from there.
DetectorAt(point, history, from) ==
  LET value == ValuesBefore(history, from)
  IN  [value |-> value, switchStart |-> 0, found |-> {},
       lowStart |-> IF LowFlow(point, value) THEN from ELSE 0]

\* _resolve_histories
HistoryOf(point, histories) ==
  [pumpA |-> histories[point.pumpA], pumpB |-> histories[point.pumpB],
   flow  |-> histories[point.flow]]

\* detect; from is analysis_start, until is observation_end.
Detect(point, history, from, until, start, end) ==
  LET after[i \in 0..(until - from)] ==
        IF i = 0 THEN DetectorAt(point, history, from)
        ELSE StepAt(point, after[i - 1], history, from + i - 1)
      d    == after[until - from]
      left == (IF d.lowStart = 0 THEN {} ELSE LowOccurrence(d, until, TRUE))
                \cup (IF d.switchStart = 0 THEN {} ELSE TimeoutOccurrence(point, d, until, TRUE))
  IN  {o \in d.found \cup left : start <= o.start /\ o.start < end}

-----------------------------------------------------------------------------
\* evaluate reads this much before the window, and after it.
SwitchLookback(points) == Max({point.maxSwitch : point \in points})

HistoriesOf(points, recorded, start, end, steps) ==
  WithPreviousSamples(recorded, UNION {PointTags(point) : point \in points},
                      start - SwitchLookback(points), end + SwitchLookback(points), steps)

\* Whether evaluate gets as far as returning events.
Evaluates(points, recorded, start, end, steps) ==
  LET histories == HistoriesOf(points, recorded, start, end, steps)
  IN  \A point \in points : \A tag \in PointTags(point) :
        \A s \in Range(histories[tag]) : Parses(point, s, tag)

\* What it returns for one of the points that are assessed together.
PointEvents(points, point, recorded, start, end, steps) ==
  Detect(point, HistoryOf(point, HistoriesOf(points, recorded, start, end, steps)),
         start - SwitchLookback(points), end + SwitchLookback(points), start, end)
=============================================================================
