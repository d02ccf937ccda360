------------------------------ MODULE Execution ------------------------------
(***************************************************************************)
(* From the configured rules to the document of a Result Package, for one  *)
(* shift: RuleLoader and RuleRunner (engine/), the windows of rules and    *)
(* points (core/window.py), the scorer and the summary (results/), and     *)
(* DeliveryManager._execute_and_render.  How the document reaches the      *)
(* formal directory is module Delivery.                                    *)
(*                                                                         *)
(* What a rule finds is abstract here, and modelled rule by rule in the    *)
(* other modules: of the occurrences in the plant it reports those that    *)
(* begin in the window it is called with.  A function whose domain is a    *)
(* part of the keys is a JSON object that may leave keys out.              *)
(***************************************************************************)
EXTENDS Integers, SequencesExt, FiniteSetsExt

CONSTANTS
  FileName,         \* point_image_filename: the name of <<rule, point>>, not unique
  Hashed            \* the names with ever longer hashes, in the order they are tried

\* What is enabled of a list, in order.
Enabled(list) ==
  FlattenSeq([i \in DOMAIN list |-> IF list[i].enabled THEN <<list[i]>> ELSE <<>>])

\* load_enabled: every directory is loaded, in order, then those that are off dropped.
Loads(config) == \A i \in DOMAIN config : config[i].loads
LoadEnabled(config) == Enabled(config)

\* build_assessment_window; TimeRange refuses a window without time.
Window(shift, offsets) ==
  [start |-> shift.start + offsets.start, end |-> shift.end - offsets.end]
Empty(window) == window.end <= window.start

\* A slip: an override replaces both offsets.
OffsetsReplaced(rule, point) ==
  IF point.offsets = <<>> THEN rule.offsets ELSE point.offsets @@ [start |-> 0, end |-> 0]

\* What a point's own assessment_window leaves out it takes from its rule.
OffsetsOf(rule, point) ==
  [side \in {"start", "end"} |->
     IF side \in DOMAIN point.offsets THEN point.offsets[side] ELSE rule.offsets[side]]

PointWindow(shift, rule, point) == Window(shift, OffsetsOf(rule, point))

Points(rule) == Enabled(rule.points)
Ids(points) == {point.id : point \in Range(points)}

\* _enabled_points: no two points of a rule share an ID, enabled or not.
Distinct(rule) == \A i, j \in DOMAIN rule.points :
  rule.points[i].id = rule.points[j].id => i = j

\* What a loop appends to a list, in the order of seq.
Each(seq, Of(_)) == <<>> \o [i \in DOMAIN seq |-> Of(seq[i])]

-----------------------------------------------------------------------------
\* Rule.evaluate, of a rule that knows point_ids and of one that does not.
Evaluate(rule, occurrences, window, ids) ==
  {e \in occurrences :
     /\ e.rule = rule.id
     /\ e.point \in (IF rule.aware THEN ids ELSE Ids(Points(rule)))
     /\ window.start <= e.at /\ e.at < window.end}

\* The points that share a window are evaluated together.
Groups(shift, rule) ==
  {[window |-> w, ids |-> {p.id : p \in {q \in Range(Points(rule)) :
                                          PointWindow(shift, rule, q) = w}}] :
     w \in {PointWindow(shift, rule, p) : p \in Range(Points(rule))}}

\* A slip: what a rule without point_ids returns is taken whole.
KeepAll(group, event) == TRUE

\* Of such a rule the events of other points are dropped.
Keeps(group, event) == event.point \in group.ids

\* run_execution: the events, each with the window of its group.
RunExecution(shift, rule, occurrences) ==
  UNION {{[event |-> e, window |-> g.window] :
            e \in {f \in Evaluate(rule, occurrences, g.window, g.ids) : Keeps(g, f)}} :
           g \in Groups(shift, rule)}

\* _validate_point_event_window.
InOwnWindow(shift, rule, found) ==
  \A p \in Range(Points(rule)) :
    found.event.point = p.id => found.window = PointWindow(shift, rule, p)

-----------------------------------------------------------------------------
\* A slip: the scale for event types is asked first.
ScoreTypesFirst(scoring, e) ==
  CASE e.type \in DOMAIN scoring.byType -> {scoring.byType[e.type]}
    [] e.type \notin DOMAIN scoring.byType
         /\ <<e.point, e.type>> \in DOMAIN scoring.byPointType ->
         {scoring.byPointType[<<e.point, e.type>>]}
    [] OTHER -> Range(scoring.default)

\* score: the points of one unit, or none if the configuration names none.
UnitScore(scoring, e) ==
  CASE <<e.point, e.type>> \in DOMAIN scoring.byPointType ->
         {scoring.byPointType[<<e.point, e.type>>]}
    [] /\ <<e.point, e.type>> \notin DOMAIN scoring.byPointType
       /\ e.type \in DOMAIN scoring.byType -> {scoring.byType[e.type]}
    [] /\ <<e.point, e.type>> \notin DOMAIN scoring.byPointType
       /\ e.type \notin DOMAIN scoring.byType
       /\ <<e.point, e.key>> \in DOMAIN scoring.byPoint -> {scoring.byPoint[<<e.point, e.key>>]}
    [] OTHER -> Range(scoring.default)

Score(scoring, e) == e.units * Max(UnitScore(scoring, e))

\* A slip: a point is in violation if it costs something.
StatusByScore(events, score) == IF score # 0 THEN "violation" ELSE "normal"

Status(events, score) == IF events # {} THEN "violation" ELSE "normal"

\* summarize and PointAssessmentResult, for one point.
PointResult(shift, rule, point, found, image) ==
  LET events == {f.event : f \in {g \in found : g.event.point = point.id}}
      score  == MapThenSumSet(LAMBDA e : Score(rule.scoring, e), events)
  IN  [point |-> point.id, count |-> Cardinality(events), score |-> score,
       status |-> Status(events, score), events |-> events, image |-> image,
       window |-> PointWindow(shift, rule, point)]

RuleResult(shift, rule, occurrences, image) ==
  LET found == RunExecution(shift, rule, occurrences)
  IN  [rule |-> rule.id, count |-> Cardinality(found),
       score |-> MapThenSumSet(LAMBDA f : Score(rule.scoring, f.event), found),
       points |-> Each(Points(rule), LAMBDA point :
                    PointResult(shift, rule, point, found, image[<<rule.id, point.id>>]))]

\* A run fails: a window without time, a point twice, an event outside its point's
\* window, or one that no score is configured for.
RuleFails(shift, rule, occurrences) ==
  \/ Empty(Window(shift, rule.offsets))
  \/ \E p \in Range(Points(rule)) : Empty(PointWindow(shift, rule, p))
  \/ ~Distinct(rule)
  \/ \E f \in RunExecution(shift, rule, occurrences) :
       UnitScore(rule.scoring, f.event) = {} \/ ~InOwnWindow(shift, rule, f)

\* The points of all rules, in the order they are drawn.
Identities(rules) ==
  FlattenSeq([i \in DOMAIN rules |->
    [j \in DOMAIN Points(rules[i]) |-> <<rules[i].id, Points(rules[i])[j].id>>]])

\* A slip: the hash is added without a look at the names in use.
FirstHashed(identity, used) ==
  IF FileName[identity] \notin used THEN FileName[identity] ELSE Hashed[identity][1]

\* _deduplicate_filename.
Unique(identity, used) ==
  LET free == {i \in DOMAIN Hashed[identity] : Hashed[identity][i] \notin used}
  IN  IF FileName[identity] \notin used THEN FileName[identity]
      ELSE Hashed[identity][Min(free)]

Images(rules) ==
  LET ids == Identities(rules)
      name[i \in 0..Len(ids)] ==
        IF i = 0 THEN <<>> ELSE Append(name[i - 1], Unique(ids[i], Range(name[i - 1])))
  IN  [id \in Range(ids) |-> name[Len(ids)][SelectInSeq(ids, LAMBDA other : other = id)]]

\* What is drawn last is in the file.
Drawn(rules) ==
  LET ids == Identities(rules)
      image == Images(rules)
  IN  [name \in {image[id] : id \in Range(ids)} |->
         ids[SelectLastInSeq(ids, LAMBDA id : image[id] = name)]]

\* deliver, without what it does in the file system: the content of the package, or
\* none.
Deliver(config, occurrences, shift) ==
  LET rules == LoadEnabled(config)
      images == Images(rules)
      results == Each(rules, LAMBDA rule : RuleResult(shift, rule, occurrences, images))
      Total(Field(_)) == MapThenSumSet(LAMBDA i : Field(results[i]), DOMAIN results)
  IN  IF \/ ~Loads(config)
         \/ \E i \in DOMAIN rules : RuleFails(shift, rules[i], occurrences)
      THEN {}
      ELSE {[rules |-> results, ruleCount |-> Len(results), charts |-> Drawn(rules),
             pointCount |-> Total(LAMBDA r : Len(r.points)),
             eventCount |-> Total(LAMBDA r : r.count),
             total |-> Total(LAMBDA r : r.score)]}
=============================================================================
