---------------------------- MODULE PackageReader ----------------------------
(***************************************************************************)
(* The two readers of a Result Package: parse_result_package, for the mail *)
(* (notification/package.py), and validate_result_file, for the workbook   *)
(* (fill_report.py in the report directory).  Each takes the document      *)
(* apart on its own and refuses it when its numbers contradict each other. *)
(***************************************************************************)
EXTENDS Integers, SequencesExt, FiniteSetsExt

Sum(Of(_), seq) == MapThenSumSet(LAMBDA i : Of(seq[i]), DOMAIN seq)

\* The points of the document, each with its rule.
PointsOf(doc) ==
  FlattenSeq([i \in DOMAIN doc.rules |->
    [j \in DOMAIN doc.rules[i].points |-> <<doc.rules[i].rule, doc.rules[i].points[j]>>]])

Key(entry) == <<entry[1], entry[2].point>>

NoDuplicates(entries) ==
  \A i, j \in DOMAIN entries : Key(entries[i]) = Key(entries[j]) => i = j

\* What both check of a point and of a rule.
PointConsistent(point) ==
  /\ Cardinality(point.events) = point.count
  /\ point.status = IF point.count > 0 THEN "violation" ELSE "normal"

RuleConsistent(rule) ==
  /\ Sum(LAMBDA p : p.count, rule.points) = rule.count
  /\ Sum(LAMBDA p : p.score, rule.points) = rule.score

CountsConsistent(doc) ==
  /\ doc.ruleCount = Len(doc.rules)
  /\ doc.pointCount = Len(PointsOf(doc))
  /\ doc.eventCount = Sum(LAMBDA r : r.count, doc.rules)
  /\ NoDuplicates(PointsOf(doc))
  /\ \A i \in DOMAIN doc.rules : RuleConsistent(doc.rules[i])
  /\ \A e \in Range(PointsOf(doc)) : PointConsistent(e[2])

\* parse_result_package: the images it names are there.
Parses(doc) ==
  /\ CountsConsistent(doc)
  /\ \A e \in Range(PointsOf(doc)) : e[2].image \in DOMAIN doc.charts

\* The points that cost something, each with the chart shown beside it.
Deductions(doc) ==
  {[key |-> Key(e), score |-> e[2].score, count |-> e[2].count,
    chart |-> doc.charts[e[2].image]] :
     e \in {f \in Range(PointsOf(doc)) : f[2].score > 0}}

\* validate_result_file: no negative scores, and the total is the sum.
Validates(doc) ==
  /\ CountsConsistent(doc)
  /\ \A i, j \in DOMAIN doc.rules : doc.rules[i].rule = doc.rules[j].rule => i = j
  /\ \A i \in DOMAIN doc.rules : doc.rules[i].score >= 0
  /\ \A e \in Range(PointsOf(doc)) : e[2].score >= 0
  /\ doc.total = Sum(LAMBDA r : r.score, doc.rules)

\* Its "points": the score of every point.
PointScores(doc) ==
  LET entries == Range(PointsOf(doc))
  IN  [key \in {Key(e) : e \in entries} |-> (CHOOSE e \in entries : Key(e) = key)[2].score]
=============================================================================
