---------------------------- MODULE MCReportMonth ----------------------------
(* ReportMonth for TLC: a month of two days and one of a single day, and       *)
(* configurations between which points come, go and change.                    *)
EXTENDS ReportMonth

None == <<>>

Point(id, offsets, audience) ==
  [id |-> id, enabled |-> TRUE, offsets |-> offsets, audience |-> audience,
   effective |-> Never, inactive |-> Never]
Off(point) == [point EXCEPT !.enabled = FALSE]

Rule(id, aware, points, scoring) ==
  [id |-> id, loads |-> TRUE, enabled |-> TRUE, aware |-> aware,
   offsets |-> [start |-> 0, end |-> 1], points |-> points, scoring |-> scoring]

Scale ==
  [byPointType |-> <<"p", "low">> :> 3, byType |-> "low" :> 2 @@ "zero" :> 0,
   byPoint |-> <<"p", "k">> :> 5 @@ <<"q", "k">> :> 4, default |-> <<1>>]

P == Point("p", None, "control")
Q == Point("q", [start |-> 1], "field")
X == Point("x", [start |-> -1, end |-> 0], "shared")

Limits(points) == Rule("limit", TRUE, points, Scale)
Levels(points) == Rule("level", FALSE, points, Scale)

TheConfigs ==
  [base    |-> <<Limits(<<P, Q>>), Levels(<<P, X>>)>>,
   stopped |-> <<Limits(<<Off(P), Q, X>>), Levels(<<P, X>>)>>,
   dated   |-> <<Limits(<<X, [P EXCEPT !.effective = 2], [Q EXCEPT !.audience = "shared"]>>),
                 [Levels(<<P, X>>) EXCEPT !.enabled = FALSE]>>,
   bonus   |-> <<Limits(<<P, Q>>), [Levels(<<P, X>>) EXCEPT !.scoring.byType = "low" :> -1]>>,
   twice   |-> <<Limits(<<P, [Q EXCEPT !.offsets = [end |-> 4]], P>>), Levels(<<P, X>>)>>,
   broken  |-> <<[Limits(<<P, Q>>) EXCEPT !.loads = FALSE], Levels(<<P, X>>)>>]

Occurrence(rule, point, type, key, units, at) ==
  [rule |-> rule, point |-> point, type |-> type, key |-> key, units |-> units, at |-> at]

TheOccurrences ==
  {Occurrence("limit", "p", "low", "k", 1, 4), Occurrence("limit", "p", "high", "k", 2, 6),
   Occurrence("limit", "q", "low", "k", 1, 4), Occurrence("limit", "q", "high", "k", 1, 7),
   Occurrence("level", "p", "zero", "k", 1, 5), Occurrence("level", "x", "low", "n", 3, 7),
   Occurrence("level", "x", "low", "n", 1, 3), Occurrence("limit", "x", "high", "n", 1, 10),
   Occurrence("limit", "q", "high", "n", 1, 8), Occurrence("limit", "q", "low", "n", 1, 9),
   Occurrence("level", "x", "high", "n", 1, 6), Occurrence("level", "p", "high", "k", 1, 11),
   Occurrence("level", "p", "low", "k", 1, 10), Occurrence("limit", "p", "low", "k", 1, 13)}

Months == <<{1, 2}, {3}>>

Pairs == {"limit", "level"} \X {"p", "q", "x"}
Names == [id \in Pairs |-> IF id[2] = "q" THEN id ELSE <<"p or x">>]
LongerNames == [id \in Pairs |-> <<<<"p or x", "#">>, <<"p or x", "#", id>>>>]
=============================================================================
