-------------------------- MODULE MCRuleAssessment --------------------------
(* RuleAssessment for TLC: the points, readings and bounds of each rule. *)
EXTENDS RuleAssessment

LookbackSteps == <<1, 2>>

Good(v) == <<[value |-> v, good |-> TRUE]>>
Bad == <<[value |-> 0, good |-> FALSE]>>

Side(on, limit, duration, gap) ==
  [enabled |-> on, limit |-> limit, minDuration |-> duration, mergeGap |-> gap]
NoSmoothing == [enabled |-> FALSE, window |-> 1, minSamples |-> 1]

RawPoint ==
  [tag |-> "a", low |-> Side(TRUE, 1, 1, 0), high |-> Side(TRUE, 3, 1, 1),
   smoothing |-> NoSmoothing, maxEvents |-> 0]
SmoothPoint ==
  [tag |-> "b", low |-> Side(FALSE, 0, 1, 0), high |-> Side(TRUE, 2, 1, 1),
   smoothing |-> [enabled |-> TRUE, window |-> 1, minSamples |-> 2], maxEvents |-> 1]
TwoPoints == {RawPoint, SmoothPoint}

TheFlowPoint ==
  [logic |-> "l", sy |-> {"s", "t"}, low |-> -1, high |-> 1,
   smoothing |-> [enabled |-> TRUE, window |-> 1, minSamples |-> 1],
   minDuration |-> 2, mergeGap |-> 1, maxGap |-> 2]

TheRatePoint ==
  [tag |-> "a", smoothing |-> [enabled |-> TRUE, window |-> 1, minSamples |-> 1],
   rateWindow |-> 1, low |-> -3, high |-> 1, minDuration |-> 1, mergeGap |-> 1, maxGap |-> 2]

PumpPoint(normal, duration) ==
  [pumpA |-> "a", pumpB |-> "b", flow |-> "f", running |-> 1,
   normalMin |-> normal, switchingMin |-> 2, maxSwitch |-> duration]
ThePumpPoints == {PumpPoint(4, 1), PumpPoint(3, 2)}

ViscosityPoint(smoothing, method, window, units) ==
  [tag |-> "a", bucket |-> 1, bucketMin |-> 1, smoothing |-> smoothing,
   low |-> 2, high |-> 5, minDuration |-> 1, mergeGap |-> 1,
   exclusion |-> [enabled |-> TRUE, method |-> method, baseline |-> 4, deviation |-> 5,
                  window |-> window, range |-> 5, mergeGap |-> 1, removeAfter |-> 2],
   penalty |-> [enabled |-> TRUE, interval |-> 1, maxUnits |-> units]]
TheViscosityPoints ==
  {ViscosityPoint([enabled |-> TRUE, window |-> 2, minSamples |-> 2], "rolling_range", 3, 0),
   ViscosityPoint(NoSmoothing, "robust_deviation", 2, 2)}

TrendPoint(alignment, gap) ==
  [tag |-> "a", maxGap |-> 2, alignment |-> alignment, window |-> 2, minSamples |-> 2,
   stability |-> [enabled |-> TRUE, warning |-> 10, high |-> 20, minDuration |-> 2,
                  mergeGap |-> gap],
   drift |-> [enabled |-> TRUE, mergeGap |-> gap, windows |->
     {[id |-> "short", length |-> 1, warning |-> 10, high |-> 20, minDuration |-> 1],
      [id |-> "long", length |-> 2, warning |-> 15, high |-> 30, minDuration |-> 2]}]]
TheTrendPoints == {TrendPoint("centered", 1), TrendPoint("trailing", 0)}

One(values) == [tag \in {"a"} |-> values]
Both(values) == [tag \in {"a", "b"} |-> values]
Two(l, s) ==
  [tag \in {"l", "s", "t"} |->
     IF tag = "l" THEN l ELSE IF tag = "s" \/ s = <<>> THEN s ELSE Good(0)]
Three(a, b, f) ==
  [tag \in {"a", "b", "f"} |-> IF tag = "a" THEN a ELSE IF tag = "b" THEN b ELSE f]

LimitUsual == {Both(Good(v)) : v \in {2, 4}}
FlowUsual == {Two(Good(v), Good(0)) : v \in {0, 4}}
RateUsual == {One(Good(v)) : v \in {0, 4}}
ViscosityUsual == {One(Good(v)) : v \in {0, 4}}
TrendUsual == {One(Good(v)) : v \in {0, 48}}
PumpUsual == {Three(<<>>, <<>>, <<>>)}

Readings ==
  [limit |-> LimitUsual \cup {Both(Good(0)), Both(<<>>), Both(Bad), Both(Good(0) \o Good(2))},
   flow  |-> FlowUsual \cup {Two(Good(-4), Good(0)), Two(<<>>, <<>>), Two(<<>>, Good(0)),
                             Two(Good(4), Bad), Two(Good(4) \o Bad \o Good(0), Good(0))},
   rate  |-> RateUsual \cup {One(Good(-4)), One(<<>>), One(Bad), One(Good(4) \o Good(0))},
   viscosity |-> ViscosityUsual \cup {One(Good(8)), One(Good(12)), One(<<>>), One(Bad),
                                       One(Good(0) \o Good(4) \o Good(12))},
   trend |-> TrendUsual \cup {One(Good(24)), One(<<>>), One(Bad), One(Good(0) \o Good(48))},
   pump  |-> PumpUsual \cup {Three(Good(1), Good(0), Good(4)), Three(Good(0), <<>>, <<>>),
                             Three(<<>>, Good(1), Good(1)), Three(<<>>, <<>>, Good(3)),
                             Three(Good(0), Good(1), Good(2)),
                             Three(Good(0) \o Good(1), <<>>, <<>>),
                             Three(Bad, <<>>, <<>>)}]
UsualReadings == [limit |-> LimitUsual, flow |-> FlowUsual, rate |-> RateUsual, pump |-> PumpUsual,
                  viscosity |-> ViscosityUsual, trend |-> TrendUsual]
Odd == [limit |-> 2, flow |-> 1, rate |-> 1, pump |-> 3, viscosity |-> 1, trend |-> 1]
Horizon == [limit |-> 8, flow |-> 8, rate |-> 8, pump |-> 7, viscosity |-> 9, trend |-> 9]
FirstOf == [r \in DOMAIN Odd |-> IF r = "trend" THEN 5 ELSE 2]
LengthOf == [r \in DOMAIN Odd |-> IF r = "trend" THEN 4 ELSE 2]
=============================================================================
