SPECIFICATION Spec
CONSTANTS
  Rules = {"limit"}
  First <- FirstOf
  Length <- LengthOf
  Lookback <- LookbackSteps
  Reading <- Readings
  Usual <- UsualReadings
  MaxOdd <- Odd
  Began = 1
  MaxTime <- Horizon
  LimitPoints <- TwoPoints
  FlowPoint <- TheFlowPoint
  RatePoint <- TheRatePoint
  PumpPoints <- ThePumpPoints
  ViscosityPoints <- TheViscosityPoints
  TrendPoints <- TheTrendPoints
INVARIANTS NotRepeated
CHECK_DEADLOCK FALSE
