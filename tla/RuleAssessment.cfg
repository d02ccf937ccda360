SPECIFICATION Spec
CONSTANTS
  Rules = {"limit", "flow", "rate", "pump", "viscosity", "trend"}
  First <- FirstOf
  Length <- LengthOf
  Lookback <- LookbackSteps
  Reading <- Readings
  Usual <- UsualReadings
  MaxOdd <- Odd
  Began = 1
  MaxTime <- Horizon
  LimitPoints <- TwoPoints
  FlowPoint <- TheFlowPoint
  RatePoint <- TheRatePoint
  PumpPoints <- ThePumpPoints
  ViscosityPoints <- TheViscosityPoints
  TrendPoints <- TheTrendPoints
INVARIANTS LastBeforeIsFound MergedExceedancesFound RepeatedOnlyAfterRecovery RunsFound PumpFaultsFound ViscosityFound PenaltiesRepeat StabilityFound DriftsFound RangesSuffice
CHECK_DEADLOCK FALSE
