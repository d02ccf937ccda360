SPECIFICATION Spec
CONSTANTS
  FileName <- Names
  Hashed <- LongerNames
  Configs <- TheConfigs
  Occurrences <- TheOccurrences
  Month <- Months
  ShiftLength = 4
  First = "base"
  MaxEdits = 2
  MaxCommands = 2
INVARIANTS ChargesStayWithItems TotalsAddUp FilledOnceSynced FailsOnlyForConfig PointsAssessedAlone PackagesAreReadAlike
CHECK_DEADLOCK FALSE
