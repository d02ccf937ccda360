SPECIFICATION Spec
CONSTANTS
  Duration = 3
  Reference = 2
  Rotation <- TeamRotation
  FirstTime <- MCFirstTime
  LastTime = 12
  FirstDate <- MCFirstDate
  LastDate = 1
  MaxCommands = 2
INVARIANTS FailsOnlyOutsideMonth LastIsFilled RangeIsCovered
CHECK_DEADLOCK FALSE
