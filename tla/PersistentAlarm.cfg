SPECIFICATION Spec
CONSTANTS
  Windows = 2
  First = 3
  Length = 2
  Threshold = 1
  Lookback <- LookbackSteps
  Forward <- ForwardSteps
  Reading <- Readings
  MaxTime = 9
  MaxOdd = 1
  Settled = TRUE
INVARIANTS LaterReadingsChangeNothing AlarmChargedOnce
PROPERTIES FindsTheAlarms
CHECK_DEADLOCK FALSE
