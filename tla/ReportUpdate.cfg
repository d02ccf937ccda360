SPECIFICATION Spec
CONSTANTS
  Process = {p1}
  Shift = {x, y}
  MaxCommands = 5
  Exclusive = TRUE
PROPERTIES ExemptionKept OnlyTargetColumn TypedScoresKept MailMatchesReport
CHECK_DEADLOCK FALSE
