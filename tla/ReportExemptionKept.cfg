SPECIFICATION Spec
CONSTANTS
  Process = {p1, p2}
  Shift = {x, y}
  MaxCommands = 3
  Exclusive = FALSE
PROPERTIES ExemptionKept
CHECK_DEADLOCK FALSE
