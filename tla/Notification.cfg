SPECIFICATION Spec
CONSTANTS
  Process = {p1, p2}
  Run = {x, y}
  Modes = {"send", "resend", "preview"}
  MaxCalls = 4
SYMMETRY Symmetry
INVARIANTS SentIsTrue
CHECK_DEADLOCK FALSE
