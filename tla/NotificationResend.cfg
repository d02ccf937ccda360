SPECIFICATION Spec
CONSTANTS
  Process = {p1}
  Run = {x, y}
  Modes = {"send", "resend"}
  MaxCalls = 5
SYMMETRY Symmetry
INVARIANTS SentIsSuppressed
CHECK_DEADLOCK FALSE
