SPECIFICATION Spec
CONSTANTS
  Call = {"c1", "c2"}
  Asks <- TwoAndOne
  Thread <- Query
  Limit = {1, 2}
  MaxRetries = 1
  MaxRefreshes = 1
INVARIANTS Balanced NoIdleSlot SlotsFollowQueries
PROPERTIES WithinLimit UsesGate CallsEnd
CHECK_DEADLOCK FALSE
