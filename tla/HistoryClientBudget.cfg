SPECIFICATION Spec
CONSTANTS
  Call = {"c1", "c2"}
  Asks <- TwoAndOne
  Thread <- Query
  Limit = {1, 2}
  MaxRetries = 1
  MaxRefreshes = 1
PROPERTIES NoRetryOutOfTime
CHECK_DEADLOCK FALSE
