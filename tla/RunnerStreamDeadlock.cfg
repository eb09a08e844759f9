SPECIFICATION FairSpec
CONSTANTS
  Test = {t1}
  Workers = 1
  MaxRetries = 1
  Capacity = 1
  Quarantined = {}
  ErrorSizes = {"short", "long", "huge"}
PROPERTIES
  RunReturns
CHECK_DEADLOCK FALSE
