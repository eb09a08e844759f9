SPECIFICATION FairSpec
CONSTANTS
  Test = {t1, t2}
  Workers = 2
  MaxRetries = 1
  Capacity = 2
  Quarantined = {t2}
  ErrorSizes = {"short", "long", "huge"}
INVARIANTS
  TypeOK
  StreamIsFaithful
  StatusIsTrue
PROPERTIES
  EndsOrIsJammed
CHECK_DEADLOCK FALSE
