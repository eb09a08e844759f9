SPECIFICATION Spec
CONSTANTS
  t1 = t1
  w1 = w1
  w2 = w2
  p1 = p1
  NoWorker = NoWorker
  NoTask = NoTask
  Task = {t1}
  Worker = {w1, w2}
  Producer = {p1}
  LeaseSeconds = 1
  HeartbeatSeconds = 1
  MaxTime = 3
  MaxReports = 1
  MaxCrashes = 0
INVARIANT
  ExclusiveLease
