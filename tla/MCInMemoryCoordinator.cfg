SPECIFICATION Spec
CONSTANTS
  t1 = t1
  t2 = t2
  w1 = w1
  w2 = w2
  NoWorker = NoWorker
  Task = {t1, t2}
  Worker = {w1, w2}
  LeaseSeconds = {1, 2}
  HeartbeatSeconds = 2
  MaxTime = 5
  MaxReports = 2
SYMMETRY WorkerSymmetry
INVARIANTS
  TypeOK
  QueueSound
  ExclusiveLease
  
PROPERTIES
  ImplementsContract
