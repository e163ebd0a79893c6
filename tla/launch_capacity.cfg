SPECIFICATION UncancelledSpec
CONSTANTS
  t1 = t1
  t2 = t2
  l1 = l1
  l2 = l2
  None = None
  Tasks = {t1, t2}
  Launches = {l1, l2}
  WorkerLimit = 1
  ProcTables = {TRUE, FALSE}
  MaxCrashes = 1
SYMMETRY Symmetric
INVARIANTS
  WorkerCap
  NoWorkerLost
