SPECIFICATION Spec
CONSTANTS
  t1 = t1
  l1 = l1
  None = None
  Tasks = {t1}
  Launches = {l1}
  WorkerLimit = 1
  ProcTables = {TRUE}
  MaxCrashes = 0
INVARIANTS
  CancelStopsWorker
