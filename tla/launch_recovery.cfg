SPECIFICATION UncancelledSpec
CONSTANTS
  t1 = t1
  l1 = l1
  l2 = l2
  None = None
  Tasks = {t1}
  Launches = {l1, l2}
  WorkerLimit = 1
  ProcTables = {TRUE}
  MaxCrashes = 2
INVARIANTS
  OneLiveWorker
  LeaseReturned
PROPERTIES
  AttemptSettlesOnce
  AttemptsEnd
