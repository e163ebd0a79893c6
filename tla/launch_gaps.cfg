\* Properties the code violates, one at a time: TLC stops at the first. Of the others,
\* INVARIANT OneLiveWorker, PROPERTY LostHasNoResult, PROPERTY ResultsAreCollected.
SPECIFICATION FairSpec
CONSTANTS
  t1 = t1  l1 = l1  l2 = l2  None = None
  Tasks = {t1}  Launches = {l1, l2}  WorkerLimit = 1  ProcTables = {TRUE}  MaxCrashes = 0
INVARIANT CancelLeavesNoCapacity
CHECK_DEADLOCK FALSE
