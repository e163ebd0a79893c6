SPECIFICATION MaintSpec
CONSTANTS
  Migrators = {m1, m2, m3}  Controllers = {c1}  OldBuilds = {}  Nobody = none
  LastSchema = 2  Suspend = {"reclaim"}
INVARIANT OneMaintainer
CHECK_DEADLOCK FALSE
