SPECIFICATION MCExSpec
CONSTANTS
  Cases <- TwoCases  Repeats = 1  Manifests = {f1, f2}  Begins = f1  Terminals = {t1, t2}  Second = t2  Unfit = {}  NoManifest = none  Tools = {1, 2}  Tokens = {1}
  MaxElapsed = 1  MaxTrialAttempts = 2  TokenWarning = 3  ExRepairLimit = 1  ExMaxTime = 2
INVARIANT SameTool
CHECK_DEADLOCK FALSE
