SPECIFICATION RvSpec
CONSTANTS
  Items = {"defect", "question"}  Adapters = {a1, a2}  NoAdapter = NoAdapter
  RvRepairLimit = 1  RvRecoveryLimit = 1  RvMaxRevs = 2  RvMaxConfigs = 0
INVARIANT ReviewerIndependent
CHECK_DEADLOCK FALSE
