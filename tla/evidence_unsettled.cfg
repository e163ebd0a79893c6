SPECIFICATION RvSpec
CONSTANTS
  Items = {"defect", "question", "evidence"}  Adapters = {a1, a2}  NoAdapter = NoAdapter
  RvRepairLimit = 1  RvRecoveryLimit = 1  RvMaxRevs = 1  RvMaxConfigs = 0
PROPERTY EvidenceSettles
CHECK_DEADLOCK FALSE
