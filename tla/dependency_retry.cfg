SPECIFICATION MCRetriedSpec
CONSTANTS
  NChecks = 1  RepairLimit = 1  RecoveryLimit = 1  MaxRevs = 2  MaxLost = 1  MaxEdits = 1
  t1 = t1  t2 = t2  t3 = t3  p1 = p1  p2 = p2
  STasks = {t1, t2, t3}  Projects = {p1, p2}
  ProjectOf <- TwoOfThree  RepoOf <- TwoOfThree  Priority <- FirstHalf  Exclusive = {t1}
  ModelWorkers = 2  GateJobs = 1  PerProject = 2  ActiveProjects = 2
  RaiseAfter = 2  ScanLimit = 3  MaxAge = 1  MaxLead = 2
  d1 = d1  d2 = d2  d3 = d3  DTasks = {d1, d2, d3}  DependsOn <- DiamondHalf
  Deps = 2  MaxHead = 1  MaxWork = 2
  Kinds = {"personal", "client"}  Stored <- OldSubstantive  Curated <- ClientSameRoute  Changes <- OnePath
  MaxDecisions = 2  MaxRevisions = 2  MaxSettings = 1
PROPERTY ReadyAfterDependencies
CHECK_DEADLOCK FALSE
