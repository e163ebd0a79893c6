SPECIFICATION MCSpec
CONSTANTS
  Items = {"defect", "question"}  Adapters = {a1, a2}  NoAdapter = NoAdapter
  RvRepairLimit = 1  RvRecoveryLimit = 1  RvMaxRevs = 1  RvMaxConfigs = 1
  MaxConfigs = 3  MaxRevs = 2  MaxApprovals = 2
  Fingerprints = {local, vps}  Paid = {vps}  MaxChanges = 2  MaxOpRuns = 2  MaxProposals = 2
  Migrators = {m1, m2}  Controllers = {c1, c2}  OldBuilds = {c1}  Nobody = none
  LastSchema = 2  Suspend = {}
  MaxVersion = 2  MaxProps = 2  AtOnce = 2
  r1 = r1  r2 = r2  pa = pa  pb = pb  pc = pc  NoProvider = none  RtTasks = {r1, r2}  Providers = {pa, pb, pc}
  DomainOf <- TwoDomains  Ranked <- InOrder  ProviderLimit <- OneEach  RtRepairLimit = 1  Setups <- SetupsUsed
  Plans <- PlansUsed  Requirements = {"R1", "R2"}  Earlier = 0
  Observed <- TwoSigns  IcRepairLimit = 1  MaxFailures = 2  MaxTime = 1  MaxVerified = 1
  Cases <- OneCase  Repeats = 1  Manifests = {f1, f2}  Begins = f1  Terminals = {t1, t2}  Second = t2  Unfit = {}  NoManifest = none  Tools = {1}  Tokens = {1, 2}
  Callers = {k1}  Sayings = {"a"}  MaxItems = 3  MaxEdits = 2
  MaxElapsed = 1  MaxTrialAttempts = 2  TokenWarning = 3  ExRepairLimit = 1  ExMaxTime = 2
INVARIANTS
  TypesOK ReviewedBeforeDone ApprovedIsCurrent IntakeHolds PlansHold RepairsEarned LessonsHold
PROPERTIES
  FindingsKept ReviewsResume ActsAsApproved ActivationsHold MaintenanceIsExclusive RoutesHold ExperimentsHold
  ConversationHolds
CHECK_DEADLOCK FALSE
