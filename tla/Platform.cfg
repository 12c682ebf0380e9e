SPECIFICATION PlatformSpec
CONSTANTS
  None = None
  NoRecord = NoRecord
  Down = Down
  Keyring <- Keys
  Target <- SignedTargets
  Official <- OfficialReleases
  Image <- Images
  ImageRecord <- OwnRecord
  SeedKeyring <- Seeds
  Development = {"development"}
  Package <- Staged
  Content <- Contents
  Sequence <- Sequences
  Broken = {"store-3"}
  Requester = {"u1"}
  Overlapping = FALSE
  MaxStages = 1
  MaxStarts = 2
  MaxExits = 1
  FileTask = {1, 2}
  Path <- Paths
  Parent <- Parents
  Existing <- Present
  Placed <- Places
  Device <- Devices
  FileRequest <- FileRequests
  MaxFileCrashes = 1
  Missing = "missing"
  ManagedJob = {1, 2}
  MaxOperations = 4
  MaxManagementRestarts = 1
  MaxPluginCrashes = 3
  MaxTransactions = 2
  Changes = {"c1", "c2"}
  Connections = {"r1"}
  MaxRevisions = 3
  MaxFaults = 1
  ChangesOverlap = FALSE
  Attempts = 3
  MaxCrashes = 3
  EarlyKills = FALSE
  Plugins = {"p1", "p2"}
  MaxApplies = 2
  MaxTrouble = 2
  MaxOutside = 2
  Versions = {1, 2}
  Envs = {1, 2}
  MaxBuilds = 3
  MaxStoreFaults = 2
  SkillEnvs = {1, 2}
  Catalog <- Catalogs
  MaxSkillChanges = 2
  MaxSkillFaults = 2
  MaxSkillStarts = 3
  RetainedRecords = {"old", "none"}
  MaxResets = 3
  MaxResetFaults = 2
  MaxResetCrashes = 3
INVARIANTS
  PlatformTypes
  SlotsSound
  FilesSafe
  OperationsApart
  ChangeRecoverable
  RevisionInForce
  ManagerSupervised
  ApplyWhole
  StoreKept
  ResetSafe
PROPERTIES
  TrustStands
  SkillsAsChosen
CHECK_DEADLOCK FALSE
