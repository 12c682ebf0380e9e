SPECIFICATION ConsoleSpec
CONSTANTS
  FileDirs = {d1, d2}
  Batch = 2
  Texts = {f1, f2}
  Transfers = {t1}
  Saves = {s1, s2}
  NoFile = NoFile
  MaxTransfers = 1
  MaxListings = 1
  MaxOpens = 2
  MaxKeys = 2
  MaxOthers = 1
  MaxTaskFailures = 1
  Record <- Releases
  NoRecord = NoRecord
  Base = "image"
  Copy <- Copies
  Candidate <- Candidates
  Target <- Targets
  DshVersion <- DshVersions
  Events = {}
  MaxUpdates = 2
  MaxStable = 2
  MaxRollbacks = 0
  MaxCrashes = 2
  MaxExits = 0
  Calls = {"c1", "c2"}
  Changing = {"c2"}
  MaxWrites = 1
  MaxSessions = 3
  MaxAccounts = 3
  MaxDamage = 1
  Sources = {"s1", "s2"}
  Logins = {1, 2, 3}
  Window = 3
  SourceLimit = 2
  GlobalLimit = 3
  MaxConcurrent = 2
  BackoffThreshold = 2
  MaxBackoff = 4
  Consoles = {"c1", "c2"}
  MaxSecrets = 2
  MaxRevisions = 3
  Tabs = {"t1", "t2"}
  MaxLogins = 1
  MaxEntries = 1
  MaxOutages = 1
  Sessions = {"s1", "s2"}
  MaxShells = 2
  MaxOutput = 2
  MaxDrops = 2
  MaxVisits = 1
  LogWriters = {"w1", "w2"}
  MaxLogEntries = 3
  RotateAt = 1
  KeepFiles = 2
  MaxLosses = 1
  MidScan = FALSE
  Switches = {"s1", "s2"}
  MaxEdits = 2
  MaxElsewhere = 1
  MaxErrors = 1
INVARIANTS
  RestorationsHold
  DataGuarded
  AccountGuarded
  OpenOnce
  GuessesBounded
  SignedOutStays
  ScreenWhole
  LogsFaithful
PROPERTIES
  RestoredCompletely
  CompleteUpdate
  OthersKept
  SecretStands
  SavesOwnOnly
CHECK_DEADLOCK FALSE
