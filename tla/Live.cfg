SPECIFICATION LiveSpec
CONSTANTS
  Targets = {1, 2}
  TargetDsh <- SameNumber
  TargetEnvironment <- SameNumber
  TargetBootstrap <- SameNumber
  Upstream = {2, 3}
  MaxTasks = 3
  MaxChoices = 1
  MaxRestarts = 1
  Record <- Releases
  NoRecord = "none"
  Base = "image"
  Copy <- Copies
  Candidate <- Candidates
  Target <- NoTarget
  DshVersion <- DshVersions
  Events = {}
  MaxUpdates = 2
  MaxStable = 0
  MaxRollbacks = 0
  MaxCrashes = 2
  MaxExits = 0
PROPERTIES
  EverythingEnds
  UpdaterOrderly
  FailedNotRepeated
  RuntimeTrue
  TestsTakeTurns
  ServerSettles
CHECK_DEADLOCK FALSE
