SPECIFICATION Spec
CONSTANTS
  Record <- MCRecord
  NoRecord = NoRecord
  Base = "image"
  Copy <- MCCopy
  Candidate <- MCCandidate
  Target <- MCTarget
  DshVersion <- MCDshVersion
  Events = {}
  MaxUpdates = 1
  MaxStable = 0
  MaxRollbacks = 0
  MaxCrashes = 1
  MaxExits = 0
INVARIANTS
  QuietSnapshot
