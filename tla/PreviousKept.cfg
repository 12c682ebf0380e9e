SPECIFICATION ResetSpec
CONSTANTS
  RetainedRecords = {"old"}
  MaxResets = 2
  MaxResetFaults = 0
  MaxResetCrashes = 2
INVARIANT RollbackSlotKept
CHECK_DEADLOCK FALSE
