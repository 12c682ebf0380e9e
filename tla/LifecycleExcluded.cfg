SPECIFICATION ManagementSpec
CONSTANTS
  ManagedJob = {1, 2}
  MaxOperations = 4
  MaxManagementRestarts = 1
INVARIANT LifecycleExclusive
CHECK_DEADLOCK FALSE
