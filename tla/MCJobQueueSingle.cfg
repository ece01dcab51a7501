CONSTANTS
  j1 = j1
  j2 = j2
  s1 = s1
  Jobs = {j1, j2}
  Workers = {w1}
  Workspaces = {s1}
  WorkspaceOf <- MCWorkspaceOf
  Unsupported = {j2}
  Scheduler = Scheduler
  Free = Free
  Orphan = Orphan
  MaxAttempts = 2
  BatchSize = 2
  MaxEntries = 6
  MaxFaults = 2
SPECIFICATION FairSpec
INVARIANTS NoJobLost DeadLettersHold
PROPERTIES JobsSettle
CHECK_DEADLOCK FALSE
