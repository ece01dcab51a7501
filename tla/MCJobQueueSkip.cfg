CONSTANTS
  j1 = j1
  j2 = j2
  s1 = s1
  Jobs = {j1}
  Workers = {w1}
  Workspaces = {s1}
  WorkspaceOf <- MCWorkspaceOf
  Unsupported = {}
  Scheduler = Scheduler
  Free = Free
  Orphan = Orphan
  MaxAttempts = 2
  BatchSize = 2
  MaxEntries = 3
  MaxFaults = 1
SPECIFICATION Spec
PROPERTY SkippedOnlyWhileRunning
CHECK_DEADLOCK FALSE
