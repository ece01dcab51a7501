CONSTANTS
  s1 = s1
  ja = ja
  jb = jb
  N = 2
  Kind <- MixedKind
  WorkspaceOf <- MixedWorkspace
  JobOf <- MixedJob
  Workspaces = {s1}
  Nowhere = Nowhere
  NoJob = NoJob
  Projectors = {p1}
  BatchSize = 2
  ReplyLength = 3
  MaxFaults = 0
  MaxEmitFaults = 0
SPECIFICATION FairSpec
PROPERTY EventsProjected
CHECK_DEADLOCK FALSE
