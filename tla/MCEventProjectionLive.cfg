CONSTANTS
  s1 = s1
  ja = ja
  jb = jb
  N = 2
  Kind <- MixedKind
  WorkspaceOf <- MixedWorkspace
  JobOf <- MixedJob
  Workspaces = {s1}
  Nowhere = Nowhere
  NoJob = NoJob
  Projectors = {p1, p2}
  BatchSize = 2
  ReplyLength = 2
  MaxFaults = 1
  MaxEmitFaults = 0
SPECIFICATION FairSpec
INVARIANTS AckedIsApplied
PROPERTIES EventsProjected
CHECK_DEADLOCK FALSE
