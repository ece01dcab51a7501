CONSTANTS
  s1 = s1
  ja = ja
  jb = jb
  N = 3
  Kind <- DeployedKind
  WorkspaceOf <- DeployedWorkspace
  JobOf <- DeployedJob
  Workspaces = {s1}
  Nowhere = Nowhere
  NoJob = NoJob
  Projectors = {p1}
  BatchSize = 2
  ReplyLength = 2
  MaxFaults = 1
  MaxEmitFaults = 2
SPECIFICATION Spec
INVARIANTS ColumnsAgree
PROPERTY ForwardUnlessLate
CHECK_DEADLOCK FALSE
