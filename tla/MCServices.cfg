SPECIFICATION Spec
CONSTANTS
  Callers = {w1, w2}
  Endpoints = {"export", "document"}
  ServiceEndpoint = "export"
  ResourceEndpoint = "document"
  LimitOf <- MCLimits
  Window = 1
  MaxFaults = 1
  MaxRequests = 3
  Requests <- MCRequests
  Users = {u1}
  Projects = {p1, p2}
  Admins = {w1, w2}
  GrantRoles = {"engineer", "director"}
  Lifetimes = {1, 9}
  Forever = 9
  CustomSets <- MCSets
  MaxChanges = 3
  MaxMishaps = 2
  Guards = {w1, w2}
  Parts = {pa}
  RequestIds = {1, 2}
  MaxChecks = 3
  MaxCalls = 4
  MaxTroubles = 1
  Exporters = {w1, w2}
  Workspaces = {"w1", "w2"}
  Feedback = {1, 2}
  Maxima = {1}
  MaxSeconds = 1
  MaxReviews = 1
  MaxExports = 2
  Voters = {v1, v2, v3}
  Commits = {k1}
  RequiredApprovals = 2
  MaxClicks = 5
  MaxLosses = 1
  Hosts = {w1, w2}
  Asked <- MCAsked
  MaxQuestions = 2
  MaxBreaks = 1
  Editors = {w1, w2}
  PolicyNames = {"site", "cost"}
  MaxPolicies = 2
  MaxEdits = 3
  MaxDbErrors = 1
  Scanners = {w1, w2}
  WebProcesses = {"p1"}
  ProcessFor <- MCProcessFor
  Contents = {"mail", "plain"}
  OddContents = {}
  PatternTypes <- MCPatternTypes
  Builtin <- MCBuiltin
  PatternRows <- MCPatternRows
  MaxRows = 2
  MaxTableEdits = 2
  MaxScans = 2
  MaxReboots = 1
INVARIANTS
  LimitsHold  DecisionsAreAudited
  PromotionsHold DatasetsHaveFiles
  DispatchedIsApproved AnswersHold PoliciesAsAsked ScansHaveCauses
SYMMETRY MCSymmetry
\* administrators, requests and clicks are bounded
CHECK_DEADLOCK FALSE
