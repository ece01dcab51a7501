CONSTANTS
  Adders = {"t1", "t2", "t3"}
  Processes = {"web", "worker"}
  ProcessOf <- MCProcessOf
  MaxDocs = 3
  MaxStops = 2
  NoFile = NoFile
  Torn = Torn
  WordScore = 400
  MeaningScore = 990
  Askers = {w1, w2}
  Documents = {d1, d2}
  Texts <- MCTexts
  MaxProcessed = 3
  MaxEmbedFaults = 1
  Requesters = {w1, w2}
  MaxSources = 2
  MaxDemands = 2
  MaxRuns = 2
  MaxSlips = 1
  Coroutines = {w1, w2}
  DocIds = {1, 2}
  Papers <- MCPapers
  Queries <- MCQueries
  Likeness <- MCLikeness
  MaxIndexed = 2
  MaxSearches = 2
  MaxHitches = 1
  Subjects = {w1, w2}
  Absent = Absent
  MaxAsks = 4
  MaxFlights = 3
  MaxFailures = 2
  Hydrators = {w1, w2}
  Filed = {d1, d2}
  Pages <- MCPages
  NoRow = NoRow
  MaxHooked = 4
  MaxRefusals = 1
  Tabs = {1, 2}
  Servers = {w1, w2}
  SeedChats = {"villa-ops", "tower-logistics"}
  ProjectIds = {"villa-100"}
  Files = {f1}
  FirstProject = "villa-100"
  FirstChat = "villa-ops"
  MaxEvents = 3
  MaxUnderWay = 2
  Makers = {w1, w2}
  ReportTypes = 1
  Matters = {m1, m2}
  NoText = NoText
  MaxSeconds = 1
  MaxReports = 2
  MaxKills = 1
  Windows = {1, 2, 3, 6, 7, 8, 14}
  StartHours = {0, 12, 23}
  MaxHours = 340
  Work <- MCWork
  Amounts <- MCAmounts
  Categories = {"a", "b", "c", "d"}
  Callers = {w1, w2}
SPECIFICATION DocumentsSpec
INVARIANTS DocumentsTypeOK
   LinksHold ConsoleHolds   RowsHaveCauses ShellHolds ReportsHold 
  DriveHolds
SYMMETRY MCSymmetry
CHECK_DEADLOCK FALSE
