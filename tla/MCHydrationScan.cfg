CONSTANTS
  f1 = f1
  f2 = f2
  f3 = f3
  f4 = f4
  drive = drive
  folder = folder
  disk = disk
  Sources = {disk}
  Files = {f1, f2}
  Contents = {A, B}
  SourceOf <- AllDisk
  Connector <- Kinds
  Native = {}
  IdDigest = IdDigest
  Nothing = Nothing
  Options <- NightlyOnly
  Nightly <- Plain
  PageSize = 1
  MaxEdits = 2
  MaxFaults = 0
SPECIFICATION Spec
INVARIANT ScanCovers
CHECK_DEADLOCK FALSE
