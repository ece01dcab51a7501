CONSTANTS
  f1 = f1
  f2 = f2
  f3 = f3
  f4 = f4
  drive = drive
  folder = folder
  disk = disk
  Sources = {drive, folder, disk}
  Files = {f1, f2, f3, f4}
  Contents = {A, B}
  SourceOf <- TwoWorkspaces
  Connector <- Kinds
  Native = {f2}
  IdDigest = IdDigest
  Nothing = Nothing
  Options <- AnyOption
  Nightly <- Plain
  PageSize = 1
  MaxEdits = 2
  MaxFaults = 2
SPECIFICATION WorkspacesSpec
INVARIANTS CursorCovers IndexedOnce GapsHaveCauses
 
CHECK_DEADLOCK FALSE
