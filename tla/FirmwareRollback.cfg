\* Nothing fails but the reading of a meta file's content back.
SPECIFICATION FwSpec
CONSTANTS
  FwFiles <- MCFwFiles
  FwMetas <- MCFwMetas
  FwOdd = {"stray"}
  FwDescribes <- MCFwDescribes
  FwUpdates = {"update"}
  FwFolders <- MCFwFolders
  FwRunning = {"old", "shared"}
  MinMetas = 2
  MaxNca = 5
  MaxRegistered = 5
  FwFaults = {"cnmt"}
INVARIANT FwRolledBack
CHECK_DEADLOCK FALSE
