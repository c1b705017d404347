\* The user and the host at titles, mods, storage, an installation, the
\* firmware and the update, a few of them in each behaviour.
SPECIFICATION Spec
CONSTANTS
  Catalog <- MCCatalog
  Spare = {4}
  TlFaults = {"push", "meta"}
  AfterOverlap = FALSE
  Damaged = {2}
  MaxIssues = 1
  ModNames <- MCModNames
  Tours <- MCTours
  Size = 4
  MaxResumes = 3
  Folders <- MCFolders
  Cut <- MCCut
  Secure <- MCSecure
  EntryCap = 3
  FdFaults = {"open", "read", "refuse", "finish"}
  FwFiles <- MCFwFiles
  FwMetas <- MCFwMetas
  FwOdd = {"stray"}
  FwDescribes <- MCFwDescribes
  FwUpdates = {"update"}
  FwFolders <- MCFwFolders
  FwRunning = {"old", "shared"}
  MinMetas = 2
  MaxNca = 5
  MaxRegistered = 3
  FwFaults = {"write", "register", "folder", "cnmt"}
  UpFaults = {"torn", "remove", "keep", "swap", "undo"}
  UpLimit = 2
INVARIANTS ConsoleTypeOK NoDanglingRecord NspIsTitle MatchIsTrue DeletesWhatWasArmed InstalledIsContainer  UpNeverStranded
PROPERTIES InstallEnds
CHECK_DEADLOCK FALSE
