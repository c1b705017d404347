\* Every container, every fault but a failing listing or restoring of the
\* application record, one power loss.
SPECIFICATION Spec
CONSTANTS
  Container <- MCAll
  Files <- MCAllFiles
  Apps = {"A", "B"}
  MetaTypes = {"app", "patch", "aoc"}
  Versions = {1, 2}
  ContentIds <- MCIds
  NoFile = NoFile
  NoId = NoId
  Faults = {"create", "write", "register", "ncz", "import", "cnmt", "set",
            "commit", "push"}
  AllowReinstall = FALSE
  MaxChunk = 2
  MaxInstalls = 3
  MaxCrashes = 1
  MagicSize = 1
  MaxHeader = 3
  MaxContents = 4
  MaxTicket = 1
  MaxCert = 2
  MaxRecords = 2
INVARIANTS TypeOK StreamAligned ContentIntact RecordsBacked NothingLost NoDebris
PROPERTIES CallReturns LibrarySpec
CHECK_DEADLOCK FALSE
