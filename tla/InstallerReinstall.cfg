\* An installed title, or a part of one, is sent again and that transfer fails.
SPECIFICATION Spec
CONSTANTS
  Container <- MCUpdates
  Files = {"base", "base2", "patch", "dlc", "shared"}
  Apps = {"A", "B"}
  MetaTypes = {"app", "patch", "aoc"}
  Versions = {1, 2}
  ContentIds <- MCIds
  NoFile = NoFile
  NoId = NoId
  Faults = {}
  AllowReinstall = TRUE
  MaxChunk = 3
  MaxInstalls = 2
  MaxCrashes = 0
  MagicSize = 1
  MaxHeader = 3
  MaxContents = 4
  MaxTicket = 1
  MaxCert = 2
  MaxRecords = 2
INVARIANT RecordsBacked
CHECK_DEADLOCK FALSE
