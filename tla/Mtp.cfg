\* Hosts that ask for what a file holds; the cable and the card's metadata
\* operations may fail.
SPECIFICATION Spec
CONSTANTS
  Names = {"a", "b"}
  Card <- MCCard
  MaxSize = 2
  Cap = 1
  Unknown = Unknown
  NoUpload = NoUpload
  Faults = {"usb", "sd"}
  AskPastEnd = FALSE
  MaxDepth = 2
  MaxHandles = 3
  MaxInodes = 3
INVARIANTS TypeOK HandleStable UniquePaths UploadOwned AnsweredOnce DeclaredIsSent
PROPERTIES NeverReused UploadWhole
CHECK_DEADLOCK FALSE
