\* The card takes no more data during an upload.
SPECIFICATION Spec
CONSTANTS
  Names = {"a", "b"}
  Card <- MCCard
  MaxSize = 2
  Cap = 1
  Unknown = Unknown
  NoUpload = NoUpload
  Faults = {"write"}
  AskPastEnd = FALSE
  MaxDepth = 2
  MaxHandles = 3
  MaxInodes = 3
INVARIANT AnsweredOnce
CHECK_DEADLOCK FALSE
