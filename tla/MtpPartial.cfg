\* A host asks for a range that ends behind the file.
SPECIFICATION Spec
CONSTANTS
  Names = {"a", "b"}
  Card <- MCCard
  MaxSize = 2
  Cap = 1
  Unknown = Unknown
  NoUpload = NoUpload
  Faults = {}
  AskPastEnd = TRUE
  MaxDepth = 2
  MaxHandles = 3
  MaxInodes = 3
INVARIANT DeclaredIsSent
CHECK_DEADLOCK FALSE
