\* The scratch file cannot take its name.
SPECIFICATION Spec
CONSTANTS
  Saves = {"s", "t"}
  Files = {"f", "g"}
  Folders = {"d"}
  Contents = {1, 2}
  Original = 0
  NoMount = NoMount
  NoWrite = NoWrite
  Faults = {"rename"}
INVARIANT OriginalKept
CHECK_DEADLOCK FALSE
