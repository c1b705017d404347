\* Everything may fail but the renaming and the commit of a whole restore.
SPECIFICATION Spec
CONSTANTS
  Saves = {s, t}
  Files = {f, g}
  Folders = {"d"}
  Contents = {c}
  Original = Original
  NoMount = NoMount
  NoWrite = NoWrite
  Faults = {"mount", "create", "delete"}
SYMMETRY Alike
INVARIANTS OriginalKept ScratchGone ToldIsDurable
PROPERTY VaultSpec
CHECK_DEADLOCK FALSE
