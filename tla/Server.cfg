\* Everything may fail; the user may leave the server up, the host may be silent.
SPECIFICATION Spec
CONSTANTS
  Chunks = 2
  MaxUnstarted = 1
  Faults = {"usb", "server", "create", "start", "begin"}
INVARIANTS TypeOK NoUseAfterFree AllReleased Drained AtMostOneMore
PROPERTIES SessionEnds StopReturnsOrParked
CHECK_DEADLOCK FALSE
