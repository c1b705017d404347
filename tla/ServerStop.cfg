\* The stop falls between the worker's look at g_worker_run and its read.
SPECIFICATION Spec
CONSTANTS
  Chunks = 1
  MaxUnstarted = 1
  Faults = {}
PROPERTY StopReturns
CHECK_DEADLOCK FALSE
