CONSTANTS
  r = r
  Threads = {r}
  Periodic = {}
  Slaves = {}
  MaxParallel = 1
  MaxDocs = 3
  MaxGen = 4
  MaxStarts = 3
  Faults = {"shutdown"}
  SizeOf <- MCSizeOf
SPECIFICATION HistSpec
INVARIANTS
  FlushedIsKept
CHECK_DEADLOCK FALSE
