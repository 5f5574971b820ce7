CONSTANTS
  p = p
  r = r
  Threads = {p, r}
  Periodic = {p}
  Slaves = {}
  MaxParallel = 1
  MaxDocs = 2
  MaxGen = 3
  MaxStarts = 1
  Faults = {}
  SizeOf <- MCSizeOf
SPECIFICATION HistSpec
INVARIANTS
  FlushedIsCommitted
  FlushedIsPublished
