CONSTANTS
  p = p
  s = s
  Threads = {p}
  Periodic = {p}
  Slaves = {s}
  MaxParallel = 2
  MaxDocs = 2
  MaxGen = 4
  MaxStarts = 1
  Faults = {}
  MaxBoots = 1
  SlaveFaults = {}
  SizeOf <- MCSizeOf
SPECIFICATION DistSpec
INVARIANTS
  SlaveIsSnapshot
CHECK_DEADLOCK FALSE
