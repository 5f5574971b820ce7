CONSTANTS
  p = p
  s = s
  Threads = {p}
  Periodic = {p}
  Slaves = {s}
  MaxParallel = 2
  MaxDocs = 2
  MaxGen = 3
  MaxStarts = 1
  Faults = {}
  MaxBoots = 2
  SlaveFaults = {"kill"}
  SizeOf <- MCSizeOf
SPECIFICATION DistSpec
INVARIANTS
  RemoteIsSnapshot
  SlaveIsBehind
  SlaveNeverPushes
  UndisturbedIsSnapshot
CHECK_DEADLOCK FALSE
