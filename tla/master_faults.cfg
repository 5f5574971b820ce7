CONSTANTS
  r = r
  Threads = {r}
  Periodic = {}
  Slaves = {}
  MaxParallel = 1
  MaxDocs = 2
  MaxGen = 4
  MaxStarts = 3
  Faults = {"shutdown", "kill", "lose"}
  SizeOf <- MCSizeOf
SPECIFICATION HistSpec
INVARIANTS
  TypeOK
  SameNameSameContent
  UncutIsSnapshot
PROPERTIES
  RemoteSeqnumGrows
CHECK_DEADLOCK FALSE
