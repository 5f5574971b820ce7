CONSTANTS
  p = p
  s = s
  Threads = {p}
  Periodic = {p}
  Slaves = {s}
  MaxParallel = 2
  MaxDocs = 2
  MaxGen = 2
  MaxStarts = 1
  Faults = {}
  MaxBoots = 2
  SlaveFaults = {}
  SizeOf <- MCSizeOf
SPECIFICATION DistFairSpec
INVARIANTS
  DistTypeOK
PROPERTIES
  AcceptedIsPublished
  FeedSpec
  SlaveCatchesUp
CHECK_DEADLOCK FALSE
