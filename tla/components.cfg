\* The components that share no state, each in its own part of one run.
CONSTANTS
  LastVersion = 3
  IdOf <- MCIdOf
  Callers = {1, 2}
  Partitions = {"p", "q"}
  PartOf <- MCPartOf
  Since = 2
  Reader = 1
  RequestChunk = 1
  StreamChunk = 2
  MaxFaults = 2
  Processes = {1, 2}
  Size = 2
  MaxBusy = 1
  MaxCrashes = 2
  Embedders = {1, 2}
  Fields = {"f", "g"}
  Texts = {"x", "y"}
  Uncached = {"g"}
  KeyOf <- MCKeyOf
  Batches <- MCBatches
  CacheSize = 2
  MaxJobs = 2
  Docs = {"d1", "d2", "d3"}
  Requests <- MCRequests
  MinLong <- MCMin
  MaxLong = 2
  Bounds <- MCBounds
  Floats <- MCFloats
  Plus <- MCPlus
  Reciprocal <- MCReciprocal
  FieldNames = {"f"}
  Schemas <- MCSchemas
  MaxSize = 6
  Threads = 3
SPECIFICATION ComponentsSpec
INVARIANTS
  IngestionTypeOK
  ModelFilesTypeOK
  TwoVersionsNeedARace
  AckedIsHeld
  PassedIsHeld
  OlderNeedsRedelivery
  DoneHoldsFile
  UnsharedIsWhole
  EmbeddingSharesItsKey
  VectorlessNeedsAClash
  FusionRespectsRankings
  LongRangesAreExact
  FieldsKeepTheirType
  ReadsTheObject
PROPERTIES
  BatchIsCommitted
  ModelIsLoaded
CHECK_DEADLOCK FALSE
