\* Kafka's documents without any failure: two versions in one batch.
CONSTANTS
  LastVersion = 3
  IdOf <- MCIdOf
  Callers = {1}
  Partitions = {"p", "q"}
  PartOf <- MCPartOf
  Since = 2
  Reader = 1
  RequestChunk = 1
  StreamChunk = 2
  MaxFaults = 0
SPECIFICATION IngestionSpec
INVARIANT OneVersionPerId
CHECK_DEADLOCK FALSE
