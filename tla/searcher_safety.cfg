CONSTANTS
  f = f
  q1 = q1
  q2 = q2
  Syncers = {f}
  Queries = {q1, q2}
  Periodic = {f}
  Requests = {"flush"}
  Starts <- AnyStart
  MaxCommits = 3
SPECIFICATION Spec
INVARIANTS
  TypeOK
  ServedReaderIsOpen
  CurrentReaderIsOpen
  ReadersAreClosed
  ClaimIsReported
PROPERTIES
  SyncMovesForward
SYMMETRY QuerySymmetry
