CONSTANTS
  g = g
  q1 = q1
  Syncers = {g}
  Queries = {q1}
  Periodic = {}
  Requests = {"flush", "merge"}
  Starts <- LocalStart
  MaxCommits = 3
SPECIFICATION FairSpec
INVARIANTS
  SyncedIsServed
PROPERTIES
  CommitIsServed
CHECK_DEADLOCK FALSE
