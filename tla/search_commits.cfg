CONSTANTS
  f = f
  q1 = q1
  Syncers = {f}
  Queries = {q1}
  Periodic = {f}
  Requests = {}
  Starts <- LocalStart
  MaxCommits = 2
SPECIFICATION Spec
INVARIANTS
  HitsAreOfOneCommit
CHECK_DEADLOCK FALSE
