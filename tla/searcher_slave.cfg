CONSTANTS
  f = f
  q1 = q1
  Syncers = {f}
  Queries = {q1}
  Periodic = {f}
  Requests = {"flush"}
  Starts <- SlaveStart
  MaxCommits = 2
SPECIFICATION Spec
INVARIANTS
  PulledIsServed
CHECK_DEADLOCK FALSE
