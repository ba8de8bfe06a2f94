\* Two threads on one interface or on two: is a thread woken only when its own
\* request is complete?
CONSTANTS
  Threads = {1, 2}
  Nodes = {n1, n2}
  NULL = NULL
  SemMax = 2
  MayHappen = {}
  MaxRuns = 1
SPECIFICATION Spec
INVARIANTS WaitsUntilComplete
