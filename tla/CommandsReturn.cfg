\* Every command can be written and is answered, in time or late, well or
\* badly; nothing but the requests, their answers and time-outs makes work.
CONSTANTS
  Threads = {1, 2}
  Nodes = {n1, n2}
  NULL = NULL
  SemMax = 2
  MayHappen = {"bad answer"}
  MaxRuns = 1
SPECIFICATION Spec
INVARIANTS NothingStalls
PROPERTIES EveryRequestReturns
