\* Two threads, on one interface (and its event) or on two, and two nodes.
\* Everything may happen that can go wrong on the way to the card and back.
CONSTANTS
  Threads = {1, 2}
  Nodes = {n1, n2}
  NULL = NULL
  SemMax = 2
  MayHappen = {"no buffer", "failing write", "bad answer", "interrupt"}
  MaxRuns = 1
SPECIFICATION Spec
INVARIANTS NodesAccounted AnswerIsCurrent OwnAnswer
PROPERTIES LineSpec
