\* A peer that only sends data packets and gives some of them up: are they
\* given to the stack in order when the numbers wrap?
CONSTANTS
  NULL = NULL
  MaxSeq = 12
  WinSize = 3
  First = 10
  Last = 14
  MaxFlushes = 1
  Events = {}
  Overlap = FALSE
\* The peer may have no packet left and the timer nothing to flush.
CHECK_DEADLOCK FALSE
SPECIFICATION Spec
INVARIANTS StrictOrder
