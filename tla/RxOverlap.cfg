\* The flush in the timer tasklet and the handlers in the driver thread fall
\* between each other's steps: does a packet get lost?
CONSTANTS
  NULL = NULL
  MaxSeq = 12
  WinSize = 3
  First = 10
  Last = 14
  MaxFlushes = 1
  Events = {}
  Overlap = TRUE
\* The peer may have no packet left and the timer nothing to flush.
CHECK_DEADLOCK FALSE
SPECIFICATION Spec
INVARIANTS NothingLost
