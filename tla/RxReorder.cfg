\* A window of three packets in a number space of twelve, and packets on both
\* sides of the number's wrap; packets dropped by the firmware, every
\* command that touches the entry, a peer that may fall silent.  The
\* flush and the handlers exclude each other.
CONSTANTS
  NULL = NULL
  MaxSeq = 12
  WinSize = 3
  First = 10
  Last = 13
  MaxFlushes = 1
  Events = {"fw", "bar", "nodrop", "addba", "delba"}
  Overlap = FALSE
SPECIFICATION Spec
INVARIANTS SlotSound InOrder NothingLost TimerCovers
PROPERTIES WindowSpec FreshKept EveryPacketLeaves
