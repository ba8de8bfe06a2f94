\* Two ports to the card and three data ports from it: either ring is gone
\* round more than once.
CONSTANTS
  MaxPort = 4
  EndPort = 3
  MaxTx = 4
  MaxRx = 4
\* After a failed transfer, or when all is sent, the system really may stop.
CHECK_DEADLOCK FALSE
SPECIFICATION Spec
INVARIANTS NeverOverwrites NoneForgotten NeverStuck
PROPERTIES ChannelSpec EveryPacketArrives
