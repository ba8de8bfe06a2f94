SPECIFICATION Spec
CONSTANTS
  MaxQueue = 1
  DataPorts = {d1, d2}
\* After a failed transfer nothing tells the host of the card's interrupt
\* again: with both queues full the system really may stop.
CHECK_DEADLOCK FALSE
INVARIANTS AnswerExpected NothingOverwritten SleepsTogether NoneStranded
PROPERTIES EverythingMoves SleepKeptInLoop
