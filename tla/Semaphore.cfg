SPECIFICATION Spec
CONSTANTS
  Tasks = {1, 2, 3}
  Idle = 4
  InitCnt = 1
  CntMax = 2
  Timeouts = {0, 2}
  MaxTotal = 3
INVARIANTS TokenOrWaiter NoLostWaiter TokensConserved
PROPERTIES AbstractSpec TopPendReturns
