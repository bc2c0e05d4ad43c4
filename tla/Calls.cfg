CONSTANTS
  Transfers = {t1}
  Reads = {r1}
  Pids = {p1}
  QueueCap = 1
  Escapees = {r1}
  Wire <- ByTool
  MaxLines = 3
  MaxVersion = 1
  Blocks <- EdgeBlocks
  Now = 2
  MaxTime = 3
SPECIFICATION Spec
CONSTRAINT OneCall
INVARIANTS LastWordsReachTheTail TransferRepliesAreTrue QuotaIsConservative RepliesIgnoreSlotOrder
PROPERTIES ImplementsOneShotCall KillsOnlyItsOwnChild
CHECK_DEADLOCK FALSE
