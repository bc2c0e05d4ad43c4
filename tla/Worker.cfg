SPECIFICATION FairSpec
CONSTANTS
  w1 = w1
  Workers = {w1}
  Kinds = {"delegate", "answer", "unknown"}
INVARIANTS
  StoppedLeavesNoTree
  TornDownBeforeResult
PROPERTIES
  LeavesARecord
  EndingsStand
CHECK_DEADLOCK FALSE
