CONSTANTS
  Transfers = {t1}
  Reads = {}
  Pids = {p1}
  QueueCap = 1
  Escapees = {}
  Wire <- Chatty
  MaxLines = 2
  MaxVersion = 2
  Blocks = {}
  Now = 2
  MaxTime = 3
SPECIFICATION FairSpec
PROPERTIES CalledOffReturns ReadersAreReleased
INVARIANT NamedThreadHoldsTheTranscript
CHECK_DEADLOCK FALSE
