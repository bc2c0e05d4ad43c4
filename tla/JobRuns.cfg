SPECIFICATION Spec
CONSTANTS
  c1 = c1
  c2 = c2
  c3 = c3
  k1 = k1
  a1 = a1
  a2 = a2
  f1 = f1
  f2 = f2
  Calls = {c1, c2}
  Keys = {k1}
  NoKey = NoKey
  NoJob = NoJob
  Args = {a1, a2}
  Requests <- MCRequests
  Payloads = {"success"}
  Overruns = {}
  MaxCount = 1
  Fetches = {}
  MaxCrashes = 1
  Flaky = {c1, c2}
SYMMETRY CallSymmetry
INVARIANTS
  NoOrphanedSpend
  KeyedRunIsDurable
  OneLiveRunPerKey
  ReplayedMeansNoSpend
  SharedRunSameAnswer
  ToldGoneMeansNoSpend
CHECK_DEADLOCK FALSE
