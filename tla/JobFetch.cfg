SPECIFICATION Spec
CONSTANTS
  c1 = c1
  c2 = c2
  c3 = c3
  k1 = k1
  a1 = a1
  a2 = a2
  f1 = f1
  f2 = f2
  Calls = {c1, c2}
  Keys = {}
  NoKey = NoKey
  NoJob = NoJob
  Args = {a1, a2}
  Requests <- MCAsync
  Payloads = {"success", "foreign"}
  Overruns = {}
  MaxCount = 1
  Fetches = {f1, f2}
  MaxCrashes = 0
  Flaky = {}
SYMMETRY CallSymmetry
INVARIANTS
  ConsumedOnce
  ConsumeKeepsTheUnread
PROPERTIES
  ImplementsLedger
CHECK_DEADLOCK FALSE
