SPECIFICATION Spec
CONSTANTS
  c1 = c1
  c2 = c2
  c3 = c3
  k1 = k1
  a1 = a1
  a2 = a2
  f1 = f1
  f2 = f2
  Calls = {c1, c2, c3}
  Keys = {}
  NoKey = NoKey
  NoJob = NoJob
  Args = {a1, a2}
  Requests <- MCSync
  Payloads = {"success"}
  Overruns = {}
  MaxCount = 2
  Fetches = {}
  MaxCrashes = 0
  Flaky = {}
SYMMETRY CallSymmetry
INVARIANTS
  SyncCallGetsItsEnvelope
CHECK_DEADLOCK FALSE
