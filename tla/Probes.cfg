SPECIFICATION Spec
CONSTANTS
    Calls = {c1, c2}
    home = home
    npm = npm
    bin = bin
    Places = {home, npm, bin}
    Candidates <- MCCandidates
    NpmPlace = npm
    SearchPath <- MCSearchPath
    codex = codex
    shim = shim
    Builds = {codex, shim}
    Running = {codex}
    Hosts <- MCHosts
    Machines <- MCMachines
    TTL = 1
    MaxTime = 1
    MaxChanges = 1
    None = None
    Bare = Bare
SYMMETRY CallSymmetry
INVARIANTS
    ProbesSpeakForWorkers
    IndeterminateIsTemporary
    PreviewSpeaksForWorkers
CHECK_DEADLOCK FALSE
