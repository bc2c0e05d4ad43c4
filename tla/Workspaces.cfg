SPECIFICATION Spec
CONSTANTS
    Calls = {c1, c2, c3}
    home = home
    repo = repo
    part = part
    other = other
    Dirs = {home, repo, part, other}
    ServerDir = home
    Enclosing <- MCEnclosing
    Keys = {k}
    Args = {a1, a2}
    Requests <- MCRequests
    Clients <- MCClients
    MaxChanges = 1
    NoDir = NoDir
    BadDir = BadDir
    NoKey = NoKey
    NoJob = NoJob
    NoLimit = NoLimit
SYMMETRY CallSymmetry
INVARIANTS
    RunsStayInBounds
    NamedCallsMeet
    StrayCallsAreFlagged
    AnswersNameTheirOrigin
PROPERTY ListingsAreComplete
CHECK_DEADLOCK FALSE
