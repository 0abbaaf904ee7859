\* A join with users who retry and skip, one handler after the other.
SPECIFICATION FairSpec
CONSTANTS
    a = a
    b = b
    v = v
    c = c
    None = none
    Handlers = {h1}
    Subtasks = {a, b, c}
    Deps <- Join
    Verify = {}
    Ends = {"completed", "failed"}
    Verdicts = {}
    Decisions = {"retry", "proceed", "abort"}
    RetryOn = {"failed"}
    SkipOn = {"failed", "blocked"}
    MaxRuns = 2
CHECK_DEADLOCK FALSE
INVARIANTS GateHolds NoNodeLeftBehind
 
