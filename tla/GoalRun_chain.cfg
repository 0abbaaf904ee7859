\* Work, its verifier and what follows, two handlers, no user.
SPECIFICATION Spec
CONSTANTS
    a = a
    b = b
    v = v
    c = c
    None = none
    Handlers = {h1, h2}
    Subtasks = {a, v, c}
    Deps <- Chain
    Verify = {v}
    Ends = {"completed", "failed", "cancelled"}
    Verdicts = {"pass", "reject"}
    Decisions = {"retry", "proceed", "abort"}
    RetryOn = {}
    SkipOn = {}
    MaxRuns = 2
CHECK_DEADLOCK FALSE
SYMMETRY HandlerSymmetry
INVARIANTS TypeOK   
