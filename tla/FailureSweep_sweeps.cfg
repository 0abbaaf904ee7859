\* Sweeps and recoveries that overlap, two agents on the issue.
SPECIFICATION SweepSpec
CONSTANTS
    Works = {w1, w2}
    Agents = {a1, a2}
    Handlers = {h1, h2}
    MaxAttempts = 2
    None = none
CHECK_DEADLOCK FALSE
INVARIANTS SweepInv
 
