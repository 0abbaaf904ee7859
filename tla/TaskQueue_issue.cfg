\* One agent, two pollers, an issue, a chat and quick-creates.
SPECIFICATION Spec
CONSTANTS
    TaskIds = {t1, t2, t3}
    Agents = {a1}
    Runtimes = {r1, r2}
    Issues = {i1}
    Chats = {c1}
    QuickCreate = quick
    Unkeyed = {}
    MaxAttempts = 2
    None = none
SYMMETRY TaskRuntimeSymmetry
CHECK_DEADLOCK FALSE
INVARIANTS Inductive IssueSerialized RetryChain
PROPERTIES FinishedIsFinal RetryHandsOver RerunLeavesPending ImplementsSerialWork
