\* One agent claimed for by two runtimes: two tasks of one chat at once.
SPECIFICATION Spec
CONSTANTS
    TaskIds = {t1, t2}
    Agents = {a1}
    Runtimes = {r1, r2}
    Issues = {}
    Chats = {c1}
    QuickCreate = quick
    Unkeyed = {}
    MaxAttempts = 2
    None = none
CHECK_DEADLOCK FALSE
INVARIANTS ChatSerialized
