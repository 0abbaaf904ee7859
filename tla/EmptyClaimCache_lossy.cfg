\* The same with a Redis that restarts: only the TTL is left to rely on.
SPECIFICATION LossySpec
CONSTANTS
    Rows = {t1, t2}
    Polls = {p1, p2}
    NoVerdict = none
CHECK_DEADLOCK FALSE
PROPERTIES QueuedIsClaimed
