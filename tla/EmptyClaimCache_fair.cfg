\* Three rows, two polls: verdicts written late, no TTL needed.
SPECIFICATION FairSpec
CONSTANTS
    Rows = {t1, t2, t3}
    Polls = {p1, p2}
    NoVerdict = none
CHECK_DEADLOCK FALSE
INVARIANTS CacheInv NoHiddenTask
PROPERTIES AnnouncedIsClaimed
