SPECIFICATION FairSpec
CONSTANTS
    Tabs = {t1, t2}
    Windows = {w1, w2}
    Resets = {r1, r2}
    Keys = {k1, k2}
    Theirs = Theirs
    None = None
    MaxForeign = 1
CHECK_DEADLOCK FALSE
INVARIANT PublishedMeansLanded
PROPERTIES ConflictMeansContention NobodyLosesAnItem CallsEnd
