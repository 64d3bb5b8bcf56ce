SPECIFICATION FairSpec
CONSTANTS
    Keys = {k1}
    Calls = {u1}
    Ticks = {i1}
    Nobody = Nobody
    MaxAttempts = 2
    MaxStarts = 2
    MaxCalls = 1
CHECK_DEADLOCK FALSE
PROPERTY ReapedIsNoticed
