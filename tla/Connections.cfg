SPECIFICATION FairSpec
CONSTANTS
    Keys = {k1}
    Calls = {u1, u2}
    Ticks = {i1}
    Nobody = Nobody
    MaxAttempts = 2
    MaxStarts = 3
    MaxCalls = 2
PROPERTIES ConnectsNeverLeak DeadIsNoticed ReconnectSettles
CHECK_DEADLOCK FALSE
