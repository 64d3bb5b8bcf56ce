SPECIFICATION Spec
CONSTANTS
    Keys = {k1}
    ForwardKeys = {}
    NoKey = NoKey
    Engines = {"gcloud"}
    Callers = {c1, c2}
    Guarded = {c1}
    Ports = {p1, p2}
    MaxStarts = 2
    MaxPolls = 1
    Idle = 1
    MaxStart = 1
    MaxLag = 1
INVARIANT NoneOrphaned
