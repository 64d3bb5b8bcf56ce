\* Two callers, one outside the single flight, a tunnel and a forward, both engines, one port.
SPECIFICATION FairSpec
CONSTANTS
    Keys = {k1, f1}
    ForwardKeys = {f1}
    NoKey = NoKey
    Engines = {"native", "gcloud"}
    Callers = {c1, c2}
    Guarded = {c1}
    Ports = {p1}
    MaxStarts = 2
    MaxPolls = 1
    Idle = 1
    MaxStart = 0
    MaxLag = 0
INVARIANT Accounted
PROPERTIES ReapsOnlyIdle ServiceSpec IdleIsReaped
