SPECIFICATION Spec
CONSTANTS
    Keys = {k1, f1}
    ForwardKeys = {f1}
    NoKey = NoKey
    Engines = {"native", "gcloud"}
    Callers = {c1, c2}
    Guarded = {c1, c2}
    Ports = {p1, p2}
    MaxStarts = 2
    MaxPolls = 1
    Idle = 1
    MaxStart = 1
    MaxLag = 1
PROPERTY ListeningIsAlive
