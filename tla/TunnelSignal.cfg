SPECIFICATION Spec
CONSTANTS
    Keys = {k1}
    ForwardKeys = {}
    NoKey = NoKey
    Engines = {"gcloud"}
    Callers = {c1}
    Guarded = {c1}
    Ports = {p1}
    MaxStarts = 2
    MaxPolls = 1
    Idle = 1
    MaxStart = 1
    MaxLag = 1
PROPERTY OnlyUnreapedSignalled
