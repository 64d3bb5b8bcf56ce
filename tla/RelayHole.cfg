\* A chunk whose send fails is in no buffer: the VM misses it.
SPECIFICATION Spec
CONSTANTS
    MaxFrame = 1
    MaxReconnects = 1
    MaxOut = 2
    MaxIn = 0
    MaxFlight = 4
    OddFrames = {}
INVARIANT NoHole
CHECK_DEADLOCK FALSE
