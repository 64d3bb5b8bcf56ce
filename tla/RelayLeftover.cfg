\* A frame behind RECONNECT_SUCCESS_ACK in the same message stays undecoded.
SPECIFICATION Spec
CONSTANTS
    MaxFrame = 1
    MaxReconnects = 1
    MaxOut = 0
    MaxIn = 1
    MaxFlight = 4
    OddFrames = {}
INVARIANT NoFrameLeftBehind
CHECK_DEADLOCK FALSE
