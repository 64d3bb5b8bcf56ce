SPECIFICATION Spec
CONSTANTS
    home = home
    etc = etc
    Places = {home}
    Area <- HomeAndSystem
    Paths = {"absolute"}
    Installed <- Sshfs
    Platform = "linux"
    Fresh = FALSE
    MaxCalls = 3
    MaxLosses = 0
INVARIANT EveryMountRegistered
CHECK_DEADLOCK FALSE
