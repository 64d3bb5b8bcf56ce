SPECIFICATION FairSpec
CONSTANTS
    home = home
    etc = etc
    Places = {home, etc}
    Area <- HomeAndSystem
    Paths = {"absolute", "relative"}
    Installed <- Sshfs
    Platform = "linux"
    Fresh = TRUE
    MaxCalls = 3
    MaxLosses = 1
INVARIANT TableIsWhatIsMounted
PROPERTY CallsEnd
CHECK_DEADLOCK FALSE
