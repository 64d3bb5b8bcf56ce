\* Two launches, of any kind, on one instance.
SPECIFICATION LaunchSpec
CONSTANTS
    Platforms = {"linux", "macos"}
    Requests <- SomeRequests
    Names = {"n"}
    Ports <- SomePorts
    Installable <- SomeClients
    MaxLaunches = 2
    MaxMishaps = 1
INVARIANTS ReportsWhatItOpened DialsItsTunnel
CHECK_DEADLOCK FALSE
