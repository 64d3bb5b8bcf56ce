SPECIFICATION FairSpec
CONSTANTS
    Conns = {c1}
    Units = 1
    Interval = 1
PROPERTY ClientEndReachesVm
CHECK_DEADLOCK FALSE
