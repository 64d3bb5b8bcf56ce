SPECIFICATION FairSpec
CONSTANTS
    Conns = {c1}
    Units = 2
    Interval = 1
INVARIANT EofAfterData
PROPERTIES EndsWhole NoFalseDeath NoZombie VmEndReachesClient
CHECK_DEADLOCK FALSE
