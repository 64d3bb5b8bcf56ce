SPECIFICATION FairSpec
CONSTANTS
    Size = 5
    Workers = 3
INVARIANTS OkIsWhole FailureLeavesNoHole
PROPERTIES ReturnsWithItsWorkers CallSpec
CHECK_DEADLOCK FALSE
