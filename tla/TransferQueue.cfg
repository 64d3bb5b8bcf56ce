SPECIFICATION QueueFairSpec
CONSTANTS
    MaxItems = 3
    MaxRetries = 2
PROPERTIES OneAtATime QueuedStarts
CHECK_DEADLOCK FALSE
