SPECIFICATION QueueSpec
CONSTANTS
    MaxItems = 1
    MaxRetries = 0
PROPERTIES CancelStands
CHECK_DEADLOCK FALSE
