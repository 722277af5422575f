SPECIFICATION Spec
CONSTANTS
    MaxVersion = 2
    Option <- MCOption
    MaxCrashes = 2
CHECK_DEADLOCK FALSE
PROPERTY
    CleanupIsRedone
