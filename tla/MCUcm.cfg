SPECIFICATION FairSpec
CONSTANTS
    MaxVersion = 3
    Option <- MCOption
    MaxCrashes = 2
\* A rollback that SM refuses waits for the next restart.
CHECK_DEADLOCK FALSE
INVARIANTS
    TypeOK
    Bootable
    ABFiles
    IdleIsClean
    AtomicUpdate
    RecoverableStatus
PROPERTIES
    ActivatedRunsUpdate
    RolledBackRunsOld
    WorkEnds
