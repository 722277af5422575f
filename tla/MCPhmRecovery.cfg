CONSTANTS
    Identifier = {"r1"}
    MaxRetry <- MCMaxRetry
    WatchdogEnabled = TRUE
    RequestMayFail = TRUE
    LoopMayStall = TRUE
    MaxSession = 4
SPECIFICATION FairSpec
INVARIANTS
    SuccessMeansHandled
    AttemptsBounded
PROPERTIES
    RecoveryConcludes
    AnsweredOrReset
