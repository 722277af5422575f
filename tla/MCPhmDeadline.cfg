CONSTANTS
    Process = {"p1", "p2"}
    NoProcess = ""
    Checkpoint = {"c1", "c2", "c3"}
    Alive = {"a1"}
    Deadline = {"d1"}
    Logical = {}
    Local = {"l1", "l2"}
    Global = {"g1"}
    Fg = {"f1"}
    FgState = {"Off", "On"}
    Off = "Off"
    CpProcess <- MCCpProcess
    Affiliation <- MCAffiliation
    BaseProcess <- MCBaseProcess
    AliveCp <- MCAliveCp
    Source <- MCSource
    Target <- MCTarget
    Initial <- NoFunction
    Final <- NoFunction
    Transition <- NoFunction
    Expected <- MCExpected
    MinMargin <- MCNoMargin
    MaxMargin <- MCNoMargin
    MinDeadline <- MCMinDeadline
    MaxDeadline <- MCMaxDeadline
    BasesOf <- MCBasesOf
    FailedTolerance <- MCFailedTolerance
    GlobalOf <- MCGlobalOf
    ExpiredTolerance <- MCExpiredTolerance
    FgOf <- MCFgOf
    SupervisionMode <- MCSupervisionMode
    RecoveryMapped = {}
    Word = 16
    MaxPid = 1
    MaxTime = 2
    MaxIndications = 1
SPECIFICATION FairSpec
PROPERTIES
    WatchdogOnlyForCluster
    ExpiredLeadsToStopped
    SilentProcessIsStopped
    PendingDeadlineIsJudged
