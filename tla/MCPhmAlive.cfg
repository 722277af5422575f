CONSTANTS
    Process = {"p1", "p2"}
    NoProcess = ""
    Checkpoint = {"c1", "c2"}
    Alive = {"a1", "a2"}
    Deadline = {}
    Logical = {}
    Local = {"l1", "l2"}
    Global = {"g1"}
    Fg = {"f1", "f2"}
    FgState = {"Off", "On"}
    Off = "Off"
    CpProcess <- MCCpProcess
    Affiliation <- MCAffiliation
    BaseProcess <- MCBaseProcess
    AliveCp <- MCAliveCp
    Source <- NoFunction
    Target <- NoFunction
    Initial <- NoFunction
    Final <- NoFunction
    Transition <- NoFunction
    Expected <- MCOnePerCycle
    MinMargin <- MCNoMargin
    MaxMargin <- MCNoMargin
    MinDeadline <- NoFunction
    MaxDeadline <- NoFunction
    BasesOf <- MCBasesOf
    FailedTolerance <- MCFailedTolerance
    GlobalOf <- MCGlobalOf
    ExpiredTolerance <- MCExpiredTolerance
    FgOf <- MCFgOf
    SupervisionMode <- MCSupervisionMode
    RecoveryMapped = {"g1"}
    Word = 16
    MaxPid = 2
    MaxTime = 0
    MaxIndications = 2
SPECIFICATION Spec
INVARIANTS
    TypeOK
    ActiveBaseIsMonitored
    SupervisedIffRunning
    FailedCyclesAccounting
    StoppedHasCause
