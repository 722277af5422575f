CONSTANTS
    Process = {"p1"}
    NoProcess = ""
    Checkpoint = {"c1", "c2", "c3", "c4", "c5", "c6"}
    Alive = {}
    Deadline = {}
    Logical = {"s1"}
    Local = {"l1"}
    Global = {"g1"}
    Fg = {"f1"}
    FgState = {"Off", "On"}
    Off = "Off"
    CpProcess <- MCCpProcess
    Affiliation <- MCAffiliation
    BaseProcess <- MCBaseProcess
    AliveCp <- NoFunction
    Source <- NoFunction
    Target <- NoFunction
    Initial <- MCInitial
    Final <- MCFinal
    Transition <- MCTransition
    Expected <- NoFunction
    MinMargin <- NoFunction
    MaxMargin <- NoFunction
    MinDeadline <- NoFunction
    MaxDeadline <- NoFunction
    BasesOf <- MCBasesOf
    FailedTolerance <- MCFailedTolerance
    GlobalOf <- MCGlobalOf
    ExpiredTolerance <- MCExpiredTolerance
    FgOf <- MCFgOf
    SupervisionMode <- MCSupervisionMode
    RecoveryMapped = {"g1"}
    Word = 16
    MaxPid = 2
    MaxTime = 0
    MaxIndications = 1
SPECIFICATION Spec
INVARIANTS
    PathIsContinuous
PROPERTIES
    ExpiredIsRecoveredNotForgotten
