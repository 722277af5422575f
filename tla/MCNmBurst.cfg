SPECIFICATION FairSpec
CONSTANTS
    p1 = p1
    p2 = p2
    n1 = n1
    Pn <- MCPn
    ConfigPn <- MCConfigPn
    Node <- MCNode
    MsgCycleTime = 1
    MsgCycleOffset = 0
    RepeatMessageTime = 3
    NetworkTimeout = 2
    WaitBusSleepTime = 0
    ImmediateNmCycleTime = 1
    ImmediateNmTransmissions = 3
    SendImmediateInRepeatMessage = TRUE
    PnHandleMultipleNetworkRequests = TRUE
    DropMsgInBusSleepMode = TRUE
    PassivePnTimeout = 1
    ForcedStates <- NoState
    MaxRequests = 2
INVARIANTS
    NeverFallsSilent
    DetectionIsReported
PROPERTIES
    DetectionEnds
