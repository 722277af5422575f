SPECIFICATION FairSpec
CONSTANTS
    p1 = p1
    p2 = p2
    n1 = n1
    Pn <- MCPn
    ConfigPn <- MCConfigPn
    Node <- MCNode
    MsgCycleTime = 2
    MsgCycleOffset = 1
    RepeatMessageTime = 4
    NetworkTimeout = 4
    WaitBusSleepTime = 1
    ImmediateNmCycleTime = 1
    ImmediateNmTransmissions = 2
    SendImmediateInRepeatMessage = FALSE
    PnHandleMultipleNetworkRequests = FALSE
    DropMsgInBusSleepMode = FALSE
    PassivePnTimeout = 0
    ForcedStates <- StateType
    MaxRequests = 2
INVARIANTS
    RequestedIsAwake
    StateIsTimed
PROPERTIES
    FallsAsleep
