------------------------------ MODULE NmEther ------------------------------
(***************************************************************************)
(* NMEtherStateMachine of nmd: the UDP network management of one Ethernet  *)
(* connector (nm/src/nmd/src/nmm/nmetherstatemachine.cpp).                 *)
(*                                                                         *)
(* Every handler (request, IPC call, received message, timer) runs to its  *)
(* end on the one event loop of nmd, so each of them is one action.  Time  *)
(* is discrete: a timer holds the ticks it has left and its callback runs  *)
(* before the next tick, in any order with the others that are due.        *)
(*                                                                         *)
(* modeType_ and stateType_ are always set together, and the mode follows  *)
(* from the state: only the state is kept.  The observers that are told of *)
(* a change, the user data of a message and the DTC of the network card    *)
(* are left out.                                                           *)
(***************************************************************************)
EXTENDS Integers

CONSTANTS
    Pn,                        \* partial networks that occur in calls and messages
    ConfigPn,                  \* configPnGroup_: those of this connector
    Node,                      \* identifiers of the other nodes
    MsgCycleTime, MsgCycleOffset, RepeatMessageTime, NetworkTimeout,
    WaitBusSleepTime, ImmediateNmCycleTime,            \* durations, in ticks
    ImmediateNmTransmissions,  \* messages of a burst, 0: no burst
    SendImmediateInRepeatMessage,   \* a burst also without a request
    PnHandleMultipleNetworkRequests,
    DropMsgInBusSleepMode,
    PassivePnTimeout,          \* 0: passive requests are not observed
    ForcedStates,              \* states the management interface sets
    MaxRequests                \* bound on the requests counted at a time

StateType == {"BusSleep", "PrepareBusSleep", "RepeatMessage",
              "NormalOperation", "ReadySleep"}

\* What _checketherTimerConfig accepts, in ticks.  An offset below one
\* millisecond is MsgCycleOffset = 0.
CheckEtherTimerConfig ==
    /\ MsgCycleTime \in Nat \ {0} /\ NetworkTimeout \in Nat /\ RepeatMessageTime \in Nat
    /\ WaitBusSleepTime \in Nat /\ MsgCycleOffset \in Nat
    /\ MsgCycleOffset < MsgCycleTime
    /\ NetworkTimeout % MsgCycleTime = 0 /\ NetworkTimeout > MsgCycleTime
    /\ RepeatMessageTime % MsgCycleTime = 0
    /\ ImmediateNmTransmissions \in Nat /\ ImmediateNmCycleTime \in Nat
    /\ ImmediateNmTransmissions * ImmediateNmCycleTime <= RepeatMessageTime
    /\ ImmediateNmTransmissions > 0 => ImmediateNmCycleTime > 0
    /\ MsgCycleOffset < RepeatMessageTime

ASSUME EtherConfigAssumption ==
    /\ CheckEtherTimerConfig
    /\ ConfigPn \subseteq Pn
    /\ SendImmediateInRepeatMessage \in BOOLEAN
    /\ PnHandleMultipleNetworkRequests \in BOOLEAN
    /\ DropMsgInBusSleepMode \in BOOLEAN
    /\ PassivePnTimeout \in Nat
    /\ ForcedStates \subseteq StateType
    /\ MaxRequests \in Nat

VARIABLES
    initConfig,          \* the socket is open
    state,               \* stateType_
    requestEtherCount, requestPnGroup,
    activeWakeUpNet,
    immediateLeft,       \* nmImmediateNmTransmissionsLeft_
    timer,               \* ticks left of every timer, or Off
    ctrType,             \* which messages are enabled
    detectNode, nodeList,
    passivePnGroup       \* cycles since each passive request was seen, or Off

requestVars == <<requestEtherCount, requestPnGroup>>
detectVars  == <<detectNode, nodeList>>
vars == <<initConfig, state, requestVars, activeWakeUpNet, immediateLeft, timer,
          ctrType, detectVars, passivePnGroup>>

----------------------------------------------------------------------------
(* Timers.  Making or updating a timer arms it for its duration; resetting  *)
(* the pointer, or running the callback of a one-shot timer, turns it off.  *)

Off == -1

EtherTimer == {"network", "msgCycle", "msgCycleOffset", "immediate",
               "repeateMessage", "waitBusSleep"}
Timer == EtherTimer \cup {"passivePnCheck"}

Duration(t) ==
    CASE t = "network"        -> NetworkTimeout
      [] t = "msgCycle"       -> MsgCycleTime
      [] t = "msgCycleOffset" -> MsgCycleOffset
      [] t = "immediate"      -> ImmediateNmCycleTime
      [] t = "repeateMessage" -> RepeatMessageTime
      [] t = "waitBusSleep"   -> WaitBusSleepTime
      [] t = "passivePnCheck" -> MsgCycleTime

\* The timers after those of off were reset and then those of on were made.
Timers(off, on) ==
    [t \in Timer |-> IF t \in on THEN Duration(t) ELSE IF t \in off THEN Off ELSE timer[t]]

Armed(t) == timer[t] # Off
Due(t) == timer[t] = 0

----------------------------------------------------------------------------
ActiveRequested(count, pns) == count > 0 \/ pns # {}
CheckActiveRequested == ActiveRequested(requestEtherCount, requestPnGroup)

Network == {"RepeatMessage", "NormalOperation", "ReadySleep"}

\* What _sendNmMessage may return: sending can fail, and fails when it is
\* disabled or when there is no socket.
SendNmMessage == IF initConfig /\ ctrType \in {"EnableAll", "EnableSend"}
                 THEN BOOLEAN ELSE {FALSE}

\* The timer that a message which was sent arms.
AfterSend(sent) == IF sent THEN {"network"} ELSE {}

Init ==
    /\ initConfig \in BOOLEAN
    /\ state = "BusSleep"
    /\ requestEtherCount = 0 /\ requestPnGroup = {}
    /\ activeWakeUpNet = FALSE
    /\ immediateLeft = 0
    /\ timer = [t \in Timer |-> Off]
    /\ ctrType = "EnableAll"
    /\ detectNode = FALSE /\ nodeList = {}
    /\ passivePnGroup = [p \in Pn |-> Off]

\* The socket is open, now or already.  A failure to open it ends the handler
\* with nothing changed.
CheckCardAndInitSocket == initConfig' = TRUE

----------------------------------------------------------------------------
(* Into RepeatMessage: with a burst of messages, after an offset, or with a *)
(* message at once and then periodically.  The message sent at once needs   *)
(* no case of its own: the network timer is made anyway.  off and on: what  *)
(* the caller resets before and makes besides.                              *)

\* Seeded fault: the message sent at once is not counted.
BurstLeftUncounted == ImmediateNmTransmissions

\* The messages of a burst that are left once the first is sent.
BurstLeft == ImmediateNmTransmissions - 1

ToRepeateMessage(fast, off, on) ==
    LET burst == fast /\ ImmediateNmTransmissions > 0
        first == IF burst
                 THEN IF ImmediateNmTransmissions > 1 THEN "immediate" ELSE "msgCycle"
                 ELSE IF MsgCycleOffset > 0 THEN "msgCycleOffset" ELSE "msgCycle"
    IN /\ state' = "RepeatMessage"
       /\ immediateLeft' = IF burst THEN BurstLeft ELSE immediateLeft
       /\ timer' = Timers(off \cup {"msgCycle"}, {first, "repeateMessage", "network"} \cup on)

Fast == SendImmediateInRepeatMessage \/ ActiveRequested(requestEtherCount', requestPnGroup')

BusSleepToRepeateMessage(on) == ToRepeateMessage(Fast, {}, on)

\* Only called with the request that has just been counted.
MultipleNetworkRequestsForceToRepeateMessage == ToRepeateMessage(TRUE, {}, {})

\* Seeded fault: the timer of PrepareBusSleep goes on.
PrepareToRepeateKeepsTimer(on) == ToRepeateMessage(Fast, {}, on)

PrepareBusSleepToRepeateMessage(on) == ToRepeateMessage(Fast, {"waitBusSleep"}, on)

ReptMsgReqToRepeateMessage(on) == ToRepeateMessage(SendImmediateInRepeatMessage, {}, on)

WakeupCallToRepeateMessage == ToRepeateMessage(Fast, EtherTimer \ {"network"}, {})

ReadySleepToNormalOperation ==
    /\ state' = "NormalOperation"
    /\ timer' = Timers({}, {"msgCycle", "network"})
    /\ UNCHANGED immediateLeft

NormalOperationToReadySleep ==
    /\ state' = "ReadySleep"
    /\ timer' = Timers({"msgCycle"}, {})

\* A timer of no duration runs its callback while it is made: the state is
\* then BusSleep at once.
ToPrepareBusSleep(off) ==
    /\ state' = IF WaitBusSleepTime = 0 THEN "BusSleep" ELSE "PrepareBusSleep"
    /\ timer' = Timers(off, IF WaitBusSleepTime = 0 THEN {} ELSE {"waitBusSleep"})
    /\ requestEtherCount' = 0 /\ requestPnGroup' = {}
    /\ activeWakeUpNet' = FALSE

----------------------------------------------------------------------------
(* Calls of the logical and partial networks.                               *)

\* requestEther: for a logical network; pns: at most one partial network.  A
\* partial network that is unknown or requested already is no request.
RequestNetwork(requestEther, pns) ==
    /\ CheckCardAndInitSocket
    /\ requestEther => requestEtherCount < MaxRequests
    /\ requestEtherCount' = requestEtherCount + IF requestEther THEN 1 ELSE 0
    /\ requestPnGroup' = requestPnGroup \cup (pns \cap ConfigPn)
    /\ IF ~requestEther /\ requestPnGroup' = requestPnGroup
       THEN UNCHANGED <<state, activeWakeUpNet, immediateLeft, timer>>
       ELSE \/ /\ state = "BusSleep"
               /\ activeWakeUpNet' = TRUE
               /\ BusSleepToRepeateMessage({})
            \/ /\ state = "PrepareBusSleep"
               /\ activeWakeUpNet' = TRUE
               /\ PrepareBusSleepToRepeateMessage({})
            \/ /\ state \in Network /\ UNCHANGED activeWakeUpNet
               /\ IF PnHandleMultipleNetworkRequests
                  THEN MultipleNetworkRequestsForceToRepeateMessage
                  ELSE IF state = "ReadySleep" THEN ReadySleepToNormalOperation
                  ELSE UNCHANGED <<state, immediateLeft, timer>>
    /\ UNCHANGED <<ctrType, detectVars, passivePnGroup>>

\* The requests of logical networks that are left after a release.
EtherCountReleased(requestEther) ==
    IF requestEther /\ requestEtherCount > 0 THEN requestEtherCount - 1 ELSE requestEtherCount

ReleaseNetwork(requestEther, pns) ==
    /\ requestEther \/ pns # {}
    /\ requestEtherCount' = EtherCountReleased(requestEther)
    /\ requestPnGroup' = requestPnGroup \ pns
    /\ IF ~ActiveRequested(requestEtherCount', requestPnGroup') /\ state = "NormalOperation"
       THEN NormalOperationToReadySleep
       ELSE UNCHANGED <<state, timer>>
    /\ UNCHANGED <<initConfig, activeWakeUpNet, immediateLeft, ctrType, detectVars,
                   passivePnGroup>>

\* Seeded fault: a detection is under way although nothing was started.
DetectWhileAsleep ==
    /\ ~detectNode
    /\ nodeList' = {}
    /\ IF state \in Network
       THEN detectNode' = TRUE /\ UNCHANGED requestVars /\ BusSleepToRepeateMessage({})
       ELSE detectNode' = TRUE /\ UNCHANGED <<state, requestVars, immediateLeft, timer>>
    /\ UNCHANGED <<initConfig, activeWakeUpNet, ctrType, passivePnGroup>>

\* The nodes that answer are collected until the repeat message timer expires.
\* A request while one is under way, or while the network sleeps, is ignored.
RequestDetectNode ==
    /\ ~detectNode
    /\ nodeList' = {}
    /\ IF state \in Network
       THEN detectNode' = TRUE /\ UNCHANGED requestVars /\ BusSleepToRepeateMessage({})
       ELSE UNCHANGED <<detectNode, state, requestVars, immediateLeft, timer>>
    /\ UNCHANGED <<initConfig, activeWakeUpNet, ctrType, passivePnGroup>>

----------------------------------------------------------------------------
(* Messages, the wakeup line and the management interface.                  *)

\* A message of another node.  pnGroup: the partial networks it requests; each
\* counts again from zero, and the check of their age is started if needed.
RecvNmMessage(nodeId, repeatMessageBit, pnGroup) ==
    LET drop == ~repeatMessageBit /\ state = "BusSleep" /\ DropMsgInBusSleepMode
        on == IF PassivePnTimeout > 0 /\ ~Armed("passivePnCheck")
              THEN {"passivePnCheck"} ELSE {}
    IN /\ initConfig /\ ctrType \in {"EnableAll", "EnableReceive"}
       /\ nodeList' = IF detectNode THEN nodeList \cup {nodeId} ELSE nodeList
       /\ passivePnGroup' = IF drop \/ PassivePnTimeout = 0 THEN passivePnGroup
                            ELSE [p \in Pn |-> IF p \in pnGroup THEN 0 ELSE passivePnGroup[p]]
       /\ UNCHANGED <<initConfig, requestVars, activeWakeUpNet, ctrType, detectNode>>
       /\ \/ drop /\ UNCHANGED <<state, immediateLeft, timer>>
          \/ /\ repeatMessageBit /\ state \in {"NormalOperation", "ReadySleep"}
             /\ ReptMsgReqToRepeateMessage(on)
          \/ /\ repeatMessageBit /\ state \notin {"NormalOperation", "ReadySleep"}
             /\ timer' = Timers({}, on) /\ UNCHANGED <<state, immediateLeft>>
          \/ /\ ~repeatMessageBit /\ ~drop /\ state = "BusSleep"
             /\ BusSleepToRepeateMessage(on)
          \/ /\ ~repeatMessageBit /\ state = "PrepareBusSleep"
             /\ PrepareBusSleepToRepeateMessage(on)
          \/ /\ ~repeatMessageBit /\ state \in Network
             /\ timer' = Timers({}, on \cup {"network"}) /\ UNCHANGED <<state, immediateLeft>>

\* The wakeup line starts over from RepeatMessage and keeps the requests.
NotifyWakeup ==
    /\ CheckCardAndInitSocket
    /\ UNCHANGED requestVars
    /\ WakeupCallToRepeateMessage
    /\ UNCHANGED <<activeWakeUpNet, ctrType, detectVars, passivePnGroup>>

ForceRepeatMessageState ==
    /\ UNCHANGED <<requestVars, activeWakeUpNet>>
    /\ ToRepeateMessage(Fast, EtherTimer, {})

ForceNormalOperState ==
    /\ state' = "NormalOperation"
    /\ timer' = Timers(EtherTimer,
                       {"network"} \cup IF CheckActiveRequested THEN {"msgCycle"} ELSE {})
    /\ UNCHANGED <<requestVars, activeWakeUpNet, immediateLeft>>

\* Seeded fault: the requests are not cleared.
ForceReadySleepKeepsRequests ==
    /\ state' = "ReadySleep"
    /\ timer' = Timers(EtherTimer, {"network"})
    /\ UNCHANGED <<requestVars, activeWakeUpNet, immediateLeft>>

ForceReadySleep ==
    /\ state' = "ReadySleep"
    /\ timer' = Timers(EtherTimer, {"network"})
    /\ requestEtherCount' = 0 /\ requestPnGroup' = {}
    /\ UNCHANGED <<activeWakeUpNet, immediateLeft>>

ForcePrepareSleepMode == ToPrepareBusSleep(EtherTimer) /\ UNCHANGED immediateLeft

ForceBusSleepMode ==
    /\ state' = "BusSleep"
    /\ timer' = Timers(EtherTimer, {})
    /\ requestEtherCount' = 0 /\ requestPnGroup' = {}
    /\ activeWakeUpNet' = FALSE
    /\ UNCHANGED immediateLeft

SetEtherStateMachineSate(desType) ==
    /\ \/ desType = "RepeatMessage" /\ ForceRepeatMessageState
       \/ desType = "NormalOperation" /\ ForceNormalOperState
       \/ desType = "ReadySleep" /\ ForceReadySleep
       \/ desType = "PrepareBusSleep" /\ ForcePrepareSleepMode
       \/ desType = "BusSleep" /\ ForceBusSleepMode
    /\ UNCHANGED <<initConfig, ctrType, detectVars, passivePnGroup>>

SetMessageCtrlType(type) ==
    /\ ctrType' = type
    /\ UNCHANGED <<initConfig, state, requestVars, activeWakeUpNet, immediateLeft, timer,
                   detectVars, passivePnGroup>>

----------------------------------------------------------------------------
(* Timer callbacks.                                                         *)

\* Seeded fault: the detection stays under way.
NotifyNodesOnly == nodeList' = {} /\ UNCHANGED detectNode

\* The result of a detection goes to whoever asked for it.
NotifyDetectNodeList ==
    /\ detectNode' = FALSE
    /\ nodeList' = IF detectNode THEN {} ELSE nodeList

RepeateMessageTimerCalled ==
    /\ Due("repeateMessage")
    /\ state' = IF state = "RepeatMessage"
                THEN IF CheckActiveRequested THEN "NormalOperation" ELSE "ReadySleep"
                ELSE state
    /\ NotifyDetectNodeList
    /\ timer' = Timers({"repeateMessage"}, {})
    /\ UNCHANGED <<initConfig, requestVars, activeWakeUpNet, immediateLeft, ctrType,
                   passivePnGroup>>

WaitBusSleepTimerCalled ==
    /\ Due("waitBusSleep")
    /\ state' = IF state = "PrepareBusSleep" THEN "BusSleep" ELSE state
    /\ timer' = Timers({"waitBusSleep"}, {})
    /\ UNCHANGED <<initConfig, requestVars, activeWakeUpNet, immediateLeft, ctrType,
                   detectVars, passivePnGroup>>

ImmediateNmTransmissionsTimerCalled ==
    /\ Due("immediate")
    /\ IF /\ CheckActiveRequested \/ SendImmediateInRepeatMessage
          /\ state = "RepeatMessage" /\ immediateLeft > 0
       THEN \E sent \in SendNmMessage :
               /\ immediateLeft' = immediateLeft - 1
               /\ timer' = Timers({"immediate"}, AfterSend(sent) \cup
                              IF immediateLeft > 1 THEN {"immediate"} ELSE {"msgCycle"})
       ELSE timer' = Timers({"immediate"}, {}) /\ UNCHANGED immediateLeft
    /\ UNCHANGED <<initConfig, state, requestVars, activeWakeUpNet, ctrType, detectVars,
                   passivePnGroup>>

MsgCycleOffsetTimerCalled ==
    /\ Due("msgCycleOffset")
    /\ IF state = "RepeatMessage"
       THEN \E sent \in SendNmMessage :
               timer' = Timers({"msgCycleOffset"}, AfterSend(sent) \cup {"msgCycle"})
       ELSE timer' = Timers({"msgCycleOffset"}, {})
    /\ UNCHANGED <<initConfig, state, requestVars, activeWakeUpNet, immediateLeft, ctrType,
                   detectVars, passivePnGroup>>

\* Seeded fault: the periodic message is also sent in ReadySleep.
SendsInReadySleep == Network

\* The states in which the periodic message is sent.
SendingStates == {"NormalOperation", "RepeatMessage"}

MsgCycleTimerCalled ==
    /\ Due("msgCycle")
    /\ IF state \in SendingStates
       THEN \E sent \in SendNmMessage :
               timer' = Timers({}, AfterSend(sent) \cup {"msgCycle"})
       ELSE timer' = Timers({"msgCycle"}, {})
    /\ UNCHANGED <<initConfig, state, requestVars, activeWakeUpNet, immediateLeft, ctrType,
                   detectVars, passivePnGroup>>

\* Nothing was heard and nothing sent for NetworkTimeout: the connector gives
\* the network up in ReadySleep, and in NormalOperation that was only forced.
GivesUp == state = "ReadySleep" \/ (state = "NormalOperation" /\ ~CheckActiveRequested)

NetworkTimerCalled ==
    /\ Due("network")
    /\ IF GivesUp
       THEN ToPrepareBusSleep({"network"})
       ELSE /\ timer' = Timers({"network"}, IF state \in Network THEN {"network"} ELSE {})
            /\ UNCHANGED <<state, requestVars, activeWakeUpNet>>
    /\ UNCHANGED <<initConfig, immediateLeft, ctrType, detectVars, passivePnGroup>>

\* A passive request is released when it was not repeated for PassivePnTimeout.
PassivePnKept(p) ==
    passivePnGroup[p] # Off /\ (passivePnGroup[p] + 1) * MsgCycleTime <= PassivePnTimeout

PassivePnCheckTimerCalled ==
    LET kept == {p \in Pn : PassivePnKept(p)}
    IN /\ Due("passivePnCheck")
       /\ passivePnGroup' = [p \in Pn |-> IF p \in kept THEN passivePnGroup[p] + 1 ELSE Off]
       /\ timer' = Timers({"passivePnCheck"}, IF kept = {} THEN {} ELSE {"passivePnCheck"})
       /\ UNCHANGED <<initConfig, state, requestVars, activeWakeUpNet, immediateLeft, ctrType,
                      detectVars>>

Tick ==
    /\ \A t \in Timer : ~Due(t)
    /\ timer' = [t \in Timer |-> IF timer[t] = Off THEN Off ELSE timer[t] - 1]
    /\ UNCHANGED <<initConfig, state, requestVars, activeWakeUpNet, immediateLeft, ctrType,
                   detectVars, passivePnGroup>>

----------------------------------------------------------------------------
AtMostOnePn == {{}} \cup {{p} : p \in Pn}

\* What the rest of the system does to the state machine.
External ==
    \/ \E e \in BOOLEAN, pns \in AtMostOnePn : RequestNetwork(e, pns)
    \/ \E e \in BOOLEAN, pns \in AtMostOnePn : ReleaseNetwork(e, pns)
    \/ RequestDetectNode
    \/ \E n \in Node, bit \in BOOLEAN, pns \in SUBSET Pn : RecvNmMessage(n, bit, pns)
    \/ NotifyWakeup
    \/ \E s \in ForcedStates : SetEtherStateMachineSate(s)
    \/ \E c \in {"EnableAll", "EnableReceive", "EnableSend", "DisableAll"} :
          SetMessageCtrlType(c)

Callback ==
    \/ RepeateMessageTimerCalled
    \/ WaitBusSleepTimerCalled
    \/ ImmediateNmTransmissionsTimerCalled
    \/ MsgCycleOffsetTimerCalled
    \/ MsgCycleTimerCalled
    \/ NetworkTimerCalled
    \/ PassivePnCheckTimerCalled

Next == External \/ Callback \/ Tick

Spec == Init /\ [][Next]_vars

\* The event loop runs every callback that is due, and time passes.
FairSpec == Spec /\ WF_vars(Callback) /\ WF_vars(Tick)

----------------------------------------------------------------------------
\* Every variable keeps its type; no timer has more left than its duration.
TypeOK ==
    /\ initConfig \in BOOLEAN
    /\ state \in StateType
    /\ requestEtherCount \in 0..MaxRequests /\ requestPnGroup \in SUBSET ConfigPn
    /\ activeWakeUpNet \in BOOLEAN
    /\ immediateLeft \in Nat
    /\ timer \in [Timer -> Int] /\ \A t \in Timer : timer[t] \in Off..Duration(t)
    /\ ctrType \in {"EnableAll", "EnableReceive", "EnableSend", "DisableAll"}
    /\ detectNode \in BOOLEAN /\ nodeList \in SUBSET Node
    /\ passivePnGroup \in [Pn -> Int]

\* Whatever requests, messages and expiries come in between, a connector that
\* is requested is sending: it is never left in ReadySleep or asleep with a
\* request that was counted.  The wakeup bit is set only while it is awake.
RequestedIsAwake ==
    /\ CheckActiveRequested => state \in {"RepeatMessage", "NormalOperation"}
    /\ activeWakeUpNet => state \in Network

\* No state waits for a timer that nobody armed: the machine can always leave
\* the states that a timer ends, and RecvNmMessage and the burst never update
\* a network timer that does not exist.
StateIsTimed ==
    /\ state \in Network => Armed("network")
    /\ state = "RepeatMessage" <=> Armed("repeateMessage")
    /\ state = "PrepareBusSleep" <=> Armed("waitBusSleep")

\* In RepeatMessage another message is always coming: the periodic one, the
\* first one after the offset, or the next one of a burst ("In repeat message
\* state, NM messages must be sent").
RepeatMessageSends ==
    state = "RepeatMessage" =>
        \/ Armed("msgCycle") \/ Armed("msgCycleOffset")
        \/ Armed("immediate") /\ immediateLeft > 0

\* A connector that is requested keeps sending in NormalOperation ("continue
\* sending messages to keep the network alive").
NormalOperationSends ==
    state = "NormalOperation" /\ CheckActiveRequested => Armed("msgCycle")

\* The sending is handed on from the offset or the burst to the periodic timer
\* without a gap, and before the repeat message timer expires.
NeverFallsSilent == RepeatMessageSends /\ NormalOperationSends

\* A detection that is under way ends: the repeat message timer that reports
\* its result is running, and no node heard before it is in its list.
DetectionIsReported ==
    /\ detectNode => state = "RepeatMessage" /\ Armed("repeateMessage")
    /\ nodeList # {} => detectNode

\* A passive request is released in time: its age is checked, and it is not
\* older than the timeout.
PassiveRequestIsTimed ==
    \A p \in Pn : passivePnGroup[p] # Off =>
        Armed("passivePnCheck") /\ passivePnGroup[p] * MsgCycleTime <= PassivePnTimeout

\* The connector gives the network up only when nobody requests it.
NeverSleepsRequested ==
    [][(state \in Network /\ state' \notin Network) => ~CheckActiveRequested]_vars

\* From some time on nothing comes from outside.
Quiet == <>[][~External]_vars

\* Once nothing comes from outside any more, a connector without a request
\* falls asleep, and stays asleep.
FallsAsleep == Quiet /\ <>[]~CheckActiveRequested => <>[](state = "BusSleep")

\* Once nothing comes from outside any more, a detection is reported.
DetectionEnds == Quiet => <>[]~detectNode
=============================================================================
