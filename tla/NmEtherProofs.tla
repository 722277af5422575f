--------------------------- MODULE NmEtherProofs ---------------------------
(***************************************************************************)
(* Theorems about NmEther, for every configuration that the timer checks   *)
(* of the code accept.                                                     *)
(***************************************************************************)
EXTENDS NmEther, TLAPS

----------------------------------------------------------------------------
(* Part 1.  Timers and types.                                               *)

\* Every timer lasts a natural number of ticks.
LEMMA DurationType == \A t \in Timer : Duration(t) \in Nat
  BY EtherConfigAssumption DEF CheckEtherTimerConfig, Timer, EtherTimer, Duration

TimerType == timer \in [Timer -> Int] /\ \A t \in Timer : timer[t] \in Off..Duration(t)

\* Making and resetting timers keeps their type and arms exactly those made and
\* those that were armed and not reset.
LEMMA TimersLemma ==
    ASSUME TimerType, NEW off, NEW on, timer' = Timers(off, on)
    PROVE  /\ TimerType'
           /\ \A t \in Timer :
                /\ t \in on => timer'[t] = Duration(t)
                /\ t \notin on /\ t \in off => timer'[t] = Off
                /\ t \notin on /\ t \notin off => timer'[t] = timer[t]
                /\ Armed(t)' <=> (t \in on \/ (t \notin off /\ Armed(t)))
  BY DurationType DEF TimerType, Timers, Off, Armed

\* Time passes for the armed timers and disarms none.
LEMMA TickLemma ==
    ASSUME TimerType, Tick
    PROVE  TimerType' /\ \A t \in Timer : Armed(t)' <=> Armed(t)
  BY DurationType DEF TimerType, Tick, Off, Armed, Due

\* The part of an entry into RepeatMessage that the proofs need.
LEMMA ToRepeateLemma ==
    ASSUME TimerType, immediateLeft \in Nat, NEW fast, NEW off, NEW on,
           ToRepeateMessage(fast, off, on)
    PROVE  /\ TimerType' /\ immediateLeft' \in Nat /\ state' = "RepeatMessage"
           /\ Armed("network")' /\ Armed("repeateMessage")'
           /\ Armed("waitBusSleep")' <=>
                ("waitBusSleep" \in on \/ ("waitBusSleep" \notin off /\ Armed("waitBusSleep")))
           /\ Armed("passivePnCheck")' <=>
                ("passivePnCheck" \in on \/ ("passivePnCheck" \notin off /\ Armed("passivePnCheck")))
  <1> DEFINE burst == fast /\ ImmediateNmTransmissions > 0
             first == IF burst
                 THEN IF ImmediateNmTransmissions > 1 THEN "immediate" ELSE "msgCycle"
                 ELSE IF MsgCycleOffset > 0 THEN "msgCycleOffset" ELSE "msgCycle"
             made == {first, "repeateMessage", "network"} \cup on
             reset == off \cup {"msgCycle"}
  <1>1. /\ timer' = Timers(reset, made) /\ state' = "RepeatMessage"
        /\ immediateLeft' = IF burst THEN BurstLeft ELSE immediateLeft
    BY DEF ToRepeateMessage
  <1>2. immediateLeft' \in Nat
    BY <1>1, EtherConfigAssumption DEF CheckEtherTimerConfig, BurstLeft
  <1>3. first \in {"immediate", "msgCycle", "msgCycleOffset"}
    OBVIOUS
  <1>4. /\ {"network", "repeateMessage"} \subseteq made
        /\ "waitBusSleep" \in made <=> "waitBusSleep" \in on
        /\ "passivePnCheck" \in made <=> "passivePnCheck" \in on
    BY <1>3
  <1>5. /\ "waitBusSleep" \in reset <=> "waitBusSleep" \in off
        /\ "passivePnCheck" \in reset <=> "passivePnCheck" \in off
    OBVIOUS
  <1> HIDE DEF made, reset, burst, first
  <1> QED BY <1>1, <1>2, <1>4, <1>5, TimersLemma DEF Timer, EtherTimer

----------------------------------------------------------------------------
(* Part 2.  The states, their timers and the requests.                      *)

\* The inductive invariant: whether a request keeps the connector awake depends
\* on the state, and whether the state is left depends on its timers.
EtherInv == TypeOK /\ RequestedIsAwake /\ StateIsTimed

\* A request is only added, and wakes the connector up or finds it awake.
LEMMA RequestInv ==
    ASSUME EtherInv, NEW e \in BOOLEAN, NEW pns \in AtMostOnePn, RequestNetwork(e, pns)
    PROVE  EtherInv'
  <1>1. TimerType /\ immediateLeft \in Nat
    BY DEF EtherInv, TypeOK, TimerType
  <1>2. /\ initConfig' \in BOOLEAN /\ requestEtherCount' \in 0..MaxRequests
        /\ requestPnGroup' \in SUBSET ConfigPn
        /\ ctrType' = ctrType /\ detectNode' = detectNode /\ nodeList' = nodeList
        /\ passivePnGroup' = passivePnGroup
    BY EtherConfigAssumption
    DEF EtherInv, TypeOK, RequestNetwork, CheckCardAndInitSocket, detectVars
  <1>3. CASE UNCHANGED <<state, activeWakeUpNet, immediateLeft, timer>>
             /\ requestPnGroup' = requestPnGroup /\ requestEtherCount' = requestEtherCount
    BY <1>2, <1>3
    DEF EtherInv, TypeOK, RequestedIsAwake, StateIsTimed, CheckActiveRequested, Armed
  <1>4. ASSUME NEW fast, NEW off, ToRepeateMessage(fast, off, {}),
               state = "PrepareBusSleep" => "waitBusSleep" \in off,
               activeWakeUpNet' \in BOOLEAN
        PROVE  EtherInv'
    BY <1>1, <1>2, <1>4, ToRepeateLemma
    DEF EtherInv, TypeOK, TimerType, RequestedIsAwake, StateIsTimed, StateType, Network
  <1>5. CASE state \in Network /\ ReadySleepToNormalOperation /\ UNCHANGED activeWakeUpNet
             /\ state = "ReadySleep"
    <2>1. timer' = Timers({}, {"msgCycle", "network"}) /\ state' = "NormalOperation"
          /\ immediateLeft' = immediateLeft
      BY <1>5 DEF ReadySleepToNormalOperation
    <2>2. TimerType' /\ Armed("network")' /\ (Armed("repeateMessage")' <=> Armed("repeateMessage"))
          /\ (Armed("waitBusSleep")' <=> Armed("waitBusSleep"))
      BY <1>1, <2>1, TimersLemma DEF Timer, EtherTimer
    <2> QED
      BY <1>2, <1>5, <2>1, <2>2
      DEF EtherInv, TypeOK, TimerType, RequestedIsAwake, StateIsTimed, StateType, Network
  <1>6. CASE state \in Network /\ state # "ReadySleep"
             /\ UNCHANGED <<state, activeWakeUpNet, immediateLeft, timer>>
    BY <1>2, <1>6
    DEF EtherInv, TypeOK, RequestedIsAwake, StateIsTimed, Network, Armed
  <1>7. CASE ~e /\ requestPnGroup' = requestPnGroup
    BY <1>3, <1>7 DEF RequestNetwork, EtherInv, TypeOK
  <1>8. CASE ~(~e /\ requestPnGroup' = requestPnGroup)
    <2>1. CASE state = "BusSleep" /\ activeWakeUpNet' = TRUE /\ BusSleepToRepeateMessage({})
      BY <1>4, <2>1 DEF BusSleepToRepeateMessage
    <2>2. CASE state = "PrepareBusSleep" /\ activeWakeUpNet' = TRUE
               /\ PrepareBusSleepToRepeateMessage({})
      BY <1>4, <2>2 DEF PrepareBusSleepToRepeateMessage
    <2>3. CASE state \in Network /\ UNCHANGED activeWakeUpNet
               /\ MultipleNetworkRequestsForceToRepeateMessage
      BY <1>4, <2>3 DEF MultipleNetworkRequestsForceToRepeateMessage, EtherInv, TypeOK, Network
    <2> QED BY <1>5, <1>6, <1>8, <2>1, <2>2, <2>3 DEF RequestNetwork
  <1> QED BY <1>7, <1>8

\* A release that leaves no request takes NormalOperation to ReadySleep.
LEMMA ReleaseInv ==
    ASSUME EtherInv, NEW e \in BOOLEAN, NEW pns \in AtMostOnePn, ReleaseNetwork(e, pns)
    PROVE  EtherInv'
  <1>1. TimerType
    BY DEF EtherInv, TypeOK, TimerType
  <1>2. /\ requestEtherCount' \in 0..MaxRequests /\ requestPnGroup' \in SUBSET ConfigPn
        /\ ActiveRequested(requestEtherCount', requestPnGroup') => CheckActiveRequested
    BY EtherConfigAssumption
    DEF EtherInv, TypeOK, ReleaseNetwork, EtherCountReleased, CheckActiveRequested, ActiveRequested
  <1>3. CASE UNCHANGED <<state, timer>>
             /\ (ActiveRequested(requestEtherCount', requestPnGroup') \/ state # "NormalOperation")
    BY <1>2, <1>3
    DEF EtherInv, TypeOK, RequestedIsAwake, StateIsTimed, ReleaseNetwork, detectVars, Armed,
        CheckActiveRequested
  <1>4. CASE NormalOperationToReadySleep /\ state = "NormalOperation"
             /\ ~ActiveRequested(requestEtherCount', requestPnGroup')
    <2>1. timer' = Timers({"msgCycle"}, {}) /\ state' = "ReadySleep"
      BY <1>4 DEF NormalOperationToReadySleep
    <2>2. /\ TimerType' /\ (Armed("network")' <=> Armed("network"))
          /\ Armed("repeateMessage")' <=> Armed("repeateMessage")
          /\ Armed("waitBusSleep")' <=> Armed("waitBusSleep")
      BY <1>1, <2>1, TimersLemma DEF Timer, EtherTimer
    <2> QED
      BY <1>2, <1>4, <2>1, <2>2
      DEF EtherInv, TypeOK, TimerType, RequestedIsAwake, StateIsTimed, ReleaseNetwork,
          detectVars, StateType, Network, CheckActiveRequested
  <1> QED BY <1>3, <1>4 DEF ReleaseNetwork

\* Detection and messages restart RepeatMessage or the network timer, and leave
\* the requests alone.
LEMMA DetectInv == ASSUME EtherInv, RequestDetectNode PROVE EtherInv'
  <1>1. TimerType /\ immediateLeft \in Nat
    BY DEF EtherInv, TypeOK, TimerType
  <1>2. CASE state \in Network
    <2>1. ToRepeateMessage(Fast, {}, {}) /\ detectNode' = TRUE /\ UNCHANGED requestVars
      BY <1>2 DEF RequestDetectNode, BusSleepToRepeateMessage
    <2> QED
      BY <1>1, <1>2, <2>1, ToRepeateLemma
      DEF EtherInv, TypeOK, TimerType, RequestedIsAwake, StateIsTimed, RequestDetectNode,
          requestVars, StateType, Network, CheckActiveRequested
  <1>3. CASE state \notin Network
    BY <1>3
    DEF EtherInv, TypeOK, RequestedIsAwake, StateIsTimed, RequestDetectNode, requestVars,
        CheckActiveRequested, Armed
  <1> QED BY <1>2, <1>3

LEMMA RecvInv ==
    ASSUME EtherInv, NEW n \in Node, NEW bit \in BOOLEAN, NEW pns \in SUBSET Pn,
           RecvNmMessage(n, bit, pns)
    PROVE  EtherInv'
  <1> DEFINE on == IF PassivePnTimeout > 0 /\ ~Armed("passivePnCheck")
                   THEN {"passivePnCheck"} ELSE {}
  <1>1. TimerType /\ immediateLeft \in Nat /\ on \in {{}, {"passivePnCheck"}}
    BY DEF EtherInv, TypeOK, TimerType
  <1>2. /\ UNCHANGED <<initConfig, requestEtherCount, requestPnGroup, activeWakeUpNet,
                       ctrType, detectNode>>
        /\ nodeList' \in SUBSET Node /\ passivePnGroup' \in [Pn -> Int]
    BY DEF EtherInv, TypeOK, RecvNmMessage, requestVars
  <1>3. ASSUME NEW fast, NEW off, ToRepeateMessage(fast, off, on),
               state = "PrepareBusSleep" => "waitBusSleep" \in off
        PROVE  EtherInv'
    <2>1. /\ TimerType' /\ immediateLeft' \in Nat /\ state' = "RepeatMessage"
          /\ Armed("network")' /\ Armed("repeateMessage")' /\ ~Armed("waitBusSleep")'
      BY <1>1, <1>3, ToRepeateLemma DEF EtherInv, StateIsTimed
    <2> QED
      BY <1>2, <2>1
      DEF EtherInv, TypeOK, TimerType, RequestedIsAwake, StateIsTimed, StateType, Network,
          CheckActiveRequested
  <1>4. ASSUME NEW made \in {on, on \cup {"network"}}, timer' = Timers({}, made),
               UNCHANGED <<state, immediateLeft>>
        PROVE  EtherInv'
    <2>1. /\ TimerType' /\ (Armed("network") => Armed("network")')
          /\ Armed("repeateMessage")' <=> Armed("repeateMessage")
          /\ Armed("waitBusSleep")' <=> Armed("waitBusSleep")
      BY <1>1, <1>4, TimersLemma DEF Timer, EtherTimer
    <2> QED
      BY <1>1, <1>2, <1>4, <2>1
      DEF EtherInv, TypeOK, TimerType, RequestedIsAwake, StateIsTimed, CheckActiveRequested
  <1>5. CASE UNCHANGED <<state, immediateLeft, timer>>
    BY <1>2, <1>5
    DEF EtherInv, TypeOK, RequestedIsAwake, StateIsTimed, CheckActiveRequested, Armed
  <1>6. CASE state = "BusSleep" /\ BusSleepToRepeateMessage(on)
    BY <1>3, <1>6 DEF BusSleepToRepeateMessage
  <1>7. CASE state = "PrepareBusSleep" /\ PrepareBusSleepToRepeateMessage(on)
    BY <1>3, <1>7 DEF PrepareBusSleepToRepeateMessage
  <1>8. CASE state \in Network /\ ReptMsgReqToRepeateMessage(on)
    BY <1>3, <1>8 DEF ReptMsgReqToRepeateMessage, Network
  <1> QED BY <1>4, <1>5, <1>6, <1>7, <1>8 DEF RecvNmMessage, Network

LEMMA WakeupInv == ASSUME EtherInv, NotifyWakeup PROVE EtherInv'
  <1>1. TimerType /\ immediateLeft \in Nat
    BY DEF EtherInv, TypeOK, TimerType
  <1>2. ToRepeateMessage(Fast, EtherTimer \ {"network"}, {})
    BY DEF NotifyWakeup, WakeupCallToRepeateMessage
  <1>3. /\ TimerType' /\ immediateLeft' \in Nat /\ state' = "RepeatMessage"
        /\ Armed("network")' /\ Armed("repeateMessage")' /\ ~Armed("waitBusSleep")'
    BY <1>1, <1>2, ToRepeateLemma DEF EtherTimer
  <1> QED
    BY <1>3
    DEF EtherInv, TypeOK, TimerType, RequestedIsAwake, StateIsTimed, NotifyWakeup,
        CheckCardAndInitSocket, requestVars, detectVars, StateType, Network, CheckActiveRequested

\* Giving the network up clears what was requested.
LEMMA PrepareInv ==
    ASSUME EtherInv, NEW off, ToPrepareBusSleep(off), "repeateMessage" \in off \/ ~Armed("repeateMessage"),
           "waitBusSleep" \in off \/ ~Armed("waitBusSleep"),
           UNCHANGED <<initConfig, immediateLeft, ctrType, detectVars, passivePnGroup>>
    PROVE  EtherInv'
  <1> DEFINE on == IF WaitBusSleepTime = 0 THEN {} ELSE {"waitBusSleep"}
  <1>1. TimerType /\ timer' = Timers(off, on)
    BY DEF EtherInv, TypeOK, TimerType, ToPrepareBusSleep
  <1>2. on = IF WaitBusSleepTime = 0 THEN {} ELSE {"waitBusSleep"}
    OBVIOUS
  <1> HIDE DEF on
  <1>3. /\ TimerType' /\ ~Armed("repeateMessage")'
        /\ Armed("waitBusSleep")' <=> WaitBusSleepTime # 0
    BY <1>1, <1>2, TimersLemma DEF Timer, EtherTimer
  <1>4. /\ state' = IF WaitBusSleepTime = 0 THEN "BusSleep" ELSE "PrepareBusSleep"
        /\ requestEtherCount' = 0 /\ requestPnGroup' = {} /\ activeWakeUpNet' = FALSE
    BY DEF ToPrepareBusSleep
  <1>5. ~CheckActiveRequested' /\ requestEtherCount' \in 0..MaxRequests
    BY <1>4, EtherConfigAssumption DEF CheckActiveRequested, ActiveRequested
  <1> QED
    BY <1>3, <1>4, <1>5
    DEF EtherInv, TypeOK, TimerType, RequestedIsAwake, StateIsTimed, detectVars, StateType, Network

LEMMA ForceInv == ASSUME EtherInv, NEW s \in ForcedStates, SetEtherStateMachineSate(s) PROVE EtherInv'
  <1>1. TimerType /\ immediateLeft \in Nat
    BY DEF EtherInv, TypeOK, TimerType
  <1>2. UNCHANGED <<initConfig, ctrType, detectNode, nodeList, passivePnGroup>>
    BY DEF SetEtherStateMachineSate, detectVars
  <1>3. CASE ForceRepeatMessageState
    <2>1. ToRepeateMessage(Fast, EtherTimer, {})
      BY <1>3 DEF ForceRepeatMessageState
    <2>2. /\ TimerType' /\ immediateLeft' \in Nat /\ state' = "RepeatMessage"
          /\ Armed("network")' /\ Armed("repeateMessage")' /\ ~Armed("waitBusSleep")'
      BY <1>1, <2>1, ToRepeateLemma DEF EtherTimer
    <2> QED
      BY <1>2, <1>3, <2>2
      DEF EtherInv, TypeOK, TimerType, RequestedIsAwake, StateIsTimed, ForceRepeatMessageState,
          requestVars, StateType, Network, CheckActiveRequested
  <1>4. CASE ForceNormalOperState
    <2> DEFINE on == {"network"} \cup IF CheckActiveRequested THEN {"msgCycle"} ELSE {}
    <2>1. timer' = Timers(EtherTimer, on) /\ on \in {{"network"}, {"network", "msgCycle"}}
      BY <1>4 DEF ForceNormalOperState
    <2> HIDE DEF on
    <2>2. /\ TimerType' /\ Armed("network")' /\ ~Armed("repeateMessage")'
          /\ ~Armed("waitBusSleep")'
      BY <1>1, <2>1, TimersLemma DEF Timer, EtherTimer
    <2> QED
      BY <1>2, <1>4, <2>2
      DEF EtherInv, TypeOK, TimerType, RequestedIsAwake, StateIsTimed, ForceNormalOperState,
          requestVars, StateType, Network, CheckActiveRequested
  <1>5. CASE ForceReadySleep
    <2>1. /\ TimerType' /\ Armed("network")' /\ ~Armed("repeateMessage")'
          /\ ~Armed("waitBusSleep")'
      BY <1>1, <1>5, TimersLemma DEF Timer, EtherTimer, ForceReadySleep
    <2>2. ~CheckActiveRequested' /\ requestEtherCount' \in 0..MaxRequests
      BY <1>5, EtherConfigAssumption DEF CheckActiveRequested, ActiveRequested, ForceReadySleep
    <2> QED
      BY <1>2, <1>5, <2>1, <2>2
      DEF EtherInv, TypeOK, TimerType, RequestedIsAwake, StateIsTimed, ForceReadySleep,
          StateType, Network
  <1>6. CASE ForcePrepareSleepMode
    BY <1>2, <1>6, PrepareInv DEF ForcePrepareSleepMode, EtherTimer, detectVars
  <1>7. CASE ForceBusSleepMode
    <2>1. TimerType' /\ ~Armed("repeateMessage")' /\ ~Armed("waitBusSleep")'
      BY <1>1, <1>7, TimersLemma DEF Timer, EtherTimer, ForceBusSleepMode
    <2>2. ~CheckActiveRequested' /\ requestEtherCount' \in 0..MaxRequests
      BY <1>7, EtherConfigAssumption DEF CheckActiveRequested, ActiveRequested, ForceBusSleepMode
    <2> QED
      BY <1>2, <1>7, <2>1, <2>2
      DEF EtherInv, TypeOK, TimerType, RequestedIsAwake, StateIsTimed, ForceBusSleepMode,
          StateType, Network
  <1> QED BY <1>3, <1>4, <1>5, <1>6, <1>7 DEF SetEtherStateMachineSate

\* The callbacks of the timers that drive no state only touch timers.
LEMMA SenderInv ==
    ASSUME EtherInv, \/ ImmediateNmTransmissionsTimerCalled \/ MsgCycleOffsetTimerCalled
                     \/ MsgCycleTimerCalled \/ PassivePnCheckTimerCalled
    PROVE  EtherInv'
  <1> DEFINE quiet == {"immediate", "msgCycleOffset", "msgCycle", "passivePnCheck"}
  <1>1. TimerType
    BY DEF EtherInv, TypeOK, TimerType
  <1>2. ASSUME NEW off \in SUBSET quiet, NEW on \in SUBSET (quiet \cup {"network"}),
               timer' = Timers(off, on)
        PROVE  /\ TimerType' /\ (Armed("network") => Armed("network")')
               /\ Armed("repeateMessage")' <=> Armed("repeateMessage")
               /\ Armed("waitBusSleep")' <=> Armed("waitBusSleep")
    <2>1. /\ {"network", "repeateMessage", "waitBusSleep"} \cap off = {}
          /\ {"repeateMessage", "waitBusSleep"} \cap on = {}
      OBVIOUS
    <2> HIDE DEF quiet
    <2> QED BY <1>1, <1>2, <2>1, TimersLemma DEF Timer, EtherTimer
  <1>3. ASSUME TimerType', Armed("network") => Armed("network")',
               Armed("repeateMessage")' <=> Armed("repeateMessage"),
               Armed("waitBusSleep")' <=> Armed("waitBusSleep"),
               UNCHANGED <<initConfig, state, requestVars, activeWakeUpNet, ctrType, detectVars>>,
               immediateLeft' \in Nat, passivePnGroup' \in [Pn -> Int]
        PROVE  EtherInv'
    BY <1>3
    DEF EtherInv, TypeOK, TimerType, RequestedIsAwake, StateIsTimed, requestVars, detectVars,
        CheckActiveRequested
  <1>4. CASE ImmediateNmTransmissionsTimerCalled
    <2>1. immediateLeft' \in Nat
      <3>1. immediateLeft \in Nat
        BY DEF EtherInv, TypeOK
      <3>2. \/ immediateLeft' = immediateLeft
            \/ immediateLeft > 0 /\ immediateLeft' = immediateLeft - 1
        BY <1>4 DEF ImmediateNmTransmissionsTimerCalled
      <3> QED BY <3>1, <3>2
    <2>2. \E off \in SUBSET quiet, on \in SUBSET (quiet \cup {"network"}) : timer' = Timers(off, on)
      <3>1. CASE timer' = Timers({"immediate"}, {})
        BY <3>1
      <3>2. ASSUME NEW sent \in BOOLEAN,
                   timer' = Timers({"immediate"}, AfterSend(sent) \cup
                              IF immediateLeft > 1 THEN {"immediate"} ELSE {"msgCycle"})
            PROVE  \E off \in SUBSET quiet, on \in SUBSET (quiet \cup {"network"}) :
                      timer' = Timers(off, on)
        <4> DEFINE made == AfterSend(sent) \cup
                              IF immediateLeft > 1 THEN {"immediate"} ELSE {"msgCycle"}
        <4>1. made \in SUBSET (quiet \cup {"network"}) /\ {"immediate"} \in SUBSET quiet
          BY DEF AfterSend
        <4>2. timer' = Timers({"immediate"}, made)
          BY <3>2
        <4> HIDE DEF made
        <4> QED BY <4>1, <4>2
      <3> QED BY <1>4, <3>1, <3>2 DEF ImmediateNmTransmissionsTimerCalled, SendNmMessage
    <2> HIDE DEF quiet
    <2> QED
      BY <1>2, <1>3, <1>4, <2>1, <2>2
      DEF ImmediateNmTransmissionsTimerCalled, EtherInv, TypeOK
  <1>5. CASE MsgCycleOffsetTimerCalled \/ MsgCycleTimerCalled
    <2>1. \E off \in SUBSET quiet, on \in SUBSET (quiet \cup {"network"}) : timer' = Timers(off, on)
      <3>1. ASSUME NEW sent \in BOOLEAN, NEW off \in SUBSET quiet,
                   timer' = Timers(off, AfterSend(sent) \cup {"msgCycle"})
            PROVE  \E on \in SUBSET (quiet \cup {"network"}) : timer' = Timers(off, on)
        <4> DEFINE made == AfterSend(sent) \cup {"msgCycle"}
        <4>1. made \in SUBSET (quiet \cup {"network"}) /\ timer' = Timers(off, made)
          BY <3>1 DEF AfterSend
        <4> HIDE DEF made
        <4> QED BY <4>1
      <3>2. \A t \in quiet : {t} \in SUBSET quiet
        OBVIOUS
      <3> QED
        BY <1>5, <3>1, <3>2 DEF MsgCycleOffsetTimerCalled, MsgCycleTimerCalled, SendNmMessage
    <2> HIDE DEF quiet
    <2> QED
      BY <1>2, <1>3, <1>5, <2>1
      DEF MsgCycleOffsetTimerCalled, MsgCycleTimerCalled, EtherInv, TypeOK
  <1>6. CASE PassivePnCheckTimerCalled
    <2> DEFINE kept == {p \in Pn : PassivePnKept(p)}
               made == IF kept = {} THEN {} ELSE {"passivePnCheck"}
    <2>1. /\ timer' = Timers({"passivePnCheck"}, made)
          /\ made \in SUBSET (quiet \cup {"network"}) /\ {"passivePnCheck"} \in SUBSET quiet
      BY <1>6 DEF PassivePnCheckTimerCalled
    <2>2. passivePnGroup' \in [Pn -> Int]
      BY <1>6 DEF PassivePnCheckTimerCalled, EtherInv, TypeOK, Off
    <2> HIDE DEF made, quiet
    <2> QED
      BY <1>2, <1>3, <1>6, <2>1, <2>2 DEF PassivePnCheckTimerCalled, EtherInv, TypeOK
  <1> QED BY <1>4, <1>5, <1>6

LEMMA CallbackInv == ASSUME EtherInv, Callback PROVE EtherInv'
  <1>1. TimerType
    BY DEF EtherInv, TypeOK, TimerType
  <1>2. CASE RepeateMessageTimerCalled
    <2>1. /\ TimerType' /\ (Armed("network")' <=> Armed("network"))
          /\ ~Armed("repeateMessage")' /\ (Armed("waitBusSleep")' <=> Armed("waitBusSleep"))
      BY <1>1, <1>2, TimersLemma DEF RepeateMessageTimerCalled, Timer, EtherTimer
    <2>2. state = "RepeatMessage"
      BY <1>2 DEF RepeateMessageTimerCalled, EtherInv, StateIsTimed, Due, Armed, Off
    <2> QED
      BY <1>2, <2>1, <2>2
      DEF RepeateMessageTimerCalled, NotifyDetectNodeList, EtherInv, TypeOK, TimerType,
          RequestedIsAwake, StateIsTimed, requestVars, StateType, Network, CheckActiveRequested
  <1>3. CASE WaitBusSleepTimerCalled
    <2>1. /\ TimerType' /\ (Armed("network")' <=> Armed("network"))
          /\ ~Armed("waitBusSleep")' /\ (Armed("repeateMessage")' <=> Armed("repeateMessage"))
      BY <1>1, <1>3, TimersLemma DEF WaitBusSleepTimerCalled, Timer, EtherTimer
    <2>2. state = "PrepareBusSleep"
      BY <1>3 DEF WaitBusSleepTimerCalled, EtherInv, StateIsTimed, Due, Armed, Off
    <2> QED
      BY <1>3, <2>1, <2>2
      DEF WaitBusSleepTimerCalled, EtherInv, TypeOK, TimerType, RequestedIsAwake, StateIsTimed,
          requestVars, detectVars, StateType, Network, CheckActiveRequested
  <1>4. CASE NetworkTimerCalled
    <2>1. CASE GivesUp
      BY <1>4, <2>1, PrepareInv DEF NetworkTimerCalled, GivesUp, EtherInv, StateIsTimed
    <2>2. CASE ~GivesUp
      <3> DEFINE made == IF state \in Network THEN {"network"} ELSE {}
      <3>1. timer' = Timers({"network"}, made) /\ UNCHANGED <<state, requestVars, activeWakeUpNet>>
        BY <1>4, <2>2 DEF NetworkTimerCalled
      <3>2. made = IF state \in Network THEN {"network"} ELSE {}
        OBVIOUS
      <3> HIDE DEF made
      <3>3. /\ TimerType' /\ (Armed("network")' <=> state \in Network)
            /\ Armed("repeateMessage")' <=> Armed("repeateMessage")
            /\ Armed("waitBusSleep")' <=> Armed("waitBusSleep")
        BY <1>1, <3>1, <3>2, TimersLemma DEF Timer, EtherTimer
      <3> QED
        BY <1>4, <3>1, <3>3
        DEF NetworkTimerCalled, EtherInv, TypeOK, TimerType, RequestedIsAwake, StateIsTimed,
            requestVars, detectVars, CheckActiveRequested
    <2> QED BY <2>1, <2>2
  <1> QED BY <1>2, <1>3, <1>4, SenderInv DEF Callback

LEMMA EtherInvStep == EtherInv /\ [Next]_vars => EtherInv'
  <1> SUFFICES ASSUME EtherInv, [Next]_vars PROVE EtherInv'
    OBVIOUS
  <1>1. CASE Tick
    <2>1. TimerType' /\ \A t \in Timer : Armed(t)' <=> Armed(t)
      BY <1>1, TickLemma DEF EtherInv, TypeOK, TimerType
    <2> QED
      BY <1>1, <2>1
      DEF Tick, EtherInv, TypeOK, TimerType, RequestedIsAwake, StateIsTimed, requestVars,
          detectVars, CheckActiveRequested, Timer, EtherTimer
  <1>2. CASE \E c \in {"EnableAll", "EnableReceive", "EnableSend", "DisableAll"} :
                SetMessageCtrlType(c)
    BY <1>2
    DEF SetMessageCtrlType, EtherInv, TypeOK, RequestedIsAwake, StateIsTimed, requestVars,
        detectVars, CheckActiveRequested, Armed
  <1>3. CASE UNCHANGED vars
    BY <1>3
    DEF vars, EtherInv, TypeOK, RequestedIsAwake, StateIsTimed, requestVars, detectVars,
        CheckActiveRequested, Armed
  <1> QED
    BY <1>1, <1>2, <1>3, RequestInv, ReleaseInv, DetectInv, RecvInv, WakeupInv, ForceInv,
       CallbackInv
    DEF Next, External

LEMMA EtherInvInit == Init => EtherInv
  <1> SUFFICES ASSUME Init PROVE EtherInv
    OBVIOUS
  <1>1. timer \in [Timer -> Int] /\ \A t \in Timer : timer[t] \in Off..Duration(t)
    BY DurationType DEF Init, Off
  <1>2. \A t \in Timer : ~Armed(t)
    BY DEF Init, Armed
  <1>3. passivePnGroup \in [Pn -> Int] /\ requestEtherCount \in 0..MaxRequests
    BY EtherConfigAssumption DEF Init, Off
  <1>4. ~CheckActiveRequested
    BY DEF Init, CheckActiveRequested, ActiveRequested
  <1> QED
    BY <1>1, <1>2, <1>3, <1>4
    DEF Init, EtherInv, TypeOK, RequestedIsAwake, StateIsTimed, StateType, Network, Timer,
        EtherTimer

\* The inductive invariant holds throughout.
THEOREM EtherInvariant == Spec => []EtherInv
  BY EtherInvInit, EtherInvStep, PTL DEF Spec

\* The state machine keeps its types: the counters never underflow and no timer
\* has more left than its duration.
THEOREM EtherTypes == Spec => []TypeOK
  <1>1. EtherInv => TypeOK
    BY DEF EtherInv
  <1> QED BY <1>1, EtherInvariant, PTL

\* A connector with a counted request is in RepeatMessage or NormalOperation.
THEOREM RequestedAwake == Spec => []RequestedIsAwake
  <1>1. EtherInv => RequestedIsAwake
    BY DEF EtherInv
  <1> QED BY <1>1, EtherInvariant, PTL

\* The timer that a state waits for is running.
THEOREM StatesTimed == Spec => []StateIsTimed
  <1>1. EtherInv => StateIsTimed
    BY DEF EtherInv
  <1> QED BY <1>1, EtherInvariant, PTL

----------------------------------------------------------------------------
(* Part 3.  The connector never falls silent, where a burst does not depend *)
(* on the requests and NormalOperation is not forced.                       *)

BurstIsUnconditional == SendImmediateInRepeatMessage \/ ImmediateNmTransmissions <= 1
NormalIsNotForced == "NormalOperation" \notin ForcedStates

\* In RepeatMessage the periodic messages have started, or start before the
\* repeat message timer expires: after the offset, or after a burst whose
\* remaining cycles fit in the time that is left.
PendingInTime ==
    state = "RepeatMessage" =>
        \/ Armed("msgCycle")
        \/ Armed("msgCycleOffset") /\ timer["msgCycleOffset"] < timer["repeateMessage"]
        \/ /\ Armed("immediate") /\ immediateLeft > 0 /\ SendImmediateInRepeatMessage
           /\ timer["immediate"] + (immediateLeft - 1) * ImmediateNmCycleTime
                < timer["repeateMessage"]

NormalIsRequested ==
    state = "NormalOperation" => CheckActiveRequested /\ Armed("msgCycle")

SendInv == PendingInTime /\ NormalIsRequested

\* A burst of n messages, c ticks apart, fits in what the configuration check
\* leaves it, and each message leaves room for the rest.
LEMMA BurstArithmetic ==
    \A n, c, r \in Nat :
        /\ n > 1 /\ c > 0 /\ n * c <= r => c + (n - 2) * c < r
        /\ c + (n - 2) * c = (n - 1) * c
        /\ n > 0 => (n - 1) * c >= 0
  OBVIOUS

\* Every way into RepeatMessage starts the sending.
LEMMA EntrySends ==
    ASSUME TimerType, BurstIsUnconditional, NEW fast, NEW off,
           NEW on \in SUBSET {"passivePnCheck"}, ToRepeateMessage(fast, off, on)
    PROVE  SendInv'
  <1> DEFINE burst == fast /\ ImmediateNmTransmissions > 0
             first == IF burst
                 THEN IF ImmediateNmTransmissions > 1 THEN "immediate" ELSE "msgCycle"
                 ELSE IF MsgCycleOffset > 0 THEN "msgCycleOffset" ELSE "msgCycle"
             made == {first, "repeateMessage", "network"} \cup on
             reset == off \cup {"msgCycle"}
  <1>1. /\ timer' = Timers(reset, made) /\ state' = "RepeatMessage"
        /\ immediateLeft' = IF burst THEN BurstLeft ELSE immediateLeft
    BY DEF ToRepeateMessage
  <1>2. /\ {first, "repeateMessage"} \subseteq made
        /\ first \in {"immediate", "msgCycle", "msgCycleOffset"}
        /\ first = "immediate" => burst /\ ImmediateNmTransmissions > 1
    OBVIOUS
  <1> HIDE DEF made, reset, first
  <1>3. /\ Armed(first)' /\ timer'[first] = Duration(first)
        /\ timer'["repeateMessage"] = Duration("repeateMessage")
    BY <1>1, <1>2, TimersLemma DEF Timer, EtherTimer
  <1>4. /\ Duration("repeateMessage") = RepeatMessageTime
        /\ Duration("msgCycleOffset") = MsgCycleOffset
        /\ Duration("immediate") = ImmediateNmCycleTime
    BY DEF Duration
  <1>5. CASE first = "msgCycle"
    BY <1>1, <1>3, <1>5 DEF SendInv, PendingInTime, NormalIsRequested
  <1>6. CASE first = "msgCycleOffset"
    BY <1>1, <1>3, <1>4, <1>6, EtherConfigAssumption
    DEF SendInv, PendingInTime, NormalIsRequested, CheckEtherTimerConfig
  <1>7. CASE first = "immediate"
    <2>1. /\ SendImmediateInRepeatMessage /\ immediateLeft' = ImmediateNmTransmissions - 1
          /\ ImmediateNmTransmissions \in Nat /\ ImmediateNmCycleTime \in Nat
          /\ ImmediateNmTransmissions > 1 /\ ImmediateNmCycleTime > 0 /\ RepeatMessageTime \in Nat
          /\ ImmediateNmTransmissions * ImmediateNmCycleTime <= RepeatMessageTime
      BY <1>1, <1>2, <1>7, EtherConfigAssumption
      DEF BurstIsUnconditional, BurstLeft, CheckEtherTimerConfig
    <2>2. ImmediateNmCycleTime + (ImmediateNmTransmissions - 2) * ImmediateNmCycleTime
             < RepeatMessageTime
      BY <2>1, BurstArithmetic
    <2>3. immediateLeft' > 0 /\ immediateLeft' - 1 = ImmediateNmTransmissions - 2
      BY <2>1
    <2> QED
      BY <1>1, <1>3, <1>4, <1>7, <2>1, <2>2, <2>3
      DEF SendInv, PendingInTime, NormalIsRequested
  <1> QED BY <1>2, <1>5, <1>6, <1>7

\* A step that leaves the sending timers and the state alone keeps the invariant.
LEMMA SendFrame ==
    ASSUME SendInv, UNCHANGED <<state, immediateLeft>>,
           state = "NormalOperation" => CheckActiveRequested',
           \A t \in {"msgCycle", "msgCycleOffset", "immediate", "repeateMessage"} :
              timer'[t] = timer[t]
    PROVE  SendInv'
  BY DEF SendInv, PendingInTime, NormalIsRequested, Armed

LEMMA RequestSends ==
    ASSUME EtherInv, SendInv, BurstIsUnconditional, NEW e \in BOOLEAN,
           NEW pns \in AtMostOnePn, RequestNetwork(e, pns)
    PROVE  SendInv'
  <1>1. TimerType
    BY DEF EtherInv, TypeOK, TimerType
  <1>2. requestEtherCount \in Nat /\ CheckActiveRequested => CheckActiveRequested'
    BY DEF RequestNetwork, CheckActiveRequested, ActiveRequested
  <1>3. requestEtherCount \in Nat
    BY EtherConfigAssumption DEF EtherInv, TypeOK
  <1>4. CASE UNCHANGED <<state, immediateLeft, timer>>
    BY <1>2, <1>3, <1>4, SendFrame DEF SendInv, NormalIsRequested
  <1>5. CASE ReadySleepToNormalOperation /\ (e \/ requestPnGroup' # requestPnGroup)
    <2>1. CheckActiveRequested'
      BY <1>3, <1>5 DEF RequestNetwork, CheckActiveRequested, ActiveRequested
    <2>2. Armed("msgCycle")' /\ state' = "NormalOperation"
      BY <1>1, <1>5, TimersLemma DEF ReadySleepToNormalOperation, Timer, EtherTimer
    <2> QED BY <2>1, <2>2 DEF SendInv, PendingInTime, NormalIsRequested
  <1>6. CASE \/ BusSleepToRepeateMessage({}) \/ PrepareBusSleepToRepeateMessage({})
             \/ MultipleNetworkRequestsForceToRepeateMessage
    BY <1>1, <1>6, EntrySends
    DEF BusSleepToRepeateMessage, PrepareBusSleepToRepeateMessage,
        MultipleNetworkRequestsForceToRepeateMessage
  <1> QED BY <1>4, <1>5, <1>6 DEF RequestNetwork

LEMMA ReleaseSends ==
    ASSUME EtherInv, SendInv, NEW e \in BOOLEAN, NEW pns \in AtMostOnePn, ReleaseNetwork(e, pns)
    PROVE  SendInv'
  <1>1. CASE NormalOperationToReadySleep
    BY <1>1 DEF NormalOperationToReadySleep, SendInv, PendingInTime, NormalIsRequested
  <1>2. CASE UNCHANGED <<state, timer>> /\ (state = "NormalOperation" => CheckActiveRequested')
    BY <1>2, SendFrame DEF ReleaseNetwork
  <1> QED BY <1>1, <1>2 DEF ReleaseNetwork, CheckActiveRequested

LEMMA ExternalSends ==
    ASSUME EtherInv, SendInv, BurstIsUnconditional, NormalIsNotForced, External
    PROVE  SendInv'
  <1>1. TimerType
    BY DEF EtherInv, TypeOK, TimerType
  <1>2. CASE RequestDetectNode
    <2>1. CASE UNCHANGED <<state, requestVars, immediateLeft, timer>>
      BY <2>1, SendFrame DEF requestVars, CheckActiveRequested, SendInv, NormalIsRequested
    <2>2. CASE BusSleepToRepeateMessage({})
      BY <1>1, <2>2, EntrySends DEF BusSleepToRepeateMessage
    <2> QED BY <1>2, <2>1, <2>2 DEF RequestDetectNode, requestVars
  <1>3. ASSUME NEW n \in Node, NEW bit \in BOOLEAN, NEW pns \in SUBSET Pn,
               RecvNmMessage(n, bit, pns)
        PROVE  SendInv'
    <2> DEFINE on == IF PassivePnTimeout > 0 /\ ~Armed("passivePnCheck")
                     THEN {"passivePnCheck"} ELSE {}
    <2>1. on \in SUBSET {"passivePnCheck"} /\ (CheckActiveRequested <=> CheckActiveRequested')
      BY <1>3 DEF RecvNmMessage, requestVars, CheckActiveRequested
    <2>2. CASE \/ BusSleepToRepeateMessage(on) \/ PrepareBusSleepToRepeateMessage(on)
               \/ ReptMsgReqToRepeateMessage(on)
      BY <1>1, <2>1, <2>2, EntrySends
      DEF BusSleepToRepeateMessage, PrepareBusSleepToRepeateMessage, ReptMsgReqToRepeateMessage
    <2>3. ASSUME NEW made \in {on, on \cup {"network"}}, timer' = Timers({}, made),
                 UNCHANGED <<state, immediateLeft>>
          PROVE  SendInv'
      <3>1. \A t \in {"msgCycle", "msgCycleOffset", "immediate", "repeateMessage"} :
               t \in Timer /\ t \notin made
        BY <2>1, <2>3 DEF Timer, EtherTimer
      <3>2. \A t \in {"msgCycle", "msgCycleOffset", "immediate", "repeateMessage"} :
               timer'[t] = timer[t]
        BY <1>1, <2>3, <3>1, TimersLemma
      <3> QED BY <2>1, <2>3, <3>2, SendFrame DEF SendInv, NormalIsRequested
    <2>4. CASE UNCHANGED <<state, immediateLeft, timer>>
      BY <2>1, <2>4, SendFrame DEF SendInv, NormalIsRequested
    <2> QED BY <1>3, <2>2, <2>3, <2>4 DEF RecvNmMessage
  <1>4. CASE NotifyWakeup
    BY <1>1, <1>4, EntrySends DEF NotifyWakeup, WakeupCallToRepeateMessage
  <1>5. ASSUME NEW s \in ForcedStates, SetEtherStateMachineSate(s) PROVE SendInv'
    <2>1. CASE ForceRepeatMessageState
      BY <1>1, <2>1, EntrySends DEF ForceRepeatMessageState
    <2>2. CASE state' \notin {"RepeatMessage", "NormalOperation"}
      BY <2>2 DEF SendInv, PendingInTime, NormalIsRequested
    <2> QED
      BY <1>5, <2>1, <2>2
      DEF SetEtherStateMachineSate, ForceReadySleep, ForcePrepareSleepMode, ForceBusSleepMode,
          ToPrepareBusSleep, NormalIsNotForced
  <1>6. ASSUME NEW c, SetMessageCtrlType(c) PROVE SendInv'
    BY <1>6, SendFrame
    DEF SetMessageCtrlType, requestVars, CheckActiveRequested, SendInv, NormalIsRequested
  <1> QED BY <1>2, <1>3, <1>4, <1>5, <1>6, RequestSends, ReleaseSends DEF External

\* The callbacks hand the sending on from one timer to the next.
LEMMA CallbackSends == ASSUME EtherInv, SendInv, Callback PROVE SendInv'
  <1> DEFINE sending == {"msgCycle", "msgCycleOffset", "immediate", "repeateMessage"}
  <1>1. TimerType /\ sending \subseteq Timer
    BY DEF EtherInv, TypeOK, TimerType, Timer, EtherTimer
  <1>2. CASE RepeateMessageTimerCalled
    <2>1. state = "RepeatMessage" /\ timer["repeateMessage"] = 0
      BY <1>2 DEF RepeateMessageTimerCalled, EtherInv, StateIsTimed, Due, Armed, Off
    <2>2. Armed("msgCycle")
      <3>1. /\ timer["msgCycleOffset"] \in Int /\ timer["immediate"] \in Int
            /\ Armed("msgCycleOffset") => timer["msgCycleOffset"] >= 0
            /\ Armed("immediate") => timer["immediate"] >= 0
        BY <1>1, DurationType DEF TimerType, Armed, Off
      <3>2. ImmediateNmCycleTime \in Nat /\ immediateLeft \in Nat
        BY EtherConfigAssumption DEF CheckEtherTimerConfig, EtherInv, TypeOK
      <3>3. immediateLeft > 0 => (immediateLeft - 1) * ImmediateNmCycleTime >= 0
        BY <3>2, BurstArithmetic
      <3>4. (immediateLeft - 1) * ImmediateNmCycleTime \in Int
        BY <3>2
      <3> QED BY <2>1, <3>1, <3>3, <3>4 DEF SendInv, PendingInTime
    <2>3. Armed("msgCycle")'
      BY <1>1, <1>2, <2>2, TimersLemma DEF RepeateMessageTimerCalled
    <2> QED
      BY <1>2, <2>1, <2>3
      DEF RepeateMessageTimerCalled, requestVars, SendInv, PendingInTime, NormalIsRequested,
          CheckActiveRequested
  <1>3. CASE ImmediateNmTransmissionsTimerCalled
    <2>1. UNCHANGED state /\ (CheckActiveRequested' <=> CheckActiveRequested)
      BY <1>3 DEF ImmediateNmTransmissionsTimerCalled, requestVars, CheckActiveRequested
    <2>2. ASSUME timer' = Timers({"immediate"}, {}), UNCHANGED immediateLeft,
                 ~(/\ CheckActiveRequested \/ SendImmediateInRepeatMessage
                   /\ state = "RepeatMessage" /\ immediateLeft > 0)
          PROVE  SendInv'
      <3>1. /\ timer'["msgCycle"] = timer["msgCycle"]
            /\ timer'["msgCycleOffset"] = timer["msgCycleOffset"]
            /\ timer'["repeateMessage"] = timer["repeateMessage"]
        BY <1>1, <2>2, TimersLemma
      <3> QED
        BY <2>1, <2>2, <3>1 DEF SendInv, PendingInTime, NormalIsRequested, Armed
    <2>3. ASSUME NEW sent \in BOOLEAN, immediateLeft > 0, state = "RepeatMessage",
                 immediateLeft' = immediateLeft - 1,
                 timer' = Timers({"immediate"}, AfterSend(sent) \cup
                            IF immediateLeft > 1 THEN {"immediate"} ELSE {"msgCycle"})
          PROVE  SendInv'
      <3> DEFINE made == AfterSend(sent) \cup
                            IF immediateLeft > 1 THEN {"immediate"} ELSE {"msgCycle"}
      <3>1. /\ timer' = Timers({"immediate"}, made)
            /\ "msgCycleOffset" \notin made /\ "repeateMessage" \notin made
            /\ immediateLeft > 1 => "immediate" \in made /\ "msgCycle" \notin made
            /\ ~(immediateLeft > 1) => "msgCycle" \in made
        BY <2>3 DEF AfterSend
      <3> HIDE DEF made
      <3>2. /\ timer'["msgCycleOffset"] = timer["msgCycleOffset"]
            /\ timer'["repeateMessage"] = timer["repeateMessage"]
            /\ immediateLeft > 1 => /\ timer'["immediate"] = ImmediateNmCycleTime
                                    /\ timer'["msgCycle"] = timer["msgCycle"]
                                    /\ Armed("immediate")'
            /\ ~(immediateLeft > 1) => Armed("msgCycle")'
        BY <1>1, <3>1, TimersLemma DEF Duration
      <3>3. CASE ~(immediateLeft > 1)
        BY <2>1, <2>3, <3>2, <3>3 DEF SendInv, PendingInTime, NormalIsRequested
      <3>4. CASE immediateLeft > 1
        <4>1. /\ ImmediateNmCycleTime \in Nat /\ immediateLeft \in Nat
              /\ timer["immediate"] = 0
          BY <1>3, EtherConfigAssumption
          DEF CheckEtherTimerConfig, EtherInv, TypeOK, ImmediateNmTransmissionsTimerCalled, Due
        <4>2. ImmediateNmCycleTime + (immediateLeft' - 1) * ImmediateNmCycleTime
                = timer["immediate"] + (immediateLeft - 1) * ImmediateNmCycleTime
          BY <2>3, <4>1, BurstArithmetic
        <4>3. immediateLeft' > 0
          BY <2>3, <3>4, <4>1
        <4> QED
          BY <2>1, <2>3, <3>2, <3>4, <4>2, <4>3
          DEF SendInv, PendingInTime, NormalIsRequested, Armed
      <3> QED BY <3>3, <3>4
    <2> QED BY <1>3, <2>2, <2>3 DEF ImmediateNmTransmissionsTimerCalled, SendNmMessage
  <1>4. CASE MsgCycleOffsetTimerCalled \/ MsgCycleTimerCalled
    <2>1. UNCHANGED <<state, immediateLeft>> /\ (CheckActiveRequested' <=> CheckActiveRequested)
      BY <1>4 DEF MsgCycleOffsetTimerCalled, MsgCycleTimerCalled, requestVars, CheckActiveRequested
    <2>2. CASE \E sent \in BOOLEAN, off \in SUBSET Timer :
                  timer' = Timers(off, AfterSend(sent) \cup {"msgCycle"})
      <3>1. PICK sent \in BOOLEAN, off \in SUBSET Timer :
                  timer' = Timers(off, AfterSend(sent) \cup {"msgCycle"})
        BY <2>2
      <3> DEFINE made == AfterSend(sent) \cup {"msgCycle"}
      <3>2. timer' = Timers(off, made) /\ "msgCycle" \in made
        BY <3>1
      <3> HIDE DEF made
      <3>3. Armed("msgCycle")'
        BY <1>1, <3>2, TimersLemma
      <3> QED BY <2>1, <3>3 DEF SendInv, PendingInTime, NormalIsRequested
    <2>3. CASE MsgCycleOffsetTimerCalled /\ timer' = Timers({"msgCycleOffset"}, {})
               /\ state # "RepeatMessage"
      <3>1. timer'["msgCycle"] = timer["msgCycle"]
        BY <1>1, <2>3, TimersLemma
      <3> QED BY <2>1, <2>3, <3>1 DEF SendInv, PendingInTime, NormalIsRequested, Armed
    <2>4. CASE state \notin SendingStates
      BY <2>1, <2>4 DEF SendInv, PendingInTime, NormalIsRequested, SendingStates
    <2>5. {"msgCycleOffset"} \in SUBSET Timer /\ {} \in SUBSET Timer
      BY DEF Timer, EtherTimer
    <2> QED
      BY <1>4, <2>2, <2>3, <2>4, <2>5
      DEF MsgCycleOffsetTimerCalled, MsgCycleTimerCalled, SendNmMessage
  <1>5. CASE NetworkTimerCalled
    <2>1. CASE GivesUp
      BY <1>5, <2>1
      DEF NetworkTimerCalled, ToPrepareBusSleep, SendInv, PendingInTime, NormalIsRequested
    <2>2. CASE ~GivesUp
      <3> DEFINE made == IF state \in Network THEN {"network"} ELSE {}
      <3>1. /\ timer' = Timers({"network"}, made) /\ made \in SUBSET {"network"}
            /\ UNCHANGED <<state, requestVars, immediateLeft>>
        BY <1>5, <2>2 DEF NetworkTimerCalled
      <3> HIDE DEF made
      <3>2. \A t \in sending : timer'[t] = timer[t]
        BY <1>1, <3>1, TimersLemma
      <3> QED
        BY <3>1, <3>2, SendFrame DEF requestVars, CheckActiveRequested, SendInv, NormalIsRequested
    <2> QED BY <2>1, <2>2
  <1>6. CASE WaitBusSleepTimerCalled
    <2>1. \A t \in sending : timer'[t] = timer[t]
      BY <1>1, <1>6, TimersLemma DEF WaitBusSleepTimerCalled
    <2>2. state' \notin {"RepeatMessage", "NormalOperation"} \/ state' = state
      BY <1>6 DEF WaitBusSleepTimerCalled
    <2> QED
      BY <1>6, <2>1, <2>2, SendFrame
      DEF WaitBusSleepTimerCalled, requestVars, CheckActiveRequested, SendInv, PendingInTime,
          NormalIsRequested
  <1>7. CASE PassivePnCheckTimerCalled
    <2> DEFINE made == IF {p \in Pn : PassivePnKept(p)} = {} THEN {} ELSE {"passivePnCheck"}
    <2>1. /\ timer' = Timers({"passivePnCheck"}, made) /\ made \in SUBSET {"passivePnCheck"}
          /\ UNCHANGED <<state, requestVars, immediateLeft>>
      BY <1>7 DEF PassivePnCheckTimerCalled
    <2> HIDE DEF made
    <2>2. \A t \in sending : timer'[t] = timer[t]
      BY <1>1, <2>1, TimersLemma
    <2> QED
      BY <2>1, <2>2, SendFrame DEF requestVars, CheckActiveRequested, SendInv, NormalIsRequested
  <1> QED BY <1>2, <1>3, <1>4, <1>5, <1>6, <1>7 DEF Callback

\* All timers run down together.
LEMMA TickSends == ASSUME EtherInv, SendInv, Tick PROVE SendInv'
  <1>1. TimerType
    BY DEF EtherInv, TypeOK, TimerType
  <1>2. /\ \A t \in Timer : Armed(t)' <=> Armed(t)
        /\ \A t \in Timer : Armed(t) => timer'[t] = timer[t] - 1 /\ timer[t] \in Int
    BY <1>1, TickLemma DEF Tick, TimerType, Armed
  <1>3. /\ UNCHANGED <<state, immediateLeft>> /\ (CheckActiveRequested' <=> CheckActiveRequested)
        /\ state = "RepeatMessage" => Armed("repeateMessage")
        /\ (immediateLeft - 1) * ImmediateNmCycleTime \in Int
    BY EtherConfigAssumption
    DEF Tick, requestVars, CheckActiveRequested, EtherInv, TypeOK, StateIsTimed,
        CheckEtherTimerConfig
  <1> QED
    BY <1>2, <1>3
    DEF SendInv, PendingInTime, NormalIsRequested, Timer, EtherTimer

\* Where bursts are unconditional and NormalOperation is not forced, a connector
\* in RepeatMessage, or requested in NormalOperation, always has its next message
\* scheduled, whatever the durations the configuration check accepts.
THEOREM NeverSilent ==
    ASSUME BurstIsUnconditional, NormalIsNotForced
    PROVE  Spec => []NeverFallsSilent
  <1>1. Init => SendInv
    BY DEF Init, SendInv, PendingInTime, NormalIsRequested
  <1>2. EtherInv /\ SendInv /\ [Next]_vars => SendInv'
    <2>1. ASSUME EtherInv, SendInv, UNCHANGED vars PROVE SendInv'
      BY <2>1, SendFrame DEF vars, requestVars, CheckActiveRequested, SendInv, NormalIsRequested
    <2> QED BY <2>1, ExternalSends, CallbackSends, TickSends DEF Next
  <1>3. SendInv => NeverFallsSilent
    BY DEF SendInv, PendingInTime, NormalIsRequested, NeverFallsSilent, RepeatMessageSends,
           NormalOperationSends
  <1> QED BY <1>1, <1>2, <1>3, EtherInvariant, PTL DEF Spec

----------------------------------------------------------------------------
(* Part 4.  Detections, the end of communication, passive requests.         *)

\* Where nothing but RepeatMessage is forced, a detection that is under way has
\* the timer running that reports it.
THEOREM DetectionReported ==
    ASSUME ForcedStates \subseteq {"RepeatMessage"}
    PROVE  Spec => []DetectionIsReported
  <1> DEFINE DetectInvariant == /\ detectNode => state = "RepeatMessage"
                                /\ nodeList # {} => detectNode
  <1>1. Init => DetectInvariant
    BY DEF Init
  <1>2. ASSUME EtherInv, DetectInvariant, [Next]_vars PROVE DetectInvariant'
    <2> USE DEF detectVars
    <2>1. CASE UNCHANGED detectVars /\ (state = "RepeatMessage" => state' = "RepeatMessage")
      BY <1>2, <2>1
    <2>2. ASSUME NEW e \in BOOLEAN, NEW pns \in AtMostOnePn,
                 RequestNetwork(e, pns) \/ ReleaseNetwork(e, pns)
          PROVE  DetectInvariant'
      BY <2>1, <2>2
      DEF RequestNetwork, ReleaseNetwork, NormalOperationToReadySleep,
          ReadySleepToNormalOperation, BusSleepToRepeateMessage, PrepareBusSleepToRepeateMessage,
          MultipleNetworkRequestsForceToRepeateMessage, ToRepeateMessage
    <2>3. CASE RequestDetectNode
      BY <1>2, <2>3 DEF RequestDetectNode, BusSleepToRepeateMessage, ToRepeateMessage
    <2>4. ASSUME NEW n \in Node, NEW bit \in BOOLEAN, NEW pns \in SUBSET Pn,
                 RecvNmMessage(n, bit, pns)
          PROVE  DetectInvariant'
      <3>1. /\ state = "RepeatMessage" => state' = "RepeatMessage"
            /\ detectNode' = detectNode
            /\ nodeList' = IF detectNode THEN nodeList \cup {n} ELSE nodeList
        BY <2>4
        DEF RecvNmMessage, BusSleepToRepeateMessage, PrepareBusSleepToRepeateMessage,
            ReptMsgReqToRepeateMessage, ToRepeateMessage, Network
      <3> QED BY <1>2, <3>1
    <2>5. CASE NotifyWakeup
      BY <2>1, <2>5 DEF NotifyWakeup, WakeupCallToRepeateMessage, ToRepeateMessage
    <2>6. ASSUME NEW s \in ForcedStates, SetEtherStateMachineSate(s) PROVE DetectInvariant'
      BY <2>1, <2>6 DEF SetEtherStateMachineSate, ForceRepeatMessageState, ToRepeateMessage
    <2>7. ASSUME NEW c, SetMessageCtrlType(c) PROVE DetectInvariant'
      BY <2>1, <2>7 DEF SetMessageCtrlType
    <2>8. CASE RepeateMessageTimerCalled
      BY <1>2, <2>8 DEF RepeateMessageTimerCalled, NotifyDetectNodeList
    <2>9. CASE Callback /\ ~RepeateMessageTimerCalled
      BY <2>1, <2>9
      DEF Callback, WaitBusSleepTimerCalled, ImmediateNmTransmissionsTimerCalled,
          MsgCycleOffsetTimerCalled, MsgCycleTimerCalled, NetworkTimerCalled,
          PassivePnCheckTimerCalled, GivesUp, ToPrepareBusSleep
    <2>10. CASE Tick \/ UNCHANGED vars
      BY <2>1, <2>10 DEF Tick, vars
    <2> HIDE DEF DetectInvariant
    <2> QED
      BY <1>2, <2>2, <2>3, <2>4, <2>5, <2>6, <2>7, <2>8, <2>9, <2>10 DEF Next, External
  <1>3. EtherInv /\ DetectInvariant => DetectionIsReported
    BY DEF EtherInv, StateIsTimed, DetectionIsReported
  <1> HIDE DEF DetectInvariant
  <1> QED BY <1>1, <1>2, <1>3, EtherInvariant, PTL DEF Spec

\* Where sleep is not forced, the connector gives the network up only when
\* nobody requests it.
THEOREM SleepsUnrequested ==
    ASSUME ForcedStates \cap {"BusSleep", "PrepareBusSleep"} = {}
    PROVE  Spec => NeverSleepsRequested
  <1>1. ASSUME EtherInv, [Next]_vars, state \in Network, state' \notin Network
        PROVE  ~CheckActiveRequested
    <2>1. ASSUME NEW fast, NEW off, NEW on, ToRepeateMessage(fast, off, on) PROVE FALSE
      BY <1>1, <2>1 DEF ToRepeateMessage, Network
    <2>2. CASE UNCHANGED state
      BY <1>1, <2>2
    <2>3. ASSUME NEW e \in BOOLEAN, NEW pns \in AtMostOnePn,
                 RequestNetwork(e, pns) \/ ReleaseNetwork(e, pns)
          PROVE  ~CheckActiveRequested
      BY <1>1, <2>1, <2>3
      DEF RequestNetwork, ReleaseNetwork, NormalOperationToReadySleep,
          ReadySleepToNormalOperation, BusSleepToRepeateMessage, PrepareBusSleepToRepeateMessage,
          MultipleNetworkRequestsForceToRepeateMessage, Network
    <2>4. CASE RequestDetectNode \/ NotifyWakeup
      BY <1>1, <2>1, <2>4
      DEF RequestDetectNode, NotifyWakeup, BusSleepToRepeateMessage, WakeupCallToRepeateMessage
    <2>5. ASSUME NEW n \in Node, NEW bit \in BOOLEAN, NEW pns \in SUBSET Pn,
                 RecvNmMessage(n, bit, pns)
          PROVE  ~CheckActiveRequested
      BY <1>1, <2>1, <2>5
      DEF RecvNmMessage, BusSleepToRepeateMessage, PrepareBusSleepToRepeateMessage,
          ReptMsgReqToRepeateMessage
    <2>6. ASSUME NEW s \in ForcedStates, SetEtherStateMachineSate(s) PROVE ~CheckActiveRequested
      BY <1>1, <2>1, <2>6
      DEF SetEtherStateMachineSate, ForceRepeatMessageState, ForceNormalOperState,
          ForceReadySleep, Network
    <2>7. CASE NetworkTimerCalled
      BY <1>1, <2>7 DEF NetworkTimerCalled, GivesUp, EtherInv, RequestedIsAwake
    <2>8. CASE Callback /\ ~NetworkTimerCalled
      BY <1>1, <2>8
      DEF Callback, RepeateMessageTimerCalled, WaitBusSleepTimerCalled,
          ImmediateNmTransmissionsTimerCalled, MsgCycleOffsetTimerCalled, MsgCycleTimerCalled,
          PassivePnCheckTimerCalled, Network
    <2>9. ASSUME NEW c, SetMessageCtrlType(c) PROVE ~CheckActiveRequested
      BY <1>1, <2>9 DEF SetMessageCtrlType
    <2>10. CASE Tick \/ UNCHANGED vars
      BY <1>1, <2>10 DEF Tick, vars
    <2> QED
      BY <1>1, <2>3, <2>4, <2>5, <2>6, <2>7, <2>8, <2>9, <2>10 DEF Next, External
  <1>2. EtherInv /\ [Next]_vars =>
          [(state \in Network /\ state' \notin Network) => ~CheckActiveRequested]_vars
    BY <1>1
  <1> QED BY <1>2, EtherInvariant, PTL DEF Spec, NeverSleepsRequested

\* A passive request is always being timed, and is never older than the timeout.
THEOREM PassiveTimed == Spec => []PassiveRequestIsTimed
  <1> DEFINE check == "passivePnCheck"
  <1>1. Init => PassiveRequestIsTimed
    BY DEF Init, PassiveRequestIsTimed
  <1>2. ASSUME EtherInv, PassiveRequestIsTimed, [Next]_vars PROVE PassiveRequestIsTimed'
    <2>1. TimerType /\ check \in Timer /\ immediateLeft \in Nat
      BY <1>2 DEF EtherInv, TypeOK, TimerType, Timer
    <2>2. CASE UNCHANGED passivePnGroup /\ (Armed(check) => Armed(check)')
      BY <1>2, <2>2 DEF PassiveRequestIsTimed
    <2>3. ASSUME NEW off, NEW on, timer' = Timers(off, on), check \notin off
          PROVE  (Armed(check) => Armed(check)') /\ (check \in on => Armed(check)')
      BY <2>1, <2>3, TimersLemma
    <2>4. ASSUME NEW fast, NEW off, NEW on, ToRepeateMessage(fast, off, on), check \notin off
          PROVE  (Armed(check) => Armed(check)') /\ (check \in on => Armed(check)')
      BY <2>1, <2>4, ToRepeateLemma
    <2>5. check \notin EtherTimer
      BY DEF EtherTimer
    <2> HIDE DEF check
    <2>6. ASSUME NEW e \in BOOLEAN, NEW pns \in AtMostOnePn,
                 RequestNetwork(e, pns) \/ ReleaseNetwork(e, pns)
          PROVE  PassiveRequestIsTimed'
      <3>1. {check} \cap {"msgCycle", "waitBusSleep"} = {}
        BY <2>5 DEF EtherTimer
      <3>2. Armed(check) => Armed(check)'
        BY <2>3, <2>4, <2>6, <3>1
        DEF RequestNetwork, ReleaseNetwork, NormalOperationToReadySleep, Armed,
            ReadySleepToNormalOperation, BusSleepToRepeateMessage,
            PrepareBusSleepToRepeateMessage, MultipleNetworkRequestsForceToRepeateMessage
      <3> QED BY <2>2, <2>6, <3>2 DEF RequestNetwork, ReleaseNetwork
    <2>7. CASE RequestDetectNode \/ NotifyWakeup
      BY <2>2, <2>4, <2>5, <2>7
      DEF RequestDetectNode, NotifyWakeup, BusSleepToRepeateMessage, WakeupCallToRepeateMessage,
          Armed
    <2>8. ASSUME NEW n \in Node, NEW bit \in BOOLEAN, NEW pns \in SUBSET Pn,
                 RecvNmMessage(n, bit, pns)
          PROVE  PassiveRequestIsTimed'
      <3> DEFINE on == IF PassivePnTimeout > 0 /\ ~Armed("passivePnCheck")
                       THEN {"passivePnCheck"} ELSE {}
                 drop == ~bit /\ state = "BusSleep" /\ DropMsgInBusSleepMode
      <3>1. check = "passivePnCheck" /\ check # "waitBusSleep" /\ check # "network"
        BY DEF check
      <3>2. CASE drop
        BY <2>2, <2>8, <3>2 DEF RecvNmMessage, Armed, Network
      <3>3. CASE ~drop
        <4>1. /\ Armed(check) => Armed(check)'
              /\ PassivePnTimeout > 0 => Armed(check)'
          <5>1. \/ \E fast, off : check \notin off /\ ToRepeateMessage(fast, off, on)
                \/ timer' = Timers({}, on) \/ timer' = Timers({}, on \cup {"network"})
            BY <2>8, <3>1, <3>3
            DEF RecvNmMessage, BusSleepToRepeateMessage, PrepareBusSleepToRepeateMessage,
                ReptMsgReqToRepeateMessage
          <5>2. PassivePnTimeout > 0 /\ ~Armed(check) => check \in on
            BY <3>1
          <5> HIDE DEF on
          <5> QED BY <2>3, <2>4, <5>1, <5>2
        <4>2. CASE PassivePnTimeout = 0
          BY <2>2, <2>8, <4>1, <4>2 DEF RecvNmMessage
        <4>3. CASE PassivePnTimeout > 0
          <5>1. passivePnGroup' = [p \in Pn |-> IF p \in pns THEN 0 ELSE passivePnGroup[p]]
            BY <2>8, <3>3, <4>3, EtherConfigAssumption DEF RecvNmMessage
          <5>2. 0 * MsgCycleTime <= PassivePnTimeout
            BY EtherConfigAssumption DEF CheckEtherTimerConfig
          <5> QED BY <1>2, <3>1, <4>1, <4>3, <5>1, <5>2 DEF PassiveRequestIsTimed
        <4> QED BY <4>2, <4>3, EtherConfigAssumption
      <3> QED BY <3>2, <3>3
    <2>9. ASSUME NEW s \in ForcedStates, SetEtherStateMachineSate(s) PROVE PassiveRequestIsTimed'
      <3>1. Armed(check) => Armed(check)'
        BY <2>3, <2>4, <2>5, <2>9
        DEF SetEtherStateMachineSate, ForceRepeatMessageState, ForceNormalOperState,
            ForceReadySleep, ForcePrepareSleepMode, ForceBusSleepMode, ToPrepareBusSleep
      <3> QED BY <2>2, <2>9, <3>1 DEF SetEtherStateMachineSate
    <2>10. ASSUME NEW c, SetMessageCtrlType(c) PROVE PassiveRequestIsTimed'
      BY <2>2, <2>10 DEF SetMessageCtrlType, Armed
    <2>11. CASE PassivePnCheckTimerCalled
      <3> DEFINE kept == {p \in Pn : PassivePnKept(p)}
      <3>1. /\ passivePnGroup' = [p \in Pn |-> IF p \in kept THEN passivePnGroup[p] + 1 ELSE Off]
            /\ timer' = Timers({"passivePnCheck"},
                               IF kept = {} THEN {} ELSE {"passivePnCheck"})
        BY <2>11 DEF PassivePnCheckTimerCalled
      <3>2. \A p \in kept : (passivePnGroup[p] + 1) * MsgCycleTime <= PassivePnTimeout
        BY DEF PassivePnKept
      <3>3. kept # {} => Armed("passivePnCheck")'
        <4>1. CASE kept # {}
          <5>1. timer' = Timers({"passivePnCheck"}, {"passivePnCheck"})
            BY <3>1, <4>1
          <5> QED BY <2>1, <5>1, TimersLemma DEF check
        <4> QED BY <4>1
      <3> HIDE DEF kept
      <3> QED BY <3>1, <3>2, <3>3 DEF PassiveRequestIsTimed
    <2>12. CASE Callback /\ ~PassivePnCheckTimerCalled
      <3>1. Armed(check) => Armed(check)'
        BY <2>3, <2>5, <2>12
        DEF Callback, RepeateMessageTimerCalled, WaitBusSleepTimerCalled, NetworkTimerCalled,
            ImmediateNmTransmissionsTimerCalled, MsgCycleOffsetTimerCalled, MsgCycleTimerCalled,
            ToPrepareBusSleep, EtherTimer
      <3> QED
        BY <2>2, <2>12, <3>1
        DEF Callback, RepeateMessageTimerCalled, WaitBusSleepTimerCalled, NetworkTimerCalled,
            ImmediateNmTransmissionsTimerCalled, MsgCycleOffsetTimerCalled, MsgCycleTimerCalled
    <2>13. CASE Tick
      BY <2>1, <2>2, <2>13, TickLemma DEF Tick
    <2>14. CASE UNCHANGED vars
      BY <2>2, <2>14 DEF vars, Armed
    <2> QED
      BY <1>2, <2>6, <2>7, <2>8, <2>9, <2>10, <2>11, <2>12, <2>13, <2>14 DEF Next, External
  <1> QED BY <1>1, <1>2, EtherInvariant, PTL DEF Spec
=============================================================================
