------------------------ MODULE PhmSupervisionProofs ------------------------
(***************************************************************************)
(* Proofs about PhmSupervision, for every configuration of processes,      *)
(* checkpoints, supervisions and function groups.                          *)
(***************************************************************************)
EXTENDS PhmSupervision, TLAPS

(***************************************************************************)
(* Part 1.  Types and the failed-cycle counter, which need each other: the *)
(* counter stays a natural number because a failed local has counted at    *)
(* least one cycle.                                                        *)
(***************************************************************************)
CountInv == TypeOK /\ FailedCyclesAccounting

\* The constructors.
LEMMA InitCount == Init => CountInv
  <1> SUFFICES ASSUME Init PROVE CountInv
    OBVIOUS
  <1> USE ConfigAssumption DEF Init
  <1>1. BaseTypeOK
    BY DEF BaseTypeOK, Verdicts
  <1>2. AliveTypeOK
    BY DEF AliveTypeOK
  <1>3. DeadlineTypeOK
    BY DEF DeadlineTypeOK
  <1>4. LogicalTypeOK
    BY DEF LogicalTypeOK
  <1>5. LocalTypeOK
    BY DEF LocalTypeOK, LocalStatuses
  <1>6. GlobalTypeOK
    BY DEF GlobalTypeOK, GlobalStatuses, LocalStatuses
  <1>7. CauseTypeOK
    BY DEF CauseTypeOK, Affiliations
  <1>8. ModeTypeOK
    BY DEF ModeTypeOK, Reactions
  <1>9. FailedCyclesAccounting
    BY DEF FailedCyclesAccounting
  <1> QED
    BY <1>1, <1>2, <1>3, <1>4, <1>5, <1>6, <1>7, <1>8, <1>9 DEF CountInv, TypeOK

\* What one alive verdict makes of a local: the counter follows the status.
LEMMA AliveCounting ==
    ASSUME CountInv, NEW l \in Local, NEW correct \in BOOLEAN
    PROVE  LET s == AliveStatus(l, correct)
               n == AliveCycles(l, correct)
           IN /\ s \in LocalStatuses /\ n \in Nat
              /\ s \in {"OK", "Deactivated"} => n = 0
              /\ s = "Failed" => n >= 1
              /\ n \in 0..FailedTolerance[l]
  <1> USE ConfigAssumption DEF CountInv, TypeOK, LocalTypeOK, LocalStatuses,
          FailedCyclesAccounting
  <1>1. FailedTolerance[l] \in Nat /\ failedCycles[l] \in 0..FailedTolerance[l]
    OBVIOUS
  <1>2. CASE localStatus[l] = "Expired"
    BY <1>1, <1>2 DEF AliveStatus, AliveCycles
  <1>3. CASE localStatus[l] \in {"OK", "Deactivated"}
    BY <1>1, <1>3 DEF AliveStatus, AliveCycles
  <1>4. CASE localStatus[l] = "Failed"
    BY <1>1, <1>4 DEF AliveStatus, AliveCycles
  <1> QED BY <1>2, <1>3, <1>4

\* What a mode switch makes of a local.
LEMMA SwitchCounting ==
    ASSUME CountInv, NEW l \in Local
    PROVE  LET s == LocalSwitch(l).status
               n == LocalSwitch(l).cycles
           IN /\ s \in LocalStatuses /\ n \in Nat
              /\ s \in {"OK", "Deactivated"} => n = 0
              /\ s = "Failed" => n >= 1
              /\ n \in 0..FailedTolerance[l]
  <1> USE ConfigAssumption DEF CountInv, TypeOK, LocalTypeOK, LocalStatuses,
          FailedCyclesAccounting
  <1>1. FailedTolerance[l] \in Nat /\ failedCycles[l] \in 0..FailedTolerance[l]
    OBVIOUS
  <1>2. KeepsStatus(l) => localStatus[l] \in {"Failed", "Expired"}
    BY DEF KeepsStatus
  <1>3. CASE ~AtLeastOneBaseActive(l)
    BY <1>1, <1>3 DEF LocalSwitch
  <1>4. CASE AtLeastOneBaseActive(l) /\ KeepsStatus(l)
    BY <1>1, <1>2, <1>4 DEF LocalSwitch
  <1>5. CASE AtLeastOneBaseActive(l) /\ ~KeepsStatus(l)
    BY <1>1, <1>5 DEF LocalSwitch
  <1> QED BY <1>3, <1>4, <1>5

\* Updating the locals keeps the invariant when it does so for each local.
LEMMA LocalsCount ==
    ASSUME NEW S, NEW N,
           localStatus' = [l \in Local |-> S[l]],
           failedCycles' = [l \in Local |-> N[l]],
           \A l \in Local :
              /\ S[l] \in LocalStatuses /\ N[l] \in Nat
              /\ S[l] \in {"OK", "Deactivated"} => N[l] = 0
              /\ S[l] = "Failed" => N[l] >= 1
              /\ N[l] \in 0..FailedTolerance[l]
    PROVE  LocalTypeOK' /\ FailedCyclesAccounting'
  BY DEF LocalTypeOK, FailedCyclesAccounting

\* A local that is not updated satisfies what an update must establish.
LEMMA CountKept ==
    ASSUME CountInv, NEW l \in Local
    PROVE  /\ localStatus[l] \in LocalStatuses /\ failedCycles[l] \in Nat
           /\ localStatus[l] \in {"OK", "Deactivated"} => failedCycles[l] = 0
           /\ localStatus[l] = "Failed" => failedCycles[l] >= 1
           /\ failedCycles[l] \in 0..FailedTolerance[l]
  BY ConfigAssumption DEF CountInv, TypeOK, LocalTypeOK, FailedCyclesAccounting

\* _localSupervisionStatusChanged stores a process and its affiliation.
LEMMA CauseTypes ==
    ASSUME CauseTypeOK, affil' \in [Checkpoint -> Affiliations],
           NEW ls, NEW p \in Process, NEW a \in Affiliations,
           LocalSupervisionStatusChanged(ls, p, a)
    PROVE  CauseTypeOK'
  BY DEF CauseTypeOK, LocalSupervisionStatusChanged

\* A deadline or logical verdict moves a local to "Expired" or not at all.
LEMMA TimedCount ==
    ASSUME CountInv, affil' \in [Checkpoint -> Affiliations],
           NEW bs, NEW cp \in Checkpoint, TimedStatusUpdated(bs, cp)
    PROVE  LocalTypeOK' /\ FailedCyclesAccounting' /\ CauseTypeOK'
  <1> DEFINE ls == {l \in Local : /\ localStatus[l] # "Expired"
                                  /\ BasesOf[l] \cap bs # {}}
             S == [l \in Local |->
                     IF l \in ls /\ \E b \in BasesOf[l] \cap bs : verdict'[b] = "Incorrect"
                       THEN "Expired" ELSE localStatus[l]]
  <1>1. /\ localStatus' = [l \in Local |-> S[l]]
        /\ failedCycles' = [l \in Local |-> failedCycles[l]]
    BY DEF TimedStatusUpdated, CountInv, TypeOK, LocalTypeOK
  <1>2. \A l \in Local :
              /\ S[l] \in LocalStatuses /\ failedCycles[l] \in Nat
              /\ S[l] \in {"OK", "Deactivated"} => failedCycles[l] = 0
              /\ S[l] = "Failed" => failedCycles[l] >= 1
              /\ failedCycles[l] \in 0..FailedTolerance[l]
    BY CountKept DEF LocalStatuses
  <1> HIDE DEF S
  <1>3. LocalTypeOK' /\ FailedCyclesAccounting'
    BY <1>1, <1>2, LocalsCount
  <1>4. CpProcess[cp] \in Process /\ affil'[cp] \in Affiliations
    BY ConfigAssumption
  <1>5. CauseTypeOK'
    BY <1>4, CauseTypes DEF TimedStatusUpdated, CountInv, TypeOK
  <1> QED BY <1>3, <1>5

\* _supervisionComServerHandler, kReportCheckpoint.
LEMMA ReportCount ==
    ASSUME CountInv, NEW cp \in Checkpoint, NEW t \in 0..MaxTime,
           ReportCheckpoint(cp, t)
    PROVE  CountInv'
  <1> USE ConfigAssumption DEF CountInv, TypeOK
  <1>1. BaseTypeOK'
    BY DEF ReportCheckpoint, BaseTypeOK, Verdicts, DeadlineVerdict, LogicalVerdict
  <1>2. AliveTypeOK'
    BY DEF ReportCheckpoint, AliveTypeOK
  <1>3. DeadlineTypeOK'
    <2>1. sourceReached' \in [Deadline -> BOOLEAN]
      BY Zenon DEF ReportCheckpoint, DeadlineTypeOK
    <2>2. sourceTime' \in [Deadline -> 0..MaxTime]
      BY DEF ReportCheckpoint, DeadlineTypeOK
    <2>3. deadlineTimer' \in [Deadline -> BOOLEAN]
      BY Zenon DEF ReportCheckpoint, DeadlineTypeOK
    <2> QED BY <2>1, <2>2, <2>3 DEF DeadlineTypeOK
  <1>4. LogicalTypeOK'
    <2>1. graphActive' \in [Logical -> BOOLEAN]
      BY Zenon DEF ReportCheckpoint, LogicalTypeOK, GraphActive
    <2>2. reached' \in [Logical -> SUBSET Checkpoint]
      BY DEF ReportCheckpoint, LogicalTypeOK, Reached
    <2> QED BY <2>1, <2>2 DEF LogicalTypeOK
  <1>5. affil' \in [Checkpoint -> Affiliations]
    BY DEF ReportCheckpoint, CauseTypeOK
  <1>6. LocalTypeOK' /\ FailedCyclesAccounting' /\ CauseTypeOK'
    BY <1>5, TimedCount DEF ReportCheckpoint
  <1>7. GlobalTypeOK'
    BY DEF ReportCheckpoint, GlobalTypeOK, globalVars
  <1>8. ModeTypeOK'
    BY DEF ReportCheckpoint, ModeTypeOK, modeVars
  <1> QED BY <1>1, <1>2, <1>3, <1>4, <1>6, <1>7, <1>8

\* AliveSupervision::_supervisionTimerCb.
LEMMA AliveTimerCount ==
    ASSUME CountInv, NEW b \in Alive, AliveTimerCb(b)
    PROVE  CountInv'
  <1> USE ConfigAssumption DEF CountInv, TypeOK
  <1> DEFINE correct == WithinMargin(b, indications[b])
             ls == {l \in Local : b \in BasesOf[l]}
             S == [l \in Local |->
                     IF l \in ls THEN AliveStatus(l, correct) ELSE localStatus[l]]
             N == [l \in Local |->
                     IF l \in ls THEN AliveCycles(l, correct) ELSE failedCycles[l]]
  <1>1. BaseTypeOK'
    BY DEF AliveTimerCb, BaseTypeOK, Verdicts, Base
  <1>2. AliveTypeOK'
    BY DEF AliveTimerCb, AliveTypeOK
  <1>3. DeadlineTypeOK' /\ LogicalTypeOK' /\ GlobalTypeOK' /\ ModeTypeOK'
    BY DEF AliveTimerCb, DeadlineTypeOK, LogicalTypeOK, GlobalTypeOK, ModeTypeOK,
           deadlineVars, logicalVars, globalVars, modeVars
  <1>4. correct \in BOOLEAN
    BY DEF WithinMargin
  <1>5. /\ localStatus' = [l \in Local |-> S[l]]
        /\ failedCycles' = [l \in Local |-> N[l]]
    BY DEF AliveTimerCb, AliveStatusUpdated
  <1>6. \A l \in Local :
              /\ S[l] \in LocalStatuses /\ N[l] \in Nat
              /\ S[l] \in {"OK", "Deactivated"} => N[l] = 0
              /\ S[l] = "Failed" => N[l] >= 1
              /\ N[l] \in 0..FailedTolerance[l]
    <2> HIDE DEF correct, CountInv
    <2> TAKE l \in Local
    <2>1. CASE l \in ls
      BY <1>4, <2>1, AliveCounting
    <2>2. CASE l \notin ls
      BY <2>2, CountKept
    <2> QED BY <2>1, <2>2
  <1>7. LocalTypeOK' /\ FailedCyclesAccounting'
    <2> HIDE DEF S, N
    <2> QED BY <1>5, <1>6, LocalsCount
  <1>8. CauseTypeOK'
    <2>1. /\ AliveCp[b] \in Checkpoint /\ CpProcess[AliveCp[b]] \in Process
          /\ affil[AliveCp[b]] \in Affiliations
          /\ affil' \in [Checkpoint -> Affiliations]
      BY DEF CauseTypeOK, AliveTimerCb
    <2> QED BY <2>1, CauseTypes DEF AliveTimerCb, AliveStatusUpdated
  <1> QED BY <1>1, <1>2, <1>3, <1>7, <1>8

\* DeadlineSupervision::_supervisionTimerCb.
LEMMA DeadlineTimerCount ==
    ASSUME CountInv, NEW b \in Deadline, DeadlineTimerCb(b)
    PROVE  CountInv'
  <1> USE ConfigAssumption DEF CountInv, TypeOK, DeadlineTimerCb
  <1>1. BaseTypeOK'
    BY DEF BaseTypeOK, Verdicts, Base
  <1>2. DeadlineTypeOK'
    BY DEF DeadlineTypeOK, ResetStatistics
  <1>3. AliveTypeOK' /\ LogicalTypeOK' /\ GlobalTypeOK' /\ ModeTypeOK'
    BY DEF AliveTypeOK, LogicalTypeOK, GlobalTypeOK, ModeTypeOK,
           aliveVars, logicalVars, globalVars, modeVars
  <1>4. affil' \in [Checkpoint -> Affiliations] /\ Source[b] \in Checkpoint
    BY DEF CauseTypeOK
  <1>5. LocalTypeOK' /\ FailedCyclesAccounting' /\ CauseTypeOK'
    BY <1>4, TimedCount
  <1> QED BY <1>1, <1>2, <1>3, <1>5

\* _determineStatus sets one global, or leaves all of them alone.
LEMMA DetermineTypes ==
    ASSUME GlobalTypeOK, NEW g \in Global, DetermineStatus(g), UNCHANGED globalTimer
    PROVE  GlobalTypeOK'
  <1> USE DEF GlobalTypeOK
  <1>1. expiredCycles[g] \in Nat
    OBVIOUS
  <1>2. \/ \E s \in GlobalStatuses, n \in Nat : SetGlobal(g, s, n)
        \/ UNCHANGED <<globalStatus, expiredCycles>>
    BY <1>1 DEF DetermineStatus, GlobalStatuses, LocalStatuses
  <1>3. globalStatus' \in [Global -> GlobalStatuses]
    BY <1>2 DEF SetGlobal
  <1>4. expiredCycles' \in [Global -> Nat]
    BY <1>2 DEF SetGlobal
  <1> QED BY <1>3, <1>4, Zenon

\* _determineStatus and _globalSupervisionStatusChanged.
LEMMA GlobalTimerCount ==
    ASSUME CountInv, NEW g \in Global, GlobalTimerCb(g)
    PROVE  CountInv'
  <1> USE ConfigAssumption DEF CountInv, TypeOK, GlobalTimerCb
  <1>1. BaseTypeOK' /\ AliveTypeOK' /\ DeadlineTypeOK' /\ LogicalTypeOK'
    BY DEF BaseTypeOK, AliveTypeOK, DeadlineTypeOK, LogicalTypeOK,
           aliveVars, deadlineVars, logicalVars
  <1>2. LocalTypeOK' /\ CauseTypeOK' /\ FailedCyclesAccounting'
    BY DEF LocalTypeOK, CauseTypeOK, FailedCyclesAccounting, localVars
  <1>3. GlobalTypeOK'
    BY DetermineTypes DEF globalVars
  <1>4. Recovery(g) \in Reactions
    BY DEF Recovery, Reactions
  <1>5. ModeTypeOK'
    BY <1>4 DEF ModeTypeOK, Reactions, modeVars
  <1> QED BY <1>1, <1>2, <1>3, <1>5

\* What a mode switch makes of a global.
LEMMA GlobalSwitchTypes ==
    ASSUME TypeOK, NEW g \in Global
    PROVE  /\ GlobalSwitch(g).status \in GlobalStatuses
           /\ GlobalSwitch(g).cycles \in Nat
           /\ GlobalSwitch(g).timer \in BOOLEAN
  BY DEF TypeOK, GlobalTypeOK, GlobalSwitch, GlobalStatuses, LocalStatuses

\* _switchBaseSupervisionMode keeps the types of the base supervisions.
LEMMA SwitchBasesTypes ==
    ASSUME TypeOK, NEW ch, SwitchBases(ch)
    PROVE  BaseTypeOK' /\ AliveTypeOK' /\ DeadlineTypeOK' /\ LogicalTypeOK'
  <1> USE ConfigAssumption DEF TypeOK, SwitchBases
  <1>1. active' \in [Base -> BOOLEAN]
    BY Zenon DEF BaseTypeOK
  <1>2. verdict' \in [Base -> Verdicts]
    BY DEF BaseTypeOK, Verdicts
  <1>3. indications' \in [Alive -> 0..MaxIndications]
    BY DEF AliveTypeOK
  <1>4. aliveTimer' \in [Alive -> BOOLEAN]
    BY Zenon DEF AliveTypeOK
  <1>5. sourceTime' \in [Deadline -> 0..MaxTime]
    BY DEF DeadlineTypeOK
  <1>6. /\ sourceReached' \in [Deadline -> BOOLEAN]
        /\ deadlineTimer' \in [Deadline -> BOOLEAN]
    BY Zenon DEF DeadlineTypeOK
  <1>7. graphActive' \in [Logical -> BOOLEAN]
    BY Zenon DEF LogicalTypeOK
  <1>8. reached' \in [Logical -> SUBSET Checkpoint]
    BY DEF LogicalTypeOK
  <1> QED
    BY <1>1, <1>2, <1>3, <1>4, <1>5, <1>6, <1>7, <1>8, Zenon
    DEF BaseTypeOK, AliveTypeOK, DeadlineTypeOK, LogicalTypeOK

\* _switchSupervisionMode.
LEMMA SwitchCount ==
    ASSUME CountInv, NEW f \in Fg, NEW s \in FgState,
           NEW new \in [{p \in Process : FgOf[p] = f} -> 0..MaxPid],
           SwitchSupervisionMode(f, s, new)
    PROVE  CountInv'
  <1> USE ConfigAssumption DEF CountInv, TypeOK
  <1> DEFINE ch == [b \in Base |-> IF FgOf[BaseProcess[b]] = f
                 THEN StateChange(pid[BaseProcess[b]], new[BaseProcess[b]])
                 ELSE "Invalid"]
             ls == {l \in Local : \E b \in BasesOf[l] : ch[b] # "Invalid"}
             gs == {GlobalOf[l] : l \in ls}
             S == [l \in Local |->
                     IF l \in ls THEN LocalSwitch(l).status ELSE localStatus[l]]
             N == [l \in Local |->
                     IF l \in ls THEN LocalSwitch(l).cycles ELSE failedCycles[l]]
  <1>1. BaseTypeOK' /\ AliveTypeOK' /\ DeadlineTypeOK' /\ LogicalTypeOK'
    <2> HIDE DEF ch
    <2> QED BY SwitchBasesTypes DEF SwitchSupervisionMode, ch
  <1>2. /\ localStatus' = [l \in Local |-> S[l]]
        /\ failedCycles' = [l \in Local |-> N[l]]
    BY DEF SwitchSupervisionMode
  <1>3. \A l \in Local :
              /\ S[l] \in LocalStatuses /\ N[l] \in Nat
              /\ S[l] \in {"OK", "Deactivated"} => N[l] = 0
              /\ S[l] = "Failed" => N[l] >= 1
              /\ N[l] \in 0..FailedTolerance[l]
    <2> HIDE DEF ls, CountInv
    <2> TAKE l \in Local
    <2>1. CASE l \in ls
      BY <2>1, SwitchCounting
    <2>2. CASE l \notin ls
      BY <2>2, CountKept
    <2> QED BY <2>1, <2>2
  <1>4. LocalTypeOK' /\ FailedCyclesAccounting'
    <2> HIDE DEF S, N
    <2> QED BY <1>2, <1>3, LocalsCount
  <1>5. GlobalTypeOK'
    <2>1. /\ globalStatus' = [g \in Global |->
                IF g \in gs THEN GlobalSwitch(g).status ELSE globalStatus[g]]
          /\ expiredCycles' = [g \in Global |->
                IF g \in gs THEN GlobalSwitch(g).cycles ELSE expiredCycles[g]]
          /\ globalTimer' = [g \in Global |->
                IF g \in gs THEN GlobalSwitch(g).timer ELSE globalTimer[g]]
      BY DEF SwitchSupervisionMode
    <2> HIDE DEF gs
    <2>2. globalStatus' \in [Global -> GlobalStatuses]
      BY <2>1, GlobalSwitchTypes DEF GlobalTypeOK
    <2>3. expiredCycles' \in [Global -> Nat]
      BY <2>1, GlobalSwitchTypes DEF GlobalTypeOK
    <2>4. globalTimer' \in [Global -> BOOLEAN]
      BY <2>1, GlobalSwitchTypes, Zenon DEF GlobalTypeOK
    <2> QED BY <2>2, <2>3, <2>4, Zenon DEF GlobalTypeOK
  <1>6. CauseTypeOK'
    BY DEF SwitchSupervisionMode, CauseTypeOK
  <1>7. ModeTypeOK'
    BY DEF SwitchSupervisionMode, ModeTypeOK
  <1> QED BY <1>1, <1>4, <1>5, <1>6, <1>7

\* Every step of phmd preserves the types and the failed-cycle accounting.
LEMMA NextCount == CountInv /\ [Next]_vars => CountInv'
  <1> SUFFICES ASSUME CountInv, [Next]_vars PROVE CountInv'
    OBVIOUS
  <1>1. ASSUME NEW g \in RecoveryMapped, NEW on \in BOOLEAN, SetOffer(g, on)
        PROVE  CountInv'
    <2> USE <1>1, ConfigAssumption DEF CountInv, TypeOK, SetOffer
    <2>1. BaseTypeOK' /\ AliveTypeOK' /\ DeadlineTypeOK' /\ LogicalTypeOK'
      BY DEF BaseTypeOK, AliveTypeOK, DeadlineTypeOK, LogicalTypeOK,
             aliveVars, deadlineVars, logicalVars
    <2>2. LocalTypeOK' /\ CauseTypeOK' /\ GlobalTypeOK' /\ FailedCyclesAccounting'
      BY DEF LocalTypeOK, CauseTypeOK, GlobalTypeOK, FailedCyclesAccounting,
             localVars, globalVars
    <2>3. ModeTypeOK'
      BY DEF ModeTypeOK, modeVars
    <2> QED BY <2>1, <2>2, <2>3
  <1>2. CASE UNCHANGED vars
    <2> USE <1>2 DEF CountInv, TypeOK, vars
    <2>1. BaseTypeOK' /\ AliveTypeOK' /\ DeadlineTypeOK' /\ LogicalTypeOK'
      BY DEF BaseTypeOK, AliveTypeOK, DeadlineTypeOK, LogicalTypeOK,
             aliveVars, deadlineVars, logicalVars
    <2>2. LocalTypeOK' /\ CauseTypeOK' /\ GlobalTypeOK' /\ FailedCyclesAccounting'
      BY DEF LocalTypeOK, CauseTypeOK, GlobalTypeOK, FailedCyclesAccounting,
             localVars, globalVars
    <2>3. ModeTypeOK'
      BY DEF ModeTypeOK, modeVars
    <2> QED BY <2>1, <2>2, <2>3
  <1> QED
    BY <1>1, <1>2, ReportCount, AliveTimerCount, DeadlineTimerCount,
       GlobalTimerCount, SwitchCount DEF Next

\* The types and the failed-cycle accounting hold in every behaviour.
LEMMA CountInvariant == Spec => []CountInv
  BY InitCount, NextCount, PTL DEF Spec

\* Every variable keeps its type, whatever is configured and in whatever order
\* checkpoints, timers and function group notifications come.
THEOREM SupervisionTypes == Spec => []TypeOK
  BY CountInvariant, PTL DEF CountInv

\* failedSupervisionReferenceCycles_ neither wraps below zero nor passes the
\* tolerance, and is zero whenever the local is OK or deactivated.
THEOREM FailedCycles == Spec => []FailedCyclesAccounting
  BY CountInvariant, PTL DEF CountInv
=============================================================================
