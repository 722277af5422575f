------------------------ MODULE PhmMonitoringProofs -------------------------
(***************************************************************************)
(* Proofs of the safety properties of PhmSupervision, for every            *)
(* configuration, from the types and the counters proved in                *)
(* PhmSupervisionProofs.  Each part has an inductive invariant of its own  *)
(* and takes CountInv as given.                                            *)
(***************************************************************************)
EXTENDS PhmSupervisionProofs

(***************************************************************************)
(* Part 1.  The expired cycles of a global.                                *)
(***************************************************************************)

\* _determineStatus counts up to the tolerance and stops there.
LEMMA DetermineExpired ==
    ASSUME CountInv, ExpiredCyclesAccounting, NEW g \in Global, GlobalTimerCb(g)
    PROVE  ExpiredCyclesAccounting'
  <1> USE ConfigAssumption DEF ExpiredCyclesAccounting
  <1>1. /\ globalStatus \in [Global -> GlobalStatuses]
        /\ expiredCycles \in [Global -> Nat] /\ ExpiredTolerance \in [Global -> Nat]
    BY DEF CountInv, TypeOK, GlobalTypeOK
  <1>2. \/ UNCHANGED <<globalStatus, expiredCycles>>
        \/ SetGlobal(g, "Deactivated", 0)
        \/ \E s \in {"OK", "Failed"} : SetGlobal(g, s, expiredCycles[g]) /\ expiredCycles[g] = 0
        \/ \E n \in 1..ExpiredTolerance[g] : SetGlobal(g, "Expired", n)
        \/ SetGlobal(g, "Stopped", ExpiredTolerance[g])
    BY <1>1 DEF GlobalTimerCb, DetermineStatus, Tolerated, ToleranceUsedUp
  <1> SUFFICES ASSUME NEW h \in Global
               PROVE
        /\ globalStatus'[h] \in {"Deactivated", "OK", "Failed"} => expiredCycles'[h] = 0
        /\ globalStatus'[h] = "Expired" => expiredCycles'[h] \in 1..ExpiredTolerance[h]
        /\ globalStatus'[h] = "Stopped" => expiredCycles'[h] = ExpiredTolerance[h]
    OBVIOUS
  <1>3. CASE h = g
    BY <1>1, <1>2, <1>3 DEF SetGlobal
  <1>4. CASE h # g
    BY <1>1, <1>2, <1>4 DEF SetGlobal
  <1> QED BY <1>3, <1>4

\* A mode switch leaves a global alone, or starts its count from zero.
LEMMA SwitchExpired ==
    ASSUME CountInv, ExpiredCyclesAccounting, NEW f \in Fg, NEW s \in FgState,
           NEW new \in [{p \in Process : FgOf[p] = f} -> 0..MaxPid],
           SwitchSupervisionMode(f, s, new)
    PROVE  ExpiredCyclesAccounting'
  <1> USE DEF ExpiredCyclesAccounting
  <1>1. PICK gs : /\ globalStatus' = [g \in Global |->
                        IF g \in gs THEN GlobalSwitch(g).status ELSE globalStatus[g]]
                  /\ expiredCycles' = [g \in Global |->
                        IF g \in gs THEN GlobalSwitch(g).cycles ELSE expiredCycles[g]]
    BY DEF SwitchSupervisionMode
  <1>2. ASSUME NEW g \in Global
        PROVE  \/ /\ GlobalSwitch(g).status = globalStatus[g]
                  /\ GlobalSwitch(g).cycles = expiredCycles[g]
               \/ /\ GlobalSwitch(g).status \in {"Deactivated", "OK"}
                  /\ GlobalSwitch(g).cycles = 0
    BY <1>2 DEF GlobalSwitch
  <1> QED BY <1>1, <1>2

LEMMA NextExpired ==
    CountInv /\ ExpiredCyclesAccounting /\ [Next]_vars => ExpiredCyclesAccounting'
  <1> SUFFICES ASSUME CountInv, ExpiredCyclesAccounting, [Next]_vars
               PROVE  ExpiredCyclesAccounting'
    OBVIOUS
  <1>1. CASE UNCHANGED <<globalStatus, expiredCycles>>
    BY <1>1 DEF ExpiredCyclesAccounting
  <1>2. ASSUME NEW cp \in Checkpoint, NEW t \in 0..MaxTime, ReportCheckpoint(cp, t)
        PROVE  UNCHANGED <<globalStatus, expiredCycles>>
    BY <1>2 DEF ReportCheckpoint, globalVars
  <1>3. ASSUME NEW b \in Alive, AliveTimerCb(b)
        PROVE  UNCHANGED <<globalStatus, expiredCycles>>
    BY <1>3 DEF AliveTimerCb, globalVars
  <1>4. ASSUME NEW b \in Deadline, DeadlineTimerCb(b)
        PROVE  UNCHANGED <<globalStatus, expiredCycles>>
    BY <1>4 DEF DeadlineTimerCb, globalVars
  <1>5. ASSUME NEW g \in RecoveryMapped, NEW on \in BOOLEAN, SetOffer(g, on)
        PROVE  UNCHANGED <<globalStatus, expiredCycles>>
    BY <1>5 DEF SetOffer, globalVars
  <1>6. UNCHANGED vars => UNCHANGED <<globalStatus, expiredCycles>>
    BY DEF vars, globalVars
  <1> QED
    BY <1>1, <1>2, <1>3, <1>4, <1>5, <1>6, DetermineExpired, SwitchExpired DEF Next

\* expiredSupervisionCycle_ never passes the tolerance, so that the test with
\* == in _determineStatus is never jumped over, and a global that is not
\* expired starts from zero.
THEOREM ExpiredCycles == Spec => []ExpiredCyclesAccounting
  <1>1. Init => ExpiredCyclesAccounting
    BY DEF Init, ExpiredCyclesAccounting
  <1> QED BY <1>1, NextExpired, CountInvariant, PTL DEF Spec

-----------------------------------------------------------------------------
(***************************************************************************)
(* Part 2.  The deadline timer.                                            *)
(***************************************************************************)
LEMMA NextDeadline ==
    CountInv /\ DeadlineTimerIffPending /\ [Next]_vars => DeadlineTimerIffPending'
  <1> SUFFICES ASSUME CountInv, DeadlineTimerIffPending, [Next]_vars
               PROVE  DeadlineTimerIffPending'
    OBVIOUS
  <1> USE DEF DeadlineTimerIffPending
  <1>0. /\ sourceReached \in [Deadline -> BOOLEAN]
        /\ deadlineTimer \in [Deadline -> BOOLEAN]
    BY DEF CountInv, TypeOK, DeadlineTypeOK
  <1>1. CASE UNCHANGED <<sourceReached, deadlineTimer>>
    BY <1>1
  <1>2. ASSUME NEW cp \in Checkpoint, NEW t \in 0..MaxTime, ReportCheckpoint(cp, t)
        PROVE  DeadlineTimerIffPending'
    BY <1>2, Zenon DEF ReportCheckpoint
  <1>3. ASSUME NEW b \in Alive, AliveTimerCb(b)
        PROVE  UNCHANGED <<sourceReached, deadlineTimer>>
    BY <1>3 DEF AliveTimerCb, deadlineVars
  <1>4. ASSUME NEW b \in Deadline, DeadlineTimerCb(b)
        PROVE  DeadlineTimerIffPending'
    BY <1>0, <1>4 DEF DeadlineTimerCb, ResetStatistics
  <1>5. ASSUME NEW g \in Global, GlobalTimerCb(g)
        PROVE  UNCHANGED <<sourceReached, deadlineTimer>>
    BY <1>5 DEF GlobalTimerCb, deadlineVars
  <1>6. ASSUME NEW f \in Fg, NEW s \in FgState,
               NEW new \in [{p \in Process : FgOf[p] = f} -> 0..MaxPid],
               SwitchSupervisionMode(f, s, new)
        PROVE  DeadlineTimerIffPending'
    <2>1. PICK ch : SwitchBases(ch)
      BY <1>6 DEF SwitchSupervisionMode
    <2> QED BY <2>1, Zenon DEF SwitchBases
  <1>7. ASSUME NEW g \in RecoveryMapped, NEW on \in BOOLEAN, SetOffer(g, on)
        PROVE  UNCHANGED <<sourceReached, deadlineTimer>>
    BY <1>7 DEF SetOffer, deadlineVars
  <1>8. UNCHANGED vars => UNCHANGED <<sourceReached, deadlineTimer>>
    BY DEF vars, deadlineVars
  <1> QED
    BY <1>1, <1>2, <1>3, <1>4, <1>5, <1>6, <1>7, <1>8 DEF Next

\* The deadline timer runs exactly while a source checkpoint waits for its
\* target, across restarts of the process and late checkpoints.
THEOREM DeadlineTimer == Spec => []DeadlineTimerIffPending
  <1>1. Init => DeadlineTimerIffPending
    BY DEF Init, DeadlineTimerIffPending
  <1> QED BY <1>1, NextDeadline, CountInvariant, PTL DEF Spec

-----------------------------------------------------------------------------
(***************************************************************************)
(* Part 3.  Supervision follows the process.                               *)
(***************************************************************************)

\* What a mode switch does to the process of a base supervision and to the
\* supervision itself.
LEMMA SwitchRunning ==
    ASSUME CountInv, SupervisedIffRunning, NEW f \in Fg, NEW s \in FgState,
           NEW new \in [{p \in Process : FgOf[p] = f} -> 0..MaxPid],
           SwitchSupervisionMode(f, s, new)
    PROVE  SupervisedIffRunning'
  <1> USE ConfigAssumption DEF SupervisedIffRunning
  <1> DEFINE ch == [b \in Base |-> IF FgOf[BaseProcess[b]] = f
                 THEN StateChange(pid[BaseProcess[b]], new[BaseProcess[b]])
                 ELSE "Invalid"]
  <1>0. /\ pid \in [Process -> 0..MaxPid] /\ active \in [Base -> BOOLEAN]
        /\ aliveTimer \in [Alive -> BOOLEAN] /\ Alive \subseteq Base
    BY DEF CountInv, TypeOK, ModeTypeOK, BaseTypeOK, AliveTypeOK, Base
  <1>1. /\ SwitchBases(ch)
        /\ pid' = [p \in Process |-> IF FgOf[p] = f THEN new[p] ELSE pid[p]]
    BY DEF SwitchSupervisionMode
  <1>2. ASSUME NEW b \in Base
        PROVE  /\ ch[b] \in {"IdleToRunning", "Restart"} => pid'[BaseProcess[b]] > 0
               /\ ch[b] = "RunningToIdle" => ~(pid'[BaseProcess[b]] > 0)
               /\ ch[b] \notin {"IdleToRunning", "Restart", "RunningToIdle"}
                    => (pid'[BaseProcess[b]] > 0 <=> pid[BaseProcess[b]] > 0)
    <2>1. BaseProcess[b] \in Process
      OBVIOUS
    <2>2. CASE FgOf[BaseProcess[b]] # f
      BY <1>1, <2>1, <2>2
    <2>3. CASE FgOf[BaseProcess[b]] = f
      <3>1. /\ new[BaseProcess[b]] \in 0..MaxPid /\ pid[BaseProcess[b]] \in 0..MaxPid
            /\ pid'[BaseProcess[b]] = new[BaseProcess[b]]
        BY <1>0, <1>1, <2>1, <2>3
      <3>2. ch[b] = StateChange(pid[BaseProcess[b]], new[BaseProcess[b]])
        BY <2>3
      <3> QED BY <3>1, <3>2 DEF StateChange
    <2> QED BY <2>2, <2>3
  <1> HIDE DEF ch
  <1>3. ASSUME NEW b \in Base
        PROVE  active'[b] <=> \/ ch[b] \in {"IdleToRunning", "Restart"}
                              \/ active[b] /\ ch[b] # "RunningToIdle"
    BY <1>1, <1>3 DEF SwitchBases
  <1>4. ASSUME NEW b \in Alive
        PROVE  aliveTimer'[b] <=> \/ ch[b] \in {"IdleToRunning", "Restart"}
                                  \/ aliveTimer[b] /\ ch[b] # "RunningToIdle"
    BY <1>0, <1>1, <1>4 DEF SwitchBases
  <1>5. ASSUME NEW b \in Base PROVE active'[b] <=> pid'[BaseProcess[b]] > 0
    BY <1>2, <1>3
  <1>6. ASSUME NEW b \in Alive PROVE aliveTimer'[b] <=> active'[b]
    BY <1>0, <1>3, <1>4
  <1> QED BY <1>5, <1>6

LEMMA NextRunning ==
    CountInv /\ SupervisedIffRunning /\ [Next]_vars => SupervisedIffRunning'
  <1> SUFFICES ASSUME CountInv, SupervisedIffRunning, [Next]_vars
               PROVE  SupervisedIffRunning'
    OBVIOUS
  <1>1. CASE UNCHANGED <<active, aliveTimer, pid>>
    BY <1>1 DEF SupervisedIffRunning
  <1>2. ASSUME NEW cp \in Checkpoint, NEW t \in 0..MaxTime, ReportCheckpoint(cp, t)
        PROVE  UNCHANGED <<active, aliveTimer, pid>>
    BY <1>2 DEF ReportCheckpoint, modeVars
  <1>3. ASSUME NEW b \in Alive, AliveTimerCb(b)
        PROVE  UNCHANGED <<active, aliveTimer, pid>>
    BY <1>3 DEF AliveTimerCb, modeVars
  <1>4. ASSUME NEW b \in Deadline, DeadlineTimerCb(b)
        PROVE  UNCHANGED <<active, aliveTimer, pid>>
    BY <1>4 DEF DeadlineTimerCb, aliveVars, modeVars
  <1>5. ASSUME NEW g \in Global, GlobalTimerCb(g)
        PROVE  UNCHANGED <<active, aliveTimer, pid>>
    BY <1>5 DEF GlobalTimerCb, aliveVars, modeVars
  <1>6. ASSUME NEW g \in RecoveryMapped, NEW on \in BOOLEAN, SetOffer(g, on)
        PROVE  UNCHANGED <<active, aliveTimer, pid>>
    BY <1>6 DEF SetOffer, aliveVars, modeVars
  <1>7. UNCHANGED vars => UNCHANGED <<active, aliveTimer, pid>>
    BY DEF vars, aliveVars, modeVars
  <1> QED
    BY <1>1, <1>2, <1>3, <1>4, <1>5, <1>6, <1>7, SwitchRunning DEF Next

\* A base supervision is active, and an alive cycle timer runs, exactly when
\* the process was last seen with a pid.
THEOREM Supervised == Spec => []SupervisedIffRunning
  <1>1. Init => SupervisedIffRunning
    BY ConfigAssumption DEF Init, SupervisedIffRunning, Base
  <1> QED BY <1>1, NextRunning, CountInvariant, PTL DEF Spec

-----------------------------------------------------------------------------
(***************************************************************************)
(* Part 4.  No running process goes unwatched.  The cycle timer of a       *)
(* global is stopped with the global only, which the property needs as     *)
(* part of the invariant.                                                  *)
(***************************************************************************)
ActivatedGlobalHasTimer ==
    \A g \in Global : globalStatus[g] # "Deactivated" => globalTimer[g]

MonitorInv == ActiveBaseIsMonitored /\ ActivatedGlobalHasTimer

\* A step that keeps the bases and the globals, and deactivates no local.
LEMMA MonitorKept ==
    ASSUME MonitorInv, UNCHANGED <<active, globalVars>>,
           \A l \in Local : localStatus[l] # "Deactivated" =>
                              localStatus'[l] # "Deactivated"
    PROVE  MonitorInv'
  BY ConfigAssumption
  DEF MonitorInv, ActiveBaseIsMonitored, ActivatedGlobalHasTimer, globalVars

\* _determineStatus deactivates a global only when all its locals are.
LEMMA GlobalTimerMonitor ==
    ASSUME CountInv, MonitorInv, NEW g \in Global, GlobalTimerCb(g)
    PROVE  MonitorInv'
  <1> USE ConfigAssumption DEF MonitorInv, ActivatedGlobalHasTimer
  <1>1. /\ UNCHANGED <<active, localStatus, globalTimer>> /\ globalTimer[g]
        /\ globalStatus \in [Global -> GlobalStatuses] /\ expiredCycles[g] \in Nat
    BY DEF GlobalTimerCb, localVars, CountInv, TypeOK, GlobalTypeOK
  <1>2. \/ AllDeactivated(g)
        \/ \E s \in GlobalStatuses \ {"Deactivated"}, n \in Nat : SetGlobal(g, s, n)
        \/ UNCHANGED globalStatus
    BY <1>1 DEF GlobalTimerCb, DetermineStatus, GlobalStatuses, LocalStatuses
  <1>3. ASSUME NEW h \in Global, h # g PROVE globalStatus'[h] = globalStatus[h]
    BY <1>1, <1>3 DEF GlobalTimerCb, DetermineStatus, SetGlobal
  <1>4. ASSUME globalStatus'[g] = "Deactivated", globalStatus[g] # "Deactivated"
        PROVE  AllDeactivated(g)
    BY <1>1, <1>2, <1>4 DEF SetGlobal
  <1>5. ActivatedGlobalHasTimer'
    BY <1>1, <1>3
  <1>6. ActiveBaseIsMonitored'
    <2> SUFFICES ASSUME NEW l \in Local, NEW b \in BasesOf[l], active'[b]
                 PROVE  /\ localStatus'[l] # "Deactivated"
                        /\ globalStatus'[GlobalOf[l]] # "Deactivated"
                        /\ globalTimer'[GlobalOf[l]]
      BY DEF ActiveBaseIsMonitored
    <2>1. /\ localStatus[l] # "Deactivated" /\ globalStatus[GlobalOf[l]] # "Deactivated"
          /\ globalTimer[GlobalOf[l]] /\ GlobalOf[l] \in Global
      BY <1>1 DEF ActiveBaseIsMonitored
    <2>2. GlobalOf[l] = g => ~AllDeactivated(g)
      BY <2>1 DEF AllDeactivated, LocalsOf
    <2> QED BY <1>1, <1>3, <1>4, <2>1, <2>2
  <1> QED BY <1>5, <1>6

\* A mode switch: bases first, then the locals that reference one of them,
\* then the globals of these locals.
LEMMA SwitchMonitor ==
    ASSUME CountInv, MonitorInv, NEW f \in Fg, NEW s \in FgState,
           NEW new \in [{p \in Process : FgOf[p] = f} -> 0..MaxPid],
           SwitchSupervisionMode(f, s, new)
    PROVE  MonitorInv'
  <1> USE ConfigAssumption DEF MonitorInv, ActivatedGlobalHasTimer
  <1> DEFINE ch == [b \in Base |-> IF FgOf[BaseProcess[b]] = f
                 THEN StateChange(pid[BaseProcess[b]], new[BaseProcess[b]])
                 ELSE "Invalid"]
             ls == {l \in Local : \E b \in BasesOf[l] : ch[b] # "Invalid"}
             gs == {GlobalOf[l] : l \in ls}
  <1>1. /\ SwitchBases(ch)
        /\ localStatus' = [l \in Local |->
              IF l \in ls THEN LocalSwitch(l).status ELSE localStatus[l]]
        /\ globalStatus' = [g \in Global |->
              IF g \in gs THEN GlobalSwitch(g).status ELSE globalStatus[g]]
        /\ globalTimer' = [g \in Global |->
              IF g \in gs THEN GlobalSwitch(g).timer ELSE globalTimer[g]]
    BY DEF SwitchSupervisionMode
  <1> HIDE DEF ch
  <1>2. ASSUME NEW g \in Global
        PROVE  /\ GlobalSwitch(g).status # "Deactivated" => GlobalSwitch(g).timer
               /\ (\E l \in LocalsOf(g) : localStatus'[l] # "Deactivated")
                     => GlobalSwitch(g).status # "Deactivated"
    BY <1>2 DEF GlobalSwitch
  <1>3. ActivatedGlobalHasTimer'
    BY <1>1, <1>2
  <1>4. ASSUME NEW l \in Local, NEW b \in BasesOf[l], active'[b]
        PROVE  localStatus'[l] # "Deactivated"
    <2>1. CASE l \in ls
      <3>1. AtLeastOneBaseActive(l)
        BY <1>4 DEF AtLeastOneBaseActive
      <3>2. KeepsStatus(l) => localStatus[l] # "Deactivated"
        BY DEF KeepsStatus
      <3>3. LocalSwitch(l).status # "Deactivated"
        BY <3>1, <3>2 DEF LocalSwitch
      <3> QED BY <1>1, <2>1, <3>3
    <2>2. CASE l \notin ls
      <3>1. b \in Base /\ ch[b] = "Invalid"
        BY <1>1, <2>2
      <3>2. active[b]
        BY <1>1, <1>4, <3>1 DEF SwitchBases
      <3> QED BY <1>1, <2>2, <3>2 DEF ActiveBaseIsMonitored
    <2> QED BY <2>1, <2>2
  <1>5. ASSUME NEW l \in Local, NEW b \in BasesOf[l], active'[b]
        PROVE  globalStatus'[GlobalOf[l]] # "Deactivated"
    <2>1. GlobalOf[l] \in Global /\ l \in LocalsOf(GlobalOf[l])
      BY DEF LocalsOf
    <2>2. CASE GlobalOf[l] \in gs
      BY <1>1, <1>2, <1>4, <1>5, <2>1, <2>2
    <2>3. CASE GlobalOf[l] \notin gs
      <3>1. b \in Base /\ ch[b] = "Invalid"
        BY <1>1, <2>3
      <3>2. active[b]
        BY <1>1, <1>5, <3>1 DEF SwitchBases
      <3> QED BY <1>1, <2>1, <2>3, <3>2 DEF ActiveBaseIsMonitored
    <2> QED BY <2>2, <2>3
  <1>6. ActiveBaseIsMonitored'
    BY <1>3, <1>4, <1>5 DEF ActiveBaseIsMonitored
  <1> QED BY <1>3, <1>6

LEMMA NextMonitor == CountInv /\ MonitorInv /\ [Next]_vars => MonitorInv'
  <1> SUFFICES ASSUME CountInv, MonitorInv, [Next]_vars PROVE MonitorInv'
    OBVIOUS
  <1>0. localStatus \in [Local -> LocalStatuses]
    BY DEF CountInv, TypeOK, LocalTypeOK
  <1>1. ASSUME NEW cp \in Checkpoint, NEW t \in 0..MaxTime, ReportCheckpoint(cp, t)
        PROVE  MonitorInv'
    <2>1. PICK bs : TimedStatusUpdated(bs, cp)
      BY <1>1 DEF ReportCheckpoint
    <2>2. \A l \in Local : localStatus[l] # "Deactivated" => localStatus'[l] # "Deactivated"
      BY <2>1 DEF TimedStatusUpdated
    <2>3. UNCHANGED <<active, globalVars>>
      BY <1>1 DEF ReportCheckpoint
    <2> QED BY <2>2, <2>3, MonitorKept
  <1>2. ASSUME NEW b \in Alive, AliveTimerCb(b)
        PROVE  MonitorInv'
    <2>1. PICK correct : AliveStatusUpdated(b, correct)
      BY <1>2 DEF AliveTimerCb
    <2>2. \A l \in Local : localStatus[l] # "Deactivated" => localStatus'[l] # "Deactivated"
      BY <2>1 DEF AliveStatusUpdated, AliveStatus
    <2>3. UNCHANGED <<active, globalVars>>
      BY <1>2 DEF AliveTimerCb
    <2> QED BY <2>2, <2>3, MonitorKept
  <1>3. ASSUME NEW b \in Deadline, DeadlineTimerCb(b)
        PROVE  MonitorInv'
    <2>1. \A l \in Local : localStatus[l] # "Deactivated" => localStatus'[l] # "Deactivated"
      BY <1>3 DEF DeadlineTimerCb, TimedStatusUpdated
    <2>2. UNCHANGED <<active, globalVars>>
      BY <1>3 DEF DeadlineTimerCb
    <2> QED BY <2>1, <2>2, MonitorKept
  <1>4. ASSUME NEW g \in RecoveryMapped, NEW on \in BOOLEAN, SetOffer(g, on)
        PROVE  MonitorInv'
    BY <1>4, MonitorKept DEF SetOffer, localVars
  <1>5. CASE UNCHANGED vars
    BY <1>5, MonitorKept DEF vars, localVars
  <1> QED
    BY <1>1, <1>2, <1>3, <1>4, <1>5, GlobalTimerMonitor, SwitchMonitor DEF Next

\* While a base supervision is active its locals and their globals are
\* activated and the cycle timer of the globals runs.
THEOREM Monitored == Spec => []ActiveBaseIsMonitored
  <1>1. Init => MonitorInv
    BY ConfigAssumption
    DEF Init, MonitorInv, ActiveBaseIsMonitored, ActivatedGlobalHasTimer
  <1>2. MonitorInv => ActiveBaseIsMonitored
    BY DEF MonitorInv
  <1> QED BY <1>1, <1>2, NextMonitor, CountInvariant, PTL DEF Spec

-----------------------------------------------------------------------------
(***************************************************************************)
(* Part 5.  A stopped global knows whom to blame.  The cause is stored     *)
(* when a local expires, long before the global stops, so the invariant    *)
(* follows it through the statuses.                                        *)
(***************************************************************************)
ExpiredLocalHasCause ==
    \A l \in Local : localStatus[l] = "Expired" => cause[GlobalOf[l]].process \in Process

ExpiredGlobalHasCause ==
    \A g \in Global : globalStatus[g] \in {"Expired", "Stopped"} =>
                        cause[g].process \in Process

NoCrash == \A g \in Global : reaction[g] # "crash"

CauseInv == ExpiredLocalHasCause /\ ExpiredGlobalHasCause /\ NoCrash

\* A cause that is stored is a process, and stored for every local that expires.
LEMMA CauseKept ==
    ASSUME CountInv, CauseInv, UNCHANGED <<globalStatus, reaction>>,
           NEW ls, NEW p \in Process, NEW a, LocalSupervisionStatusChanged(ls, p, a),
           \A l \in Local : localStatus'[l] = "Expired" =>
                              localStatus[l] = "Expired" \/ l \in ls
    PROVE  CauseInv'
  <1> USE ConfigAssumption DEF CauseInv
  <1>1. \A g \in Global : cause[g].process \in Process => cause'[g].process \in Process
    BY DEF LocalSupervisionStatusChanged
  <1>2. ExpiredLocalHasCause'
    <2> SUFFICES ASSUME NEW l \in Local, localStatus'[l] = "Expired"
                 PROVE  cause'[GlobalOf[l]].process \in Process
      BY DEF ExpiredLocalHasCause
    <2>1. GlobalOf[l] \in Global
      OBVIOUS
    <2>2. CASE localStatus[l] = "Expired"
      BY <1>1, <2>1, <2>2 DEF ExpiredLocalHasCause
    <2>3. CASE l \in ls
      BY <2>1, <2>3 DEF LocalSupervisionStatusChanged
    <2> QED BY <2>2, <2>3
  <1>3. ExpiredGlobalHasCause' /\ NoCrash'
    BY <1>1 DEF ExpiredGlobalHasCause, NoCrash
  <1> QED BY <1>2, <1>3

\* A deadline or logical verdict expires only locals it stores a cause for.
LEMMA TimedCause ==
    ASSUME CountInv, CauseInv, UNCHANGED <<globalStatus, reaction>>,
           NEW bs, NEW cp \in Checkpoint, TimedStatusUpdated(bs, cp)
    PROVE  CauseInv'
  <1> DEFINE ls == {l \in Local : /\ localStatus[l] # "Expired"
                                  /\ BasesOf[l] \cap bs # {}}
  <1>1. /\ LocalSupervisionStatusChanged(ls, CpProcess[cp], affil'[cp])
        /\ \A l \in Local : localStatus'[l] = "Expired" =>
                              localStatus[l] = "Expired" \/ l \in ls
    BY DEF TimedStatusUpdated
  <1>2. CpProcess[cp] \in Process
    BY ConfigAssumption
  <1> HIDE DEF ls
  <1> QED BY <1>1, <1>2, CauseKept

\* Neither does an alive verdict.
LEMMA AliveCause ==
    ASSUME CountInv, CauseInv, NEW b \in Alive, AliveTimerCb(b)
    PROVE  CauseInv'
  <1> DEFINE ls == {l \in {k \in Local : b \in BasesOf[k]} : localStatus[l] # "Expired"}
  <1>1. /\ LocalSupervisionStatusChanged(ls, CpProcess[AliveCp[b]], affil[AliveCp[b]])
        /\ \A l \in Local : localStatus'[l] = "Expired" =>
                              localStatus[l] = "Expired" \/ l \in ls
    BY DEF AliveTimerCb, AliveStatusUpdated
  <1>2. CpProcess[AliveCp[b]] \in Process
    BY ConfigAssumption
  <1>3. UNCHANGED <<globalStatus, reaction>>
    BY DEF AliveTimerCb, globalVars
  <1> HIDE DEF ls
  <1> QED BY <1>1, <1>2, <1>3, CauseKept

\* A supervision cycle expires a global only for an expired local.
LEMMA GlobalTimerCause ==
    ASSUME CountInv, CauseInv, NEW g \in Global, GlobalTimerCb(g)
    PROVE  CauseInv'
  <1> USE ConfigAssumption DEF CauseInv
  <1>1. /\ UNCHANGED <<localStatus, cause>>
        /\ globalStatus \in [Global -> GlobalStatuses]
        /\ reaction' = [reaction EXCEPT ![g] =
              IF globalStatus'[g] = "Stopped" THEN Recovery(g) ELSE "none"]
    BY DEF GlobalTimerCb, localVars, CountInv, TypeOK, GlobalTypeOK
  <1>2. SomeLocal(g, "Expired") => cause[g].process \in Process
    BY DEF SomeLocal, LocalsOf, ExpiredLocalHasCause
  <1>3. globalStatus'[g] \in {"Expired", "Stopped"} =>
            SomeLocal(g, "Expired") \/ globalStatus[g] \in {"Expired", "Stopped"}
    BY <1>1 DEF GlobalTimerCb, DetermineStatus, SetGlobal
  <1>4. \A h \in Global : h # g => globalStatus'[h] = globalStatus[h]
    BY <1>1 DEF GlobalTimerCb, DetermineStatus, SetGlobal
  <1>5. globalStatus'[g] \in {"Expired", "Stopped"} => cause[g].process \in Process
    BY <1>2, <1>3 DEF ExpiredGlobalHasCause
  <1>6. ExpiredLocalHasCause'
    BY <1>1 DEF ExpiredLocalHasCause
  <1>7. ExpiredGlobalHasCause'
    BY <1>1, <1>4, <1>5 DEF ExpiredGlobalHasCause
  <1>8. NoCrash'
    <2>1. reaction'[g] # "crash"
      <3>1. reaction \in [Global -> Reactions]
        BY DEF CountInv, TypeOK, ModeTypeOK
      <3>2. cause[g].process \in Process => Recovery(g) # "crash"
        BY DEF Recovery
      <3> QED BY <1>1, <1>5, <3>1, <3>2
    <2>2. \A h \in Global : h # g => reaction'[h] = reaction[h]
      BY <1>1 DEF CountInv, TypeOK, ModeTypeOK
    <2> QED BY <2>1, <2>2 DEF NoCrash
  <1> QED BY <1>6, <1>7, <1>8

\* A mode switch expires nothing.
LEMMA SwitchCause ==
    ASSUME CountInv, CauseInv, NEW f \in Fg, NEW s \in FgState,
           NEW new \in [{p \in Process : FgOf[p] = f} -> 0..MaxPid],
           SwitchSupervisionMode(f, s, new)
    PROVE  CauseInv'
  <1> USE ConfigAssumption DEF CauseInv
  <1>1. PICK ls : localStatus' = [l \in Local |->
                    IF l \in ls THEN LocalSwitch(l).status ELSE localStatus[l]]
    BY DEF SwitchSupervisionMode
  <1>2. PICK gs : globalStatus' = [g \in Global |->
                    IF g \in gs THEN GlobalSwitch(g).status ELSE globalStatus[g]]
    BY DEF SwitchSupervisionMode
  <1>3. UNCHANGED <<cause, reaction>>
    BY DEF SwitchSupervisionMode
  <1>4. \A l \in Local : LocalSwitch(l).status = "Expired" => localStatus[l] = "Expired"
    BY DEF LocalSwitch
  <1>5. \A g \in Global : GlobalSwitch(g).status \in {"Expired", "Stopped"} =>
                            globalStatus[g] = GlobalSwitch(g).status
    BY DEF GlobalSwitch
  <1>6. ExpiredLocalHasCause'
    BY <1>1, <1>3, <1>4 DEF ExpiredLocalHasCause
  <1>7. ExpiredGlobalHasCause' /\ NoCrash'
    BY <1>2, <1>3, <1>5 DEF ExpiredGlobalHasCause, NoCrash
  <1> QED BY <1>6, <1>7

LEMMA NextCause == CountInv /\ CauseInv /\ [Next]_vars => CauseInv'
  <1> SUFFICES ASSUME CountInv, CauseInv, [Next]_vars PROVE CauseInv'
    OBVIOUS
  <1>1. CASE UNCHANGED <<localStatus, globalStatus, cause, reaction>>
    BY <1>1 DEF CauseInv, ExpiredLocalHasCause, ExpiredGlobalHasCause, NoCrash
  <1>2. ASSUME NEW cp \in Checkpoint, NEW t \in 0..MaxTime, ReportCheckpoint(cp, t)
        PROVE  CauseInv'
    <2>1. UNCHANGED <<globalStatus, reaction>>
      BY <1>2 DEF ReportCheckpoint, globalVars
    <2> QED BY <1>2, <2>1, TimedCause DEF ReportCheckpoint
  <1>3. ASSUME NEW b \in Deadline, DeadlineTimerCb(b)
        PROVE  CauseInv'
    <2>1. UNCHANGED <<globalStatus, reaction>> /\ Source[b] \in Checkpoint
      BY <1>3, ConfigAssumption DEF DeadlineTimerCb, globalVars
    <2> QED BY <1>3, <2>1, TimedCause DEF DeadlineTimerCb
  <1>4. ASSUME NEW g \in RecoveryMapped, NEW on \in BOOLEAN, SetOffer(g, on)
        PROVE  UNCHANGED <<localStatus, globalStatus, cause, reaction>>
    BY <1>4 DEF SetOffer, localVars, globalVars
  <1>5. UNCHANGED vars => UNCHANGED <<localStatus, globalStatus, cause, reaction>>
    BY DEF vars, localVars, globalVars
  <1> QED
    BY <1>1, <1>2, <1>3, <1>4, <1>5, AliveCause, GlobalTimerCause, SwitchCause DEF Next

\* A stopped global always has a process as its cause, so that the recovery
\* never dereferences the supervision mode of the empty name.
THEOREM StoppedCause == Spec => []StoppedHasCause
  <1>1. Init => CauseInv
    BY DEF Init, CauseInv, ExpiredLocalHasCause, ExpiredGlobalHasCause, NoCrash
  <1>2. CauseInv => StoppedHasCause
    BY DEF CauseInv, ExpiredGlobalHasCause, NoCrash, StoppedHasCause
  <1> QED BY <1>1, <1>2, NextCause, CountInvariant, PTL DEF Spec

-----------------------------------------------------------------------------
(***************************************************************************)
(* Part 6.  The watchdog is fired for the process to blame.  A stored      *)
(* affiliation other than "Other" was reported by the process it is stored *)
(* for, at its checkpoint first and in the cause of the global then.       *)
(***************************************************************************)
Cluster == {"EM", "SM"}

AffiliationInv ==
    /\ \A cp \in Checkpoint : affil[cp] \in Cluster => Affiliation[CpProcess[cp]] \in Cluster
    /\ \A g \in Global : cause[g].affil \in Cluster => Affiliation[cause[g].process] \in Cluster

\* The process and the affiliation of a cause are stored together.
LEMMA AffiliationKept ==
    ASSUME AffiliationInv, NEW ls, NEW p, NEW a,
           LocalSupervisionStatusChanged(ls, p, a),
           a \in Cluster => Affiliation[p] \in Cluster,
           \A cp \in Checkpoint : affil'[cp] \in Cluster =>
                                    Affiliation[CpProcess[cp]] \in Cluster
    PROVE  AffiliationInv'
  BY DEF AffiliationInv, LocalSupervisionStatusChanged

LEMMA NextAffiliation == CountInv /\ AffiliationInv /\ [Next]_vars => AffiliationInv'
  <1> SUFFICES ASSUME CountInv, AffiliationInv, [Next]_vars PROVE AffiliationInv'
    OBVIOUS
  <1>0. affil \in [Checkpoint -> Affiliations]
    BY DEF CountInv, TypeOK, CauseTypeOK
  <1>1. CASE UNCHANGED <<affil, cause>>
    BY <1>1 DEF AffiliationInv
  <1>2. ASSUME NEW cp \in Checkpoint, NEW t \in 0..MaxTime, ReportCheckpoint(cp, t)
        PROVE  AffiliationInv'
    <2>1. affil' = [affil EXCEPT ![cp] = Affiliation[CpProcess[cp]]]
      BY <1>2 DEF ReportCheckpoint
    <2>2. \A c \in Checkpoint : affil'[c] \in Cluster => Affiliation[CpProcess[c]] \in Cluster
      BY <1>0, <2>1 DEF AffiliationInv
    <2>3. PICK bs : TimedStatusUpdated(bs, cp)
      BY <1>2 DEF ReportCheckpoint
    <2>4. PICK ls : LocalSupervisionStatusChanged(ls, CpProcess[cp], affil'[cp])
      BY <2>3 DEF TimedStatusUpdated
    <2> QED BY <2>2, <2>4, AffiliationKept
  <1>3. ASSUME NEW b \in Alive, AliveTimerCb(b)
        PROVE  AffiliationInv'
    <2>1. UNCHANGED affil /\ AliveCp[b] \in Checkpoint
      BY <1>3, ConfigAssumption DEF AliveTimerCb
    <2>2. PICK ls : LocalSupervisionStatusChanged(ls, CpProcess[AliveCp[b]],
                                                  affil[AliveCp[b]])
      BY <1>3 DEF AliveTimerCb, AliveStatusUpdated
    <2>3. /\ affil[AliveCp[b]] \in Cluster => Affiliation[CpProcess[AliveCp[b]]] \in Cluster
          /\ \A c \in Checkpoint : affil'[c] \in Cluster =>
                                     Affiliation[CpProcess[c]] \in Cluster
      BY <2>1 DEF AffiliationInv
    <2> QED BY <2>2, <2>3, AffiliationKept
  <1>4. ASSUME NEW b \in Deadline, DeadlineTimerCb(b)
        PROVE  AffiliationInv'
    <2>1. UNCHANGED affil /\ Source[b] \in Checkpoint
      BY <1>4, ConfigAssumption DEF DeadlineTimerCb
    <2>2. PICK ls : LocalSupervisionStatusChanged(ls, CpProcess[Source[b]],
                                                  affil'[Source[b]])
      BY <1>4 DEF DeadlineTimerCb, TimedStatusUpdated
    <2>3. /\ affil'[Source[b]] \in Cluster => Affiliation[CpProcess[Source[b]]] \in Cluster
          /\ \A c \in Checkpoint : affil'[c] \in Cluster =>
                                     Affiliation[CpProcess[c]] \in Cluster
      BY <2>1 DEF AffiliationInv
    <2> QED BY <2>2, <2>3, AffiliationKept
  <1>5. ASSUME NEW g \in Global, GlobalTimerCb(g)
        PROVE  UNCHANGED <<affil, cause>>
    BY <1>5 DEF GlobalTimerCb
  <1>6. ASSUME NEW f \in Fg, NEW s \in FgState,
               NEW new \in [{p \in Process : FgOf[p] = f} -> 0..MaxPid],
               SwitchSupervisionMode(f, s, new)
        PROVE  UNCHANGED <<affil, cause>>
    BY <1>6 DEF SwitchSupervisionMode
  <1>7. ASSUME NEW g \in RecoveryMapped, NEW on \in BOOLEAN, SetOffer(g, on)
        PROVE  UNCHANGED <<affil, cause>>
    BY <1>7 DEF SetOffer
  <1>8. UNCHANGED vars => UNCHANGED <<affil, cause>>
    BY DEF vars
  <1> QED
    BY <1>1, <1>2, <1>3, <1>4, <1>5, <1>6, <1>7, <1>8 DEF Next

\* A step that fires the watchdog for a global is a supervision cycle of it.
LEMMA FiredForCluster ==
    ASSUME CountInv, AffiliationInv, [Next]_vars, NEW g \in Global,
           reaction[g] = "none", reaction'[g] = "watchdog"
    PROVE  Affiliation[cause[g].process] \in {"EM", "SM"}
  <1>0. reaction \in [Global -> Reactions]
    BY DEF CountInv, TypeOK, ModeTypeOK
  <1>1. ASSUME NEW h \in Global, GlobalTimerCb(h)
        PROVE  Affiliation[cause[g].process] \in {"EM", "SM"}
    <2>1. reaction'[g] = IF g # h THEN reaction[g]
                         ELSE IF globalStatus'[h] = "Stopped" THEN Recovery(h) ELSE "none"
      BY <1>0, <1>1 DEF GlobalTimerCb
    <2>2. Recovery(g) = "watchdog"
      BY <2>1
    <2>3. cause[g].affil \in {"EM", "SM"}
      BY <2>2 DEF Recovery
    <2> QED BY <2>3 DEF AffiliationInv, Cluster
  <1>2. ASSUME NEW cp \in Checkpoint, NEW t \in 0..MaxTime, ReportCheckpoint(cp, t)
        PROVE  UNCHANGED reaction
    BY <1>2 DEF ReportCheckpoint
  <1>3. ASSUME NEW b \in Alive, AliveTimerCb(b) PROVE UNCHANGED reaction
    BY <1>3 DEF AliveTimerCb
  <1>4. ASSUME NEW b \in Deadline, DeadlineTimerCb(b) PROVE UNCHANGED reaction
    BY <1>4 DEF DeadlineTimerCb
  <1>5. ASSUME NEW f \in Fg, NEW s \in FgState,
               NEW new \in [{p \in Process : FgOf[p] = f} -> 0..MaxPid],
               SwitchSupervisionMode(f, s, new)
        PROVE  UNCHANGED reaction
    BY <1>5 DEF SwitchSupervisionMode
  <1>6. ASSUME NEW h \in RecoveryMapped, NEW on \in BOOLEAN, SetOffer(h, on)
        PROVE  UNCHANGED reaction
    BY <1>6 DEF SetOffer
  <1>7. UNCHANGED vars => UNCHANGED reaction
    BY DEF vars
  <1> QED
    BY <1>1, <1>2, <1>3, <1>4, <1>5, <1>6, <1>7 DEF Next

\* The hardware watchdog is fired only for a global whose blamed process
\* belongs to the EM or SM cluster.
THEOREM WatchdogFired == Spec => WatchdogOnlyForCluster
  <1>1. Init => AffiliationInv
    BY DEF Init, AffiliationInv, Cluster
  <1>2. CountInv /\ AffiliationInv /\ [Next]_vars =>
          [\A g \in Global : reaction[g] = "none" /\ reaction'[g] = "watchdog"
             => Affiliation[cause[g].process] \in {"EM", "SM"}]_vars
    BY FiredForCluster
  <1> QED
    BY <1>1, <1>2, NextAffiliation, CountInvariant, PTL DEF Spec, WatchdogOnlyForCluster

-----------------------------------------------------------------------------
(***************************************************************************)
(* Part 7.  Logical supervision: the recorded path is a path of the graph. *)
(***************************************************************************)

\* _graphIsContinuous lets a checkpoint in only after all its upstream ones.
LEMMA ReportPath ==
    ASSUME CountInv, PathIsContinuous, NEW cp \in Checkpoint, NEW t \in 0..MaxTime,
           ReportCheckpoint(cp, t)
    PROVE  PathIsContinuous'
  <1> USE ConfigAssumption
  <1> SUFFICES ASSUME NEW b \in Logical, graphActive'[b], verdict'[b] = "Correct"
               PROVE  /\ reached'[b] \cap Initial[b] # {}
                      /\ \A c \in reached'[b] \ Initial[b] :
                            \A e \in Transition[b] : e[1] = c => e[2] \in reached'[b]
    BY DEF PathIsContinuous
  <1>0. b \in Base /\ b \notin Deadline
    BY DEF Base
  <1>1. CASE cp \notin CpOf(b)
    <2>1. /\ graphActive'[b] = graphActive[b] /\ reached'[b] = reached[b]
          /\ verdict'[b] = verdict[b]
      BY <1>0, <1>1 DEF ReportCheckpoint
    <2> QED BY <2>1 DEF PathIsContinuous
  <1>2. CASE cp \in CpOf(b)
    <2>1. /\ graphActive'[b] <=> GraphActive(b, cp)
          /\ reached'[b] = Reached(b, cp)
          /\ verdict'[b] = LogicalVerdict(b, cp)
      BY <1>0, <1>2 DEF ReportCheckpoint
    <2>2. CASE ~graphActive[b]
      <3>1. cp \in Initial[b] /\ reached'[b] = {cp}
        BY <2>1, <2>2 DEF GraphActive, Reached
      <3> QED BY <3>1
    <2>3. CASE graphActive[b]
      <3>1. /\ verdict[b] = "Correct" /\ GraphIsContinuous(b, cp)
            /\ reached'[b] = {cp} \cup reached[b]
        BY <2>1, <2>3 DEF LogicalVerdict, Reached
      <3> QED BY <2>3, <3>1 DEF PathIsContinuous, GraphIsContinuous
    <2> QED BY <2>2, <2>3
  <1> QED BY <1>1, <1>2

LEMMA NextPath == CountInv /\ PathIsContinuous /\ [Next]_vars => PathIsContinuous'
  <1> SUFFICES ASSUME CountInv, PathIsContinuous, [Next]_vars PROVE PathIsContinuous'
    OBVIOUS
  <1> USE ConfigAssumption
  <1>0. verdict \in [Base -> Verdicts] /\ Logical \subseteq Base
    BY DEF CountInv, TypeOK, BaseTypeOK, Base
  <1>1. CASE /\ UNCHANGED <<graphActive, reached>>
             /\ \A b \in Logical : verdict'[b] = verdict[b]
    BY <1>1 DEF PathIsContinuous
  <1>2. ASSUME NEW b \in Alive, AliveTimerCb(b) PROVE PathIsContinuous'
    BY <1>0, <1>1, <1>2 DEF AliveTimerCb, logicalVars
  <1>3. ASSUME NEW b \in Deadline, DeadlineTimerCb(b) PROVE PathIsContinuous'
    BY <1>0, <1>1, <1>3 DEF DeadlineTimerCb, logicalVars
  <1>4. ASSUME NEW g \in Global, GlobalTimerCb(g) PROVE PathIsContinuous'
    BY <1>1, <1>4 DEF GlobalTimerCb, logicalVars
  <1>5. ASSUME NEW f \in Fg, NEW s \in FgState,
               NEW new \in [{p \in Process : FgOf[p] = f} -> 0..MaxPid],
               SwitchSupervisionMode(f, s, new)
        PROVE  PathIsContinuous'
    <2>1. PICK ch : SwitchBases(ch)
      BY <1>5 DEF SwitchSupervisionMode
    <2>2. ASSUME NEW b \in Logical, graphActive'[b], verdict'[b] = "Correct"
          PROVE  graphActive[b] /\ verdict[b] = "Correct" /\ reached'[b] = reached[b]
      BY <1>0, <2>1, <2>2 DEF SwitchBases
    <2> QED BY <2>2 DEF PathIsContinuous
  <1>6. ASSUME NEW g \in RecoveryMapped, NEW on \in BOOLEAN, SetOffer(g, on)
        PROVE  PathIsContinuous'
    BY <1>1, <1>6 DEF SetOffer, logicalVars
  <1>7. CASE UNCHANGED vars
    BY <1>1, <1>7 DEF vars, logicalVars
  <1> HIDE ConfigAssumption
  <1>8. ASSUME NEW cp \in Checkpoint, NEW t \in 0..MaxTime, ReportCheckpoint(cp, t)
        PROVE  PathIsContinuous'
    BY <1>8, ReportPath
  <1> QED
    BY <1>2, <1>3, <1>4, <1>5, <1>6, <1>7, <1>8 DEF Next

\* While a graph is active and judged correct, every checkpoint recorded was
\* reached along the graph, for graphs of any shape and any order of reports.
THEOREM GraphPath == Spec => []PathIsContinuous
  <1>1. Init => PathIsContinuous
    BY DEF Init, PathIsContinuous
  <1> QED BY <1>1, NextPath, CountInvariant, PTL DEF Spec

-----------------------------------------------------------------------------
(***************************************************************************)
(* Part 8.  An expired local is recovered by a mode switch, and only when  *)
(* nothing wrong is left.                                                  *)
(***************************************************************************)
Recovers(l) ==
    LET on == {b \in BasesOf[l] : active'[b]}
    IN /\ localStatus'[l] = IF on = {} THEN "Deactivated" ELSE "OK"
       /\ \A b \in on \cap Timed : verdict'[b] = "Correct"
       /\ failedCycles'[l] = 0

\* LocalSupervision::SwitchSupervisionMode on an expired local.
LEMMA SwitchRecovers ==
    ASSUME CountInv, CountInv', NEW f \in Fg, NEW s \in FgState,
           NEW new \in [{p \in Process : FgOf[p] = f} -> 0..MaxPid],
           SwitchSupervisionMode(f, s, new),
           NEW l \in Local, localStatus[l] = "Expired", localStatus'[l] # "Expired"
    PROVE  Recovers(l)
  <1> USE ConfigAssumption
  <1>1. PICK ls :
          /\ localStatus' = [k \in Local |->
                IF k \in ls THEN LocalSwitch(k).status ELSE localStatus[k]]
          /\ failedCycles' = [k \in Local |->
                IF k \in ls THEN LocalSwitch(k).cycles ELSE failedCycles[k]]
    BY DEF SwitchSupervisionMode
  <1>2. localStatus'[l] = LocalSwitch(l).status /\ failedCycles'[l] = LocalSwitch(l).cycles
    BY <1>1
  <1>3. CASE ~AtLeastOneBaseActive(l)
    BY <1>2, <1>3 DEF LocalSwitch, AtLeastOneBaseActive, Recovers
  <1>4. CASE AtLeastOneBaseActive(l)
    <2>1. ~KeepsStatus(l)
      BY <1>2, <1>4 DEF LocalSwitch
    <2>2. localStatus'[l] = "OK" /\ failedCycles'[l] = 0
      BY <1>2, <1>4, <2>1 DEF LocalSwitch
    <2>3. ASSUME NEW b \in BasesOf[l], b \in Timed, active'[b]
          PROVE  verdict'[b] = "Correct"
      <3>1. verdict'[b] \in Verdicts
        BY DEF CountInv, TypeOK, BaseTypeOK
      <3>2. verdict'[b] # "Incorrect"
        BY <2>1, <2>3 DEF KeepsStatus
      <3> QED BY <3>1, <3>2 DEF Verdicts
    <2> QED BY <1>4, <2>2, <2>3 DEF Recovers, AtLeastOneBaseActive
  <1> QED BY <1>3, <1>4

\* No other step takes a local out of "Expired".
LEMMA OthersKeepExpired ==
    ASSUME CountInv, [Next]_vars,
           NEW l \in Local, localStatus[l] = "Expired", localStatus'[l] # "Expired"
    PROVE  \E f \in Fg, s \in FgState :
             \E new \in [{p \in Process : FgOf[p] = f} -> 0..MaxPid] :
               SwitchSupervisionMode(f, s, new)
  <1>1. ASSUME NEW cp \in Checkpoint, NEW t \in 0..MaxTime, ReportCheckpoint(cp, t)
        PROVE  FALSE
    <2>1. PICK bs : TimedStatusUpdated(bs, cp)
      BY <1>1 DEF ReportCheckpoint
    <2> QED BY <2>1 DEF TimedStatusUpdated
  <1>2. ASSUME NEW b \in Alive, AliveTimerCb(b) PROVE FALSE
    <2>1. PICK correct : AliveStatusUpdated(b, correct)
      BY <1>2 DEF AliveTimerCb
    <2> QED BY <2>1 DEF AliveStatusUpdated, AliveStatus
  <1>3. ASSUME NEW b \in Deadline, DeadlineTimerCb(b) PROVE FALSE
    BY <1>3 DEF DeadlineTimerCb, TimedStatusUpdated
  <1>4. ASSUME NEW g \in Global, GlobalTimerCb(g) PROVE FALSE
    BY <1>4 DEF GlobalTimerCb, localVars
  <1>5. ASSUME NEW g \in RecoveryMapped, NEW on \in BOOLEAN, SetOffer(g, on) PROVE FALSE
    BY <1>5 DEF SetOffer, localVars
  <1>6. CASE UNCHANGED vars
    BY <1>6 DEF vars, localVars
  <1> QED
    BY <1>1, <1>2, <1>3, <1>4, <1>5, <1>6 DEF Next

\* A local leaves "Expired" only with no active deadline or logical supervision
\* incorrect and with its failed cycles back at zero.
THEOREM ExpiredRecovers == Spec => ExpiredIsRecoveredNotForgotten
  <1>1. CountInv /\ CountInv' /\ [Next]_vars =>
          [\A l \in Local : localStatus[l] = "Expired" /\ localStatus'[l] # "Expired" =>
              LET on == {b \in BasesOf[l] : active'[b]}
              IN /\ localStatus'[l] = IF on = {} THEN "Deactivated" ELSE "OK"
                 /\ \A b \in on \cap Timed : verdict'[b] = "Correct"
                 /\ failedCycles'[l] = 0]_vars
    <2> SUFFICES ASSUME CountInv, CountInv', [Next]_vars, NEW l \in Local,
                        localStatus[l] = "Expired", localStatus'[l] # "Expired"
                 PROVE  Recovers(l)
      BY DEF Recovers
    <2> QED BY OthersKeepExpired, SwitchRecovers
  <1> QED
    BY <1>1, CountInvariant, PTL DEF Spec, ExpiredIsRecoveredNotForgotten
=============================================================================
