--------------------------- MODULE PhmSupervision ---------------------------
(***************************************************************************)
(* The supervision manager of phmd (phm/src/phmd/src/supervision_manager). *)
(*                                                                         *)
(* Base supervisions (alive, deadline, logical) judge the checkpoints a    *)
(* process reports; a local supervision turns the verdicts of its base     *)
(* supervisions into OK / Failed / Expired; a global supervision turns the *)
(* statuses of its local supervisions, once per supervision cycle, into    *)
(* OK / Failed / Expired / Stopped, and Stopped starts a recovery.  A      *)
(* function group state change switches the supervision mode: it starts,   *)
(* stops or resets the base supervisions of the processes of the group.    *)
(*                                                                         *)
(* phmd runs on one event loop (GlobalGeneralEvLoop, kUserThread), so each *)
(* checkpoint message, timer expiry and function group notification is one *)
(* atomic step; the order in which they come is arbitrary.  Time itself is *)
(* abstract: a running timer may expire at any moment, and a checkpoint    *)
(* carries any timestamp of the bounded range 0..MaxTime.                  *)
(***************************************************************************)
EXTENDS Integers, FiniteSets

CONSTANTS
    Process, NoProcess,      \* process names; NoProcess is the empty string
    Checkpoint,
    Alive, Deadline, Logical,        \* the base supervisions, by kind
    Local, Global,
    Fg, FgState,             \* function groups and their states
    Off,                     \* the state every group is constructed with
    CpProcess,               \* the process a checkpoint belongs to
    Affiliation,             \* the cluster affiliation a process reports
    BaseProcess,             \* processBaseSupervisionMap_, read backwards
    AliveCp, Source, Target, \* checkpoints of alive and deadline supervisions
    Initial, Final, Transition, \* the graph: Transition has <<cp, upstream cp>>
    Expected, MinMargin, MaxMargin, MinDeadline, MaxDeadline,
    BasesOf, FailedTolerance,   \* of a local supervision
    GlobalOf, ExpiredTolerance, \* of a local; of a global supervision
    FgOf,                    \* the function group a process runs in
    SupervisionMode,         \* the states of a group that have a mode
    RecoveryMapped,          \* globals in the recovery notification mapping
    Word,                    \* 2^32 in the code: margins are uint32_t
    MaxPid, MaxTime, MaxIndications  \* bounds of the model

Base == Alive \cup Deadline \cup Logical

Timed == Deadline \cup Logical  \* the kinds that expire a local at once

CpOf(b) == CASE b \in Alive -> {AliveCp[b]}
             [] b \in Deadline -> {Source[b], Target[b]}
             [] OTHER -> Initial[b] \cup Final[b]
                         \cup UNION {{e[1], e[2]} : e \in Transition[b]}

LocalsOf(g) == {l \in Local : GlobalOf[l] = g}

Affiliations == {"EM", "SM", "Other"}

(***************************************************************************)
(* What the configuration guarantees.  The three kinds are disjoint, every *)
(* base supervision watches checkpoints of one process only, every local   *)
(* reports to one global (RegisterStatusUpdateHandler keeps one handler).  *)
(***************************************************************************)
ASSUME ConfigAssumption ==
    /\ NoProcess \notin Process
    /\ Off \in FgState
    /\ Alive \cap Deadline = {} /\ Alive \cap Logical = {}
    /\ Deadline \cap Logical = {}
    /\ CpProcess \in [Checkpoint -> Process]
    /\ Affiliation \in [Process -> Affiliations]
    /\ BaseProcess \in [Base -> Process]
    /\ AliveCp \in [Alive -> Checkpoint]
    /\ Source \in [Deadline -> Checkpoint] /\ Target \in [Deadline -> Checkpoint]
    /\ Initial \in [Logical -> SUBSET Checkpoint]
    /\ Final \in [Logical -> SUBSET Checkpoint]
    /\ Transition \in [Logical -> SUBSET (Checkpoint \X Checkpoint)]
    /\ Expected \in [Alive -> Nat] /\ MinMargin \in [Alive -> Nat]
    /\ MaxMargin \in [Alive -> Nat]
    /\ MinDeadline \in [Deadline -> Nat] /\ MaxDeadline \in [Deadline -> Nat]
    /\ BasesOf \in [Local -> SUBSET Base] /\ FailedTolerance \in [Local -> Nat]
    /\ GlobalOf \in [Local -> Global] /\ ExpiredTolerance \in [Global -> Nat]
    /\ FgOf \in [Process -> Fg]
    /\ SupervisionMode \in [Fg -> SUBSET FgState]
    /\ RecoveryMapped \subseteq Global
    /\ Word \in Nat \ {0} /\ MaxPid \in Nat /\ MaxTime \in Nat
    /\ MaxIndications \in Nat

ASSUME OneProcessPerBase ==
    \A b \in Base : \A cp \in CpOf(b) : CpProcess[cp] = BaseProcess[b]

ASSUME DistinctDeadlineCheckpoints ==
    \A b \in Deadline : Source[b] # Target[b]

-----------------------------------------------------------------------------
VARIABLES
    active,        \* BaseSupervision::active_
    verdict,       \* BaseSupervision::status_ (Correct / Incorrect)
    indications,   \* AliveSupervision::indications_
    aliveTimer,    \* its periodic timer runs
    sourceReached, sourceTime, \* DeadlineSupervision::sourceCheckpoint...
    deadlineTimer, \* its one-shot timer runs
    graphActive, reached,      \* LogicalSupervision graph and flags
    affil,         \* SupervisionCheckpoint::processClusterAffiliation_
    localStatus, failedCycles,     \* LocalSupervision
    globalStatus, expiredCycles,   \* GlobalSupervision
    globalTimer,
    cause,         \* ...CausedToExpired_: process and affiliation
    offered,       \* GlobalSupervision::offered_
    reaction,      \* what the last supervision cycle of a global started
    pid,           \* FgSupervisionMode::processPidMap_
    fgState        \* FgSupervisionMode::fgState_

aliveVars    == <<indications, aliveTimer>>
deadlineVars == <<sourceReached, sourceTime, deadlineTimer>>
logicalVars  == <<graphActive, reached>>
localVars    == <<localStatus, failedCycles>>
globalVars   == <<globalStatus, expiredCycles, globalTimer>>
modeVars     == <<pid, fgState>>

vars == <<active, verdict, aliveVars, deadlineVars, logicalVars, affil,
          localVars, globalVars, cause, offered, reaction, modeVars>>

Verdicts       == {"Correct", "Incorrect"}
LocalStatuses  == {"Deactivated", "OK", "Failed", "Expired"}
GlobalStatuses == LocalStatuses \cup {"Stopped"}
Reactions      == {"none", "watchdog", "notOffered", "unmapped", "crash",
                   "noMode", "notify"}

Init ==
    /\ active = [b \in Base |-> FALSE]
    /\ verdict = [b \in Base |-> "Correct"]
    /\ indications = [b \in Alive |-> 0]
    /\ aliveTimer = [b \in Alive |-> FALSE]
    /\ sourceReached = [b \in Deadline |-> FALSE]
    /\ sourceTime = [b \in Deadline |-> 0]
    /\ deadlineTimer = [b \in Deadline |-> FALSE]
    /\ graphActive = [b \in Logical |-> FALSE]
    /\ reached = [b \in Logical |-> {}]
    /\ affil = [cp \in Checkpoint |-> "Other"]
    /\ localStatus = [l \in Local |-> "Deactivated"]
    /\ failedCycles = [l \in Local |-> 0]
    /\ globalStatus = [g \in Global |-> "Deactivated"]
    /\ expiredCycles = [g \in Global |-> 0]
    /\ globalTimer = [g \in Global |-> TRUE]
    /\ cause = [g \in Global |-> [process |-> NoProcess, affil |-> "Other"]]
    /\ offered = [g \in Global |-> TRUE]
    /\ reaction = [g \in Global |-> "none"]
    /\ pid = [p \in Process |-> 0]
    /\ fgState = [f \in Fg |-> Off]

-----------------------------------------------------------------------------
(***************************************************************************)
(* From a base verdict to the local supervisions and to the cause stored   *)
(* by the globals.                                                         *)
(***************************************************************************)

\* Seeded fault: the status before the update is tested.
CauseOfOldStatus(ls, p, a) ==
    cause' = [g \in Global |->
                IF \E l \in ls : GlobalOf[l] = g /\ localStatus[l] = "Expired"
                  THEN [process |-> p, affil |-> a]
                  ELSE cause[g]]

\* Seeded fault: the affiliation of a first cause is kept for a second one.
CauseKeepsAffiliation(ls, p, a) ==
    cause' = [g \in Global |->
                IF \E l \in ls : GlobalOf[l] = g /\ localStatus'[l] = "Expired"
                  THEN [process |-> p,
                        affil |-> IF cause[g].affil = "Other" THEN a
                                  ELSE cause[g].affil]
                  ELSE cause[g]]

\* The globals one of whose locals, in the set ls, is now expired by process p.
LocalSupervisionStatusChanged(ls, p, a) ==
    cause' = [g \in Global |->
                IF \E l \in ls : GlobalOf[l] = g /\ localStatus'[l] = "Expired"
                  THEN [process |-> p, affil |-> a]
                  ELSE cause[g]]

\* One verdict of an alive supervision, as one local supervision takes it.
AliveStatus(l, correct) ==
    CASE localStatus[l] = "Expired" -> "Expired"
      [] localStatus[l] \in {"OK", "Deactivated"} ->
            IF correct THEN "OK"
            ELSE IF FailedTolerance[l] = 0 THEN "Expired" ELSE "Failed"
      [] OTHER ->
            IF correct THEN IF failedCycles[l] > 1 THEN "Failed" ELSE "OK"
            ELSE IF failedCycles[l] < FailedTolerance[l] THEN "Failed"
            ELSE "Expired"

\* Seeded fault: a correct cycle is counted in every status.
AliveCyclesUnguarded(l, correct) ==
    CASE correct -> failedCycles[l] - 1
      [] ~correct /\ AliveStatus(l, correct) = "Failed" -> failedCycles[l] + 1
      [] OTHER -> failedCycles[l]

\* Seeded fault: the count is left at one when the local becomes OK.
AliveCyclesKept(l, correct) ==
    CASE localStatus[l] = "Failed" /\ correct /\ failedCycles[l] > 1 ->
            failedCycles[l] - 1
      [] ~correct /\ AliveStatus(l, correct) = "Failed" -> failedCycles[l] + 1
      [] OTHER -> failedCycles[l]

AliveCycles(l, correct) ==
    CASE localStatus[l] = "Expired" -> failedCycles[l]
      [] localStatus[l] = "Failed" /\ correct -> failedCycles[l] - 1
      [] ~correct /\ AliveStatus(l, correct) = "Failed" -> failedCycles[l] + 1
      [] OTHER -> failedCycles[l]

\* _baseSupervisionStatusUpdated for a verdict of the alive supervision b.
AliveStatusUpdated(b, correct) ==
    LET ls == {l \in Local : b \in BasesOf[l]}
    IN /\ localStatus' = [l \in Local |->
              IF l \in ls THEN AliveStatus(l, correct) ELSE localStatus[l]]
       /\ failedCycles' = [l \in Local |->
              IF l \in ls THEN AliveCycles(l, correct) ELSE failedCycles[l]]
       /\ LocalSupervisionStatusChanged(
              {l \in ls : localStatus[l] # "Expired"},
              CpProcess[AliveCp[b]], affil[AliveCp[b]])

\* _baseSupervisionStatusUpdated for the deadline and logical supervisions bs
\* whose verdict was just set; all of them were given the same checkpoint cp.
TimedStatusUpdated(bs, cp) ==
    LET ls == {l \in Local : /\ localStatus[l] # "Expired"
                             /\ BasesOf[l] \cap bs # {}}
    IN /\ localStatus' = [l \in Local |->
              IF l \in ls /\ \E b \in BasesOf[l] \cap bs : verdict'[b] = "Incorrect"
                THEN "Expired" ELSE localStatus[l]]
       /\ LocalSupervisionStatusChanged(ls, CpProcess[cp], affil'[cp])
       /\ UNCHANGED failedCycles

-----------------------------------------------------------------------------
(***************************************************************************)
(* Checkpoints.  Deadline and logical supervisions judge a checkpoint      *)
(* whether they are active or not; alive supervisions count it only while  *)
(* they are active.                                                        *)
(***************************************************************************)
InTime(b, t) == /\ t - sourceTime[b] >= MinDeadline[b]
                /\ t - sourceTime[b] <= MaxDeadline[b]

DeadlineVerdict(b, cp, t) ==
    CASE cp = Source[b] -> IF sourceReached[b] THEN "Incorrect" ELSE "Correct"
      [] OTHER -> IF ~sourceReached[b] THEN verdict[b]
                  ELSE IF InTime(b, t) THEN "Correct" ELSE "Incorrect"

\* A target before its source is ignored: the local supervision is not told.
DeadlineTells(b, cp) == cp = Source[b] \/ sourceReached[b]

\* Seeded fault: one upstream checkpoint is enough.
GraphIsConnected(b, cp) ==
    \E e \in Transition[b] : e[1] = cp /\ e[2] \in reached[b]

GraphIsContinuous(b, cp) ==
    /\ \E e \in Transition[b] : e[1] = cp
    /\ \A e \in Transition[b] : e[1] = cp => e[2] \in reached[b]

LogicalVerdict(b, cp) ==
    IF graphActive[b]
      THEN IF verdict[b] = "Correct" /\ GraphIsContinuous(b, cp)
             THEN "Correct" ELSE "Incorrect"
      ELSE IF cp \in Initial[b] THEN "Correct" ELSE "Incorrect"

\* The graph opens at an initial checkpoint and closes at a final one (an
\* initial checkpoint is never also seen as final: the order of the branches).
GraphActive(b, cp) ==
    /\ graphActive[b] \/ cp \in Initial[b]
    /\ ~ /\ LogicalVerdict(b, cp) = "Correct"
         /\ cp \in Final[b] \ Initial[b]

Reached(b, cp) ==
    {cp} \cup (IF ~graphActive[b] /\ cp \in Initial[b] THEN {} ELSE reached[b])

\* _supervisionComServerHandler, kReportCheckpoint: the checkpoint is given to
\* every base supervision that references it, under supervisionModeLock_.
ReportCheckpoint(cp, t) ==
    LET al == {b \in Alive : AliveCp[b] = cp}
        dl == {b \in Deadline : cp \in {Source[b], Target[b]}}
        lg == {b \in Logical : cp \in CpOf(b)}
    IN
    /\ al \cup dl \cup lg # {}
    /\ \A b \in al : indications[b] < MaxIndications
    /\ affil' = [affil EXCEPT ![cp] = Affiliation[CpProcess[cp]]]
    /\ indications' = [b \in Alive |->
           IF b \in al /\ active[b] THEN indications[b] + 1 ELSE indications[b]]
    /\ verdict' = [b \in Base |->
           CASE b \in dl -> DeadlineVerdict(b, cp, t)
             [] b \in lg -> LogicalVerdict(b, cp)
             [] OTHER -> verdict[b]]
    /\ deadlineTimer' = [b \in Deadline |->
           IF b \notin dl THEN deadlineTimer[b]
           ELSE cp = Source[b] /\ (sourceReached[b] => deadlineTimer[b])]
    /\ sourceReached' = [b \in Deadline |->
           IF b \in dl THEN cp = Source[b] ELSE sourceReached[b]]
    /\ sourceTime' = [b \in Deadline |->
           IF b \notin dl \/ ~DeadlineTells(b, cp) THEN sourceTime[b]
           ELSE IF cp = Source[b] THEN t ELSE 0]
    /\ graphActive' = [b \in Logical |->
           IF b \in lg THEN GraphActive(b, cp) ELSE graphActive[b]]
    /\ reached' = [b \in Logical |->
           IF b \in lg THEN Reached(b, cp) ELSE reached[b]]
    /\ TimedStatusUpdated({b \in dl : DeadlineTells(b, cp)} \cup lg, cp)
    /\ UNCHANGED <<active, aliveTimer, globalVars, offered, reaction, modeVars>>

-----------------------------------------------------------------------------
(***************************************************************************)
(* Timers.                                                                 *)
(***************************************************************************)

\* Seeded fault: only too many indications are an error.
BelowMaxMargin(b, n) == n <= (Expected[b] + MaxMargin[b]) % Word

\* kExpectedAliveIndications - kMinMargin and + kMaxMargin are uint32_t.
WithinMargin(b, n) == /\ n >= (Expected[b] - MinMargin[b]) % Word
                      /\ n <= (Expected[b] + MaxMargin[b]) % Word

\* AliveSupervision::_supervisionTimerCb, at the end of an alive cycle.
AliveTimerCb(b) ==
    LET correct == WithinMargin(b, indications[b])
    IN /\ aliveTimer[b]
       /\ indications' = [indications EXCEPT ![b] = 0]
       /\ verdict' = [verdict EXCEPT ![b] = IF correct THEN "Correct" ELSE "Incorrect"]
       /\ AliveStatusUpdated(b, correct)
       /\ UNCHANGED <<active, aliveTimer, deadlineVars, logicalVars, affil,
                      globalVars, offered, reaction, modeVars>>

\* Seeded fault: the flag of the source checkpoint is not reset.
ResetTimeStampOnly(b) ==
    /\ sourceTime' = [sourceTime EXCEPT ![b] = 0]
    /\ UNCHANGED sourceReached

\* DeadlineSupervision::ResetStatistics.
ResetStatistics(b) ==
    /\ sourceReached' = [sourceReached EXCEPT ![b] = FALSE]
    /\ sourceTime' = [sourceTime EXCEPT ![b] = 0]

\* DeadlineSupervision::_supervisionTimerCb: the target did not come in time.
\* The last checkpoint is the source: a target would have stopped the timer.
DeadlineTimerCb(b) ==
    /\ deadlineTimer[b]
    /\ verdict' = [verdict EXCEPT ![b] = "Incorrect"]
    /\ ResetStatistics(b)
    /\ deadlineTimer' = [deadlineTimer EXCEPT ![b] = FALSE]
    /\ UNCHANGED affil
    /\ TimedStatusUpdated({b}, Source[b])
    /\ UNCHANGED <<active, aliveVars, logicalVars, globalVars, offered,
                   reaction, modeVars>>

SomeLocal(g, s) == \E l \in LocalsOf(g) : localStatus[l] = s

AllDeactivated(g) == \A l \in LocalsOf(g) : localStatus[l] = "Deactivated"

SetGlobal(g, s, n) ==
    /\ globalStatus' = [globalStatus EXCEPT ![g] = s]
    /\ expiredCycles' = [expiredCycles EXCEPT ![g] = n]

\* Seeded fault: one cycle too many is tolerated.
ToleratedOnceMore(g) == expiredCycles[g] <= ExpiredTolerance[g]

Tolerated(g) == expiredCycles[g] < ExpiredTolerance[g]

ToleranceUsedUp(g) == expiredCycles[g] = ExpiredTolerance[g]

\* GlobalSupervision::_determineStatus.
DetermineStatus(g) ==
    \/ /\ AllDeactivated(g)
       /\ SetGlobal(g, "Deactivated", 0)
    \/ /\ ~AllDeactivated(g) /\ globalStatus[g] \in {"OK", "Failed"}
       /\ \/ /\ ~SomeLocal(g, "Expired")
             /\ SetGlobal(g, IF SomeLocal(g, "Failed") THEN "Failed" ELSE "OK",
                          expiredCycles[g])
          \/ /\ SomeLocal(g, "Expired") /\ ExpiredTolerance[g] > 0
             /\ SetGlobal(g, "Expired", expiredCycles[g] + 1)
          \/ /\ SomeLocal(g, "Expired") /\ ExpiredTolerance[g] = 0
             /\ SetGlobal(g, "Stopped", expiredCycles[g])
    \/ /\ ~AllDeactivated(g) /\ globalStatus[g] = "Expired"
       /\ \/ /\ SomeLocal(g, "Expired") /\ Tolerated(g)
             /\ SetGlobal(g, "Expired", expiredCycles[g] + 1)
          \/ /\ SomeLocal(g, "Expired") /\ ToleranceUsedUp(g)
             /\ SetGlobal(g, "Stopped", expiredCycles[g])
          \/ /\ SomeLocal(g, "Expired") => ~Tolerated(g) /\ ~ToleranceUsedUp(g)
             /\ UNCHANGED <<globalStatus, expiredCycles>>
    \/ /\ ~AllDeactivated(g) /\ globalStatus[g] \in {"Stopped", "Deactivated"}
       /\ UNCHANGED <<globalStatus, expiredCycles>>

\* _globalSupervisionStatusChanged: how a stopped global is recovered.  The
\* code dereferences the supervision mode of the causing process unchecked.
Recovery(g) ==
    LET p == cause[g].process
    IN CASE cause[g].affil \in {"EM", "SM"} -> "watchdog"
         [] ~offered[g] -> "notOffered"
         [] g \notin RecoveryMapped -> "unmapped"
         [] p \notin Process -> "crash"
         [] fgState[FgOf[p]] \notin SupervisionMode[FgOf[p]] -> "noMode"
         [] OTHER -> "notify"

\* GlobalSupervision::_supervisionTimerCb, once per supervision cycle.
GlobalTimerCb(g) ==
    /\ globalTimer[g]
    /\ DetermineStatus(g)
    /\ reaction' = [reaction EXCEPT ![g] =
           IF globalStatus'[g] = "Stopped" THEN Recovery(g) ELSE "none"]
    /\ UNCHANGED <<active, verdict, aliveVars, deadlineVars, logicalVars, affil,
                   localVars, globalTimer, cause, offered, modeVars>>

-----------------------------------------------------------------------------
(***************************************************************************)
(* Supervision mode switch.  FindByName answers any pid, or none (0).      *)
(***************************************************************************)

\* Seeded fault: a restarted process counts as stopped.
StateChangeNoRestart(old, new) ==
    CASE old = 0 /\ new > 0 -> "IdleToRunning"
      [] old > 0 /\ old # new -> "RunningToIdle"
      [] old > 0 /\ old = new -> "KeepRunning"
      [] OTHER -> "Invalid"

\* FgSupervisionMode::UpdateProcessPidAndStateChange.
StateChange(old, new) ==
    CASE old = 0 /\ new > 0 -> "IdleToRunning"
      [] old > 0 /\ new = 0 -> "RunningToIdle"
      [] old > 0 /\ new > 0 /\ old # new -> "Restart"
      [] old > 0 /\ old = new -> "KeepRunning"
      [] OTHER -> "Invalid"

\* _switchBaseSupervisionMode for all base supervisions; ch[b] is the change
\* of the process of b, "Invalid" when its group is not the switched one.
SwitchBases(ch) ==
    LET reset == {b \in Base : ch[b] \in {"RunningToIdle", "Restart"}}
        start == {b \in Base : ch[b] \in {"IdleToRunning", "Restart"}}
        stop  == {b \in Base : ch[b] = "RunningToIdle"}
    IN /\ active' = [b \in Base |-> b \in start \/ (active[b] /\ b \notin stop)]
       /\ verdict' = [b \in Base |-> IF b \in reset THEN "Correct" ELSE verdict[b]]
       /\ indications' = [b \in Alive |-> IF b \in reset THEN 0 ELSE indications[b]]
       /\ aliveTimer' = [b \in Alive |->
              b \in start \/ (aliveTimer[b] /\ b \notin stop)]
       /\ sourceReached' = [b \in Deadline |-> sourceReached[b] /\ b \notin reset]
       /\ sourceTime' = [b \in Deadline |-> IF b \in reset THEN 0 ELSE sourceTime[b]]
       /\ deadlineTimer' = [b \in Deadline |-> deadlineTimer[b] /\ b \notin reset]
       /\ graphActive' = [b \in Logical |-> graphActive[b] /\ b \notin reset]
       /\ reached' = [b \in Logical |-> IF b \in reset THEN {} ELSE reached[b]]

\* Seeded fault: all the base supervisions of a local must be active.
AllBasesActive(l) == \A b \in BasesOf[l] : active'[b]

AtLeastOneBaseActive(l) == \E b \in BasesOf[l] : active'[b]

\* Seeded fault: deadline and logical supervisions are not asked.
KeepsStatusOfAlive(l) ==
    /\ \E b \in BasesOf[l] \cap Alive : active'[b] /\ verdict'[b] = "Incorrect"
    /\ \/ localStatus[l] = "Failed"
       \/ localStatus[l] = "Expired" /\ failedCycles[l] >= FailedTolerance[l]

\* A failed or expired local that the bases, as switched, keep in its status.
KeepsStatus(l) ==
    LET wrong == {b \in BasesOf[l] : active'[b] /\ verdict'[b] = "Incorrect"}
    IN \/ localStatus[l] = "Failed" /\ wrong \cap Alive # {}
       \/ /\ localStatus[l] = "Expired"
          /\ \/ wrong \cap Timed # {}
             \/ wrong \cap Alive # {} /\ failedCycles[l] >= FailedTolerance[l]

\* LocalSupervision::SwitchSupervisionMode, after the bases were switched.
LocalSwitch(l) ==
    IF ~AtLeastOneBaseActive(l) THEN [status |-> "Deactivated", cycles |-> 0]
    ELSE IF KeepsStatus(l)
      THEN [status |-> localStatus[l], cycles |-> failedCycles[l]]
    ELSE [status |-> "OK",
          cycles |-> IF localStatus[l] \in {"Failed", "Expired"}
                       THEN 0 ELSE failedCycles[l]]

\* GlobalSupervision::SwitchSupervisionMode, after the locals were switched.
\* The loop sets "at least one is failed" when a local is NOT failed, and
\* "at least one is expired" when a local is NOT expired.
GlobalSwitch(g) ==
    LET on == \E l \in LocalsOf(g) : localStatus'[l] # "Deactivated"
        atLeastOneFailed  == \E l \in LocalsOf(g) : localStatus'[l] # "Failed"
        atLeastOneExpired == \E l \in LocalsOf(g) : localStatus'[l] # "Expired"
        same == [status |-> globalStatus[g], cycles |-> expiredCycles[g],
                 timer |-> globalTimer[g]]
    IN CASE ~on -> [status |-> "Deactivated", cycles |-> 0, timer |-> FALSE]
         [] on /\ globalStatus[g] = "Deactivated" ->
                [same EXCEPT !.status = "OK", !.timer = TRUE]
         [] on /\ globalStatus[g] = "Failed" /\ ~atLeastOneFailed ->
                [same EXCEPT !.status = "OK", !.cycles = 0]
         [] on /\ globalStatus[g] = "Expired" /\ ~atLeastOneExpired ->
                [same EXCEPT !.status = "OK", !.cycles = 0]
         [] OTHER -> same

\* _switchSupervisionMode: function group f reached state s; new[p] is the pid
\* FindByName returned for process p of the group.
SwitchSupervisionMode(f, s, new) ==
    LET ch == [b \in Base |-> IF FgOf[BaseProcess[b]] = f
                 THEN StateChange(pid[BaseProcess[b]], new[BaseProcess[b]])
                 ELSE "Invalid"]
        ls == {l \in Local : \E b \in BasesOf[l] : ch[b] # "Invalid"}
        gs == {GlobalOf[l] : l \in ls}
    IN /\ SwitchBases(ch)
       /\ localStatus' = [l \in Local |->
              IF l \in ls THEN LocalSwitch(l).status ELSE localStatus[l]]
       /\ failedCycles' = [l \in Local |->
              IF l \in ls THEN LocalSwitch(l).cycles ELSE failedCycles[l]]
       /\ globalStatus' = [g \in Global |->
              IF g \in gs THEN GlobalSwitch(g).status ELSE globalStatus[g]]
       /\ expiredCycles' = [g \in Global |->
              IF g \in gs THEN GlobalSwitch(g).cycles ELSE expiredCycles[g]]
       /\ globalTimer' = [g \in Global |->
              IF g \in gs THEN GlobalSwitch(g).timer ELSE globalTimer[g]]
       /\ pid' = [p \in Process |-> IF FgOf[p] = f THEN new[p] ELSE pid[p]]
       /\ fgState' = [fgState EXCEPT ![f] = s]
       /\ UNCHANGED <<affil, cause, offered, reaction>>

\* _recoveryActionExtServerHandler: SM offers, or stops offering, a recovery.
SetOffer(g, on) ==
    /\ offered' = [offered EXCEPT ![g] = on]
    /\ UNCHANGED <<active, verdict, aliveVars, deadlineVars, logicalVars, affil,
                   localVars, globalVars, cause, reaction, modeVars>>

Next ==
    \/ \E cp \in Checkpoint, t \in 0..MaxTime : ReportCheckpoint(cp, t)
    \/ \E b \in Alive : AliveTimerCb(b)
    \/ \E b \in Deadline : DeadlineTimerCb(b)
    \/ \E g \in Global : GlobalTimerCb(g)
    \/ \E f \in Fg, s \in FgState :
          \E new \in [{p \in Process : FgOf[p] = f} -> 0..MaxPid] :
            SwitchSupervisionMode(f, s, new)
    \/ \E g \in RecoveryMapped, on \in BOOLEAN : SetOffer(g, on)

Spec == Init /\ [][Next]_vars

\* The event loop serves its timers: an armed timer eventually expires.
Fairness ==
    /\ \A b \in Alive : WF_vars(AliveTimerCb(b))
    /\ \A b \in Deadline : WF_vars(DeadlineTimerCb(b))
    /\ \A g \in Global : WF_vars(GlobalTimerCb(g))

FairSpec == Spec /\ Fairness

-----------------------------------------------------------------------------
(***************************************************************************)
(* Properties.                                                             *)
(***************************************************************************)
BaseTypeOK ==
    /\ active \in [Base -> BOOLEAN]
    /\ verdict \in [Base -> Verdicts]

AliveTypeOK ==
    /\ indications \in [Alive -> 0..MaxIndications]
    /\ aliveTimer \in [Alive -> BOOLEAN]

DeadlineTypeOK ==
    /\ sourceReached \in [Deadline -> BOOLEAN]
    /\ sourceTime \in [Deadline -> 0..MaxTime]
    /\ deadlineTimer \in [Deadline -> BOOLEAN]

LogicalTypeOK ==
    /\ graphActive \in [Logical -> BOOLEAN]
    /\ reached \in [Logical -> SUBSET Checkpoint]

LocalTypeOK ==
    /\ localStatus \in [Local -> LocalStatuses]
    /\ failedCycles \in [Local -> Nat]

GlobalTypeOK ==
    /\ globalStatus \in [Global -> GlobalStatuses]
    /\ expiredCycles \in [Global -> Nat]
    /\ globalTimer \in [Global -> BOOLEAN]

CauseTypeOK ==
    /\ affil \in [Checkpoint -> Affiliations]
    /\ cause \in [Global -> [process : Process \cup {NoProcess},
                             affil : Affiliations]]

ModeTypeOK ==
    /\ offered \in [Global -> BOOLEAN]
    /\ reaction \in [Global -> Reactions]
    /\ pid \in [Process -> 0..MaxPid]
    /\ fgState \in [Fg -> FgState]

\* The types of all variables; in particular the unsigned counter of failed
\* reference cycles is never decremented below zero.
TypeOK ==
    /\ BaseTypeOK /\ AliveTypeOK /\ DeadlineTypeOK /\ LogicalTypeOK
    /\ LocalTypeOK /\ GlobalTypeOK /\ CauseTypeOK /\ ModeTypeOK

\* No running process goes unwatched: while a base supervision is active, its
\* locals are activated, their globals too, and the cycle timer of the globals
\* runs, so a failure is bound to be seen by _supervisionTimerCb.
ActiveBaseIsMonitored ==
    \A l \in Local : (\E b \in BasesOf[l] : active[b]) =>
        /\ localStatus[l] # "Deactivated"
        /\ globalStatus[GlobalOf[l]] # "Deactivated"
        /\ globalTimer[GlobalOf[l]]

\* Supervision follows the process: after any sequence of starts, restarts and
\* stops, a base supervision is active exactly when its process was last seen
\* with a pid, and the alive cycle timer runs exactly then.
SupervisedIffRunning ==
    /\ \A b \in Base : active[b] <=> pid[BaseProcess[b]] > 0
    /\ \A b \in Alive : aliveTimer[b] <=> active[b]

\* failedSupervisionReferenceCycles_ never wraps below zero nor passes the
\* tolerance, and is zero whenever the local is OK or deactivated, so a new
\* failure is always counted from the beginning.
FailedCyclesAccounting ==
    \A l \in Local :
        /\ localStatus[l] \in {"OK", "Deactivated"} => failedCycles[l] = 0
        /\ localStatus[l] = "Failed" => failedCycles[l] >= 1
        /\ failedCycles[l] \in 0..FailedTolerance[l]

\* expiredSupervisionCycle_ never passes the tolerance, so the test with ==
\* that stops a global cannot be jumped over; a global is stopped only with
\* its whole tolerance used up, and starts from zero whenever it is not
\* expired ("Do not clear the timeout count" forgets nothing).
ExpiredCyclesAccounting ==
    \A g \in Global :
        /\ globalStatus[g] \in {"Deactivated", "OK", "Failed"} => expiredCycles[g] = 0
        /\ globalStatus[g] = "Expired" => expiredCycles[g] \in 1..ExpiredTolerance[g]
        /\ globalStatus[g] = "Stopped" => expiredCycles[g] = ExpiredTolerance[g]

\* A stopped global always knows the process to blame, so that
\* processSupervisionModeMap_[processName] is never dereferenced for the
\* empty name the constructor stores.
StoppedHasCause ==
    \A g \in Global : /\ globalStatus[g] = "Stopped" => cause[g].process \in Process
                      /\ reaction[g] # "crash"

\* The deadline timer runs exactly while a source checkpoint waits for its
\* target: the branch of ProcessCheckpoint for a timer that already runs,
\* which the code calls unreasonable, is dead.
DeadlineTimerIffPending ==
    \A b \in Deadline : deadlineTimer[b] <=> sourceReached[b]

\* While a graph is active and judged correct, every checkpoint recorded was
\* reached along the graph: it is initial, or all its upstream checkpoints
\* have been reached too, whatever mode switches came in between.
PathIsContinuous ==
    \A b \in Logical : graphActive[b] /\ verdict[b] = "Correct" =>
        /\ reached[b] \cap Initial[b] # {}
        /\ \A cp \in reached[b] \ Initial[b] :
              \A e \in Transition[b] : e[1] = cp => e[2] \in reached[b]

\* The hardware watchdog, which resets the machine, is fired only for a process
\* of the EM or SM cluster: the affiliation a global acts on is the one of the
\* process it blames, even when several processes fail between two cycles.
WatchdogOnlyForCluster ==
    [][\A g \in Global :
          reaction[g] = "none" /\ reaction'[g] = "watchdog"
            => Affiliation[cause[g].process] \in {"EM", "SM"}]_vars

\* A local that expired comes back to OK only by a mode switch that left it no
\* incorrect deadline or logical supervision and less than the tolerated
\* number of alive failures; what was expired is never simply forgotten.
ExpiredIsRecoveredNotForgotten ==
    [][\A l \in Local : localStatus[l] = "Expired" /\ localStatus'[l] # "Expired" =>
          LET on == {b \in BasesOf[l] : active'[b]}
          IN /\ localStatus'[l] = IF on = {} THEN "Deactivated" ELSE "OK"
             /\ \A b \in on \cap Timed : verdict'[b] = "Correct"
             /\ failedCycles'[l] = 0]_vars

Switches == \E f \in Fg, s \in FgState :
              \E new \in [{p \in Process : FgOf[p] = f} -> 0..MaxPid] :
                SwitchSupervisionMode(f, s, new)

\* Once the modes stay as they are, a local that is expired stops its global:
\* the tolerance and the other locals only delay the recovery.  A local leaves
\* "Expired" in a mode switch only; it may also be expired while its global is
\* "Deactivated", since an inactive deadline or logical supervision judges too,
\* and the cycle of such a global does nothing.
ExpiredLeadsToStopped ==
    <>[][~Switches]_vars =>
      \A l \in Local : localStatus[l] = "Expired" ~>
          \/ globalStatus[GlobalOf[l]] \in {"Stopped", "Deactivated"}
          \/ localStatus[l] # "Expired"

\* A supervised process that falls silent is always noticed: its alive
\* supervision fails cycle after cycle until the global is stopped for good
\* and every cycle asks for the recovery.
SilentProcessIsStopped ==
    \A b \in Alive : \A l \in {k \in Local : BasesOf[k] = {b}} :
      /\ <>[]active[b]
      /\ <>[][/\ ~Switches
              /\ \A t \in 0..MaxTime : ~ReportCheckpoint(AliveCp[b], t)]_vars
      => <>[](/\ globalStatus[GlobalOf[l]] = "Stopped"
              /\ reaction[GlobalOf[l]] # "none")

\* A source checkpoint does not wait for ever: its target or the deadline
\* timer ends the wait, however often the source is reported again.
PendingDeadlineIsJudged ==
    \A b \in Deadline : sourceReached[b] ~> ~sourceReached[b]

-----------------------------------------------------------------------------
(***************************************************************************)
(* What the documentation of the status enumerations says, and the code    *)
(* does not keep (phm_client/include/ara/phm/supervised_entity.h).         *)
(***************************************************************************)

\* kExpired of a local: "Local supervision is activated and ...": some base
\* supervision it references is active.
ExpiredLocalIsActivated ==
    \A l \in Local : localStatus[l] = "Expired" => \E b \in BasesOf[l] : active[b]

\* kOK of a local: "all base supervisions it referenced is CORRECT".
OkLocalHasNoIncorrectBase ==
    \A l \in Local : localStatus[l] = "OK" =>
        \A b \in BasesOf[l] : active[b] => verdict[b] = "Correct"

\* kExpired of a global: "At least One local supervision is kExpired".
ExpiredGlobalHasExpiredLocal ==
    \A g \in Global : globalStatus[g] = "Expired" => SomeLocal(g, "Expired")
=============================================================================
