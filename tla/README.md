# TLA+ models of the CAPI adaptive platform

CAPI is an implementation of the AUTOSAR Adaptive Platform: a set of daemons
and client libraries (execution, state, health, network, update management,
communication, diagnostics and more), written in C++ on a common event loop
(`isoft/naicpp`) and a common IPC library (`isoft/ipc`).  There are hardly any
unit tests in the repository, and what is hard in it (orders of events that
come over different channels, timers racing messages, restarts) is hard to
test.  This directory holds the specifications kept beside the code: TLA+
modules, TLC configurations, and proofs checked by TLAPS.

The first part covered is platform health management (`phm`): it decides when a
process has failed, asks state management to recover it and, as a last resort,
resets the machine through the hardware watchdog.  It is the part where a wrong
order of events is the most expensive.  The second is the state machine of an
Ethernet connector in network management (`nm`), which is made of timers that
race each other, requests and messages.  The third is the execution manager
(`exec`): starting and ending processes while they crash, hang and report late.
The fourth is the package manager of update and configuration management
(`ucm`), which may lose power between any two writes, together with the choice
`ara-loader` makes at boot between the old and the new software.

## 1. Inventory

| component | state it keeps | operations | interacts with | what is hard |
|---|---|---|---|---|
| phm base supervisions | active flag, verdict, indications, source flag and time, graph flags, timers | checkpoint, timer expiry, start, stop, reset | local supervisions (callback) | checkpoints and function group notifications are not ordered |
| phm local supervision | status, failed cycles | base verdict, mode switch | bases, global (callback) | one counter for several alive supervisions |
| phm global supervision | status, expired cycles, cause, offered, timer | supervision cycle, mode switch, offer | controller (callback) | three layers of timers; stale cause |
| phm controller | pids and state of function groups | checkpoint message, function group notification, offer | exec (FindByName, notifications), sm | sequences of start, restart, stop across groups |
| phm recovery (racom, hcacom) | pending notifications, retry counts; offers | notify, answer, timeout, handle, offer, stop offer | sm over IPC sessions | late answers, retries, partial failure |
| phm watchdog | feed timer, triggered flag | feed, timeout, trigger | hardware | two triggers, one feed timer |
| nm Ethernet connector | state, request count, requested partial networks, burst counter, seven timers, detection, ages of passive requests | request, release, detect nodes, received NM message, wakeup line, forced state, message control, timer expiry | partial and logical networks, other nodes, management interface (IPC) | timers left over from an earlier state; timers that must expire in a certain order |
| nm partial and logical networks | request counts, state of each network | request, release | connectors, sm | request counts in three layers that a forced state clears in one |
| exec (emd) | per process: state, configuration, cause of its end, restarts, timers; per group: current and next state, lists of the transition | state request, process start, report, exit, timeouts, signals | sm, phm, the operating system | process exits racing state changes; transitions cancelled half way |
| exec (ara-loader) | none; reads the boot option files | choose a file, start emd, fall back | ucm (files), emd | the new software does not come up |
| sm | state machines, action lists | trigger, error, completion | exec, phm, nm | overlapping transitions |
| ucm (pkgmgr) | package manager state, actions, last used file ids, all persisted or found again; A/B files | transfer, process, activate, verify, rollback, finish, revert | exec, sm, ara-loader, storage | crash between two persisted steps; restarts it asks for itself |
| com, npc, nsomeip, e2e | services, events, subscriptions, counters | offer, find, subscribe, send | network, shared memory | service discovery, lost messages |
| per | key-value pages, files, redundancy | sync, recover, update | file system | crash in the middle of a sync |
| diag, tsync, log, crypto, iam, idsm, fw, core, generators | | | | not in the plan (section 8) |

`PROJECT.json` lists every component with its sources and status, and under
`hazards` what is hard to test, each at its line.

## 2. Modules

| module | what it is |
|---|---|
| `PhmSupervision` | the supervision manager of phmd |
| `PhmRecovery` | recovery notification between phmd and SM, and the watchdog |
| `PhmSupervisionProofs` | types and the failed-cycle counter, proved |
| `PhmMonitoringProofs` | the other invariants of `PhmSupervision`, proved from these |
| `PhmRecoveryProofs` | the invariants of `PhmRecovery`, proved |
| `MCPhmAlive`, `MCPhmDeadline`, `MCPhmLogical` | instances of `PhmSupervision` |
| `MCPhmRecovery` | instance of `PhmRecovery` |
| `NmEther` | the UDP network management of one Ethernet connector |
| `NmEtherProofs` | the invariants of `NmEther`, proved |
| `MCNmEther` | instance of `NmEther` |
| `ExecTransition` | abstract: what SM may rely on when it changes the state of a function group |
| `ExecFunctionGroup` | a function group of emd with its processes; implements `ExecTransition` |
| `ExecFunctionGroupProofs` | its invariants, its shutdown order and the refinement, proved |
| `MCExec` | instances: an application group, and the machine function group |
| `UcmPackageManager` | the package manager, its files, restarts and ara-loader's choice |
| `UcmPackageManagerProofs` | its state, threads and status file: what a restart may find, proved |
| `UcmUpdateProofs` | its A and B files: the other invariants of `UcmPackageManager`, proved from these |
| `MCUcm` | instance of `UcmPackageManager` |

Definitions whose comment starts with "Seeded fault" are mutated forms of the
operator that follows them.  They are not part of the specification; each shows
that a property really depends on that operator (`mutants` in `PROJECT.json`).

### PhmSupervision

phmd runs all its handlers on one event loop thread (`main.cpp`,
`GlobalGeneralEvLoop` with `kUserThread`), so a handler is one atomic action.
Concurrency is in the order of the events: checkpoints come from the
supervised processes, function group notifications from emd, offers from SM,
each over an IPC channel of its own, and timers expire in between.  The model
therefore allows every order.

| action | code |
|---|---|
| `ReportCheckpoint(cp, t)` | `_supervisionComServerHandler`, all `ProcessCheckpoint` it calls, and the callbacks of these into local and global supervisions |
| `AliveTimerCb(b)` | `AliveSupervision::_supervisionTimerCb` with the callbacks |
| `DeadlineTimerCb(b)` | `DeadlineSupervision::_supervisionTimerCb` with the callbacks |
| `GlobalTimerCb(g)` | `GlobalSupervision::_supervisionTimerCb`, `_determineStatus`, and `_globalSupervisionStatusChanged` up to the notification |
| `SwitchSupervisionMode(f, s, new)` | `_switchSupervisionMode`: bases, then locals, then globals; `new` is what `FindByName` answers |
| `SetOffer(g, on)` | `_recoveryActionExtServerHandler` |

The data is abstract: names are members of small sets, the manifest is a set of
constants (which checkpoint belongs to which supervision, tolerances, margins),
a checkpoint carries any timestamp in `0..MaxTime`, and a running timer may
expire at any moment.  The local supervision of the model is told once about
all deadline and logical supervisions that reference a checkpoint, which is what
the loop of the code amounts to, since it is expired by the first wrong one and
ignores the others.  The uint32 margins are computed modulo `Word`.

`reaction` records how the last cycle of a stopped global ended, one value per
branch of `_globalSupervisionStatusChanged`; "crash" is the dereference of a
null supervision mode.

### PhmRecovery

The client in phmd (`racom::Client`; `hcacom::Client`, for health channels, is
the same protocol), the IPC sessions, the server in SM and the application
thread that calls `Offer` and `StopOffer`, which the IPC thread of SM can
overtake between two steps.  Requests and answers are sets: they may be
delivered late, in any order, or be lost; a session ends once, by its answer or
by its timeout (`ipc_runtime_on_timeout` removes it from the table), and an
answer to a session that has ended is dropped.  The watchdog is fed by one
timer and checked by another on the same loop; `FeedIsLate` says that more than
a watchdog timeout passed without a feed, because the feed timer is stopped or,
with `LoopMayStall`, because the loop was blocked for nineteen twentieths of the
timeout.  With `RequestMayFail` the serialiser or the packet pool may fail in a
retry.  The run has both; the theorems hold with and without them.  The branch
of `_responseCallBack` for an answer without a buffer is left out: the server
puts a result into every answer.

### NmEther

`NMEtherStateMachine` of nmd.  As in phmd all handlers run on one loop, so each
is an action; the concurrency is between the calls of logical and partial
networks, the messages of other nodes, the management interface and seven
timers.

| action | code |
|---|---|
| `RequestNetwork(e, pns)`, `ReleaseNetwork(e, pns)` | the methods of that name, for a logical network (`e`) and at most one partial network |
| `RequestDetectNode` | the method, and the IPC handler that does the same |
| `RecvNmMessage(n, bit, pns)` | the method, with `_checkPassivePnRequest` |
| `NotifyWakeup` | the method, with `_wakeupCallToRepeateMessage` |
| `SetEtherStateMachineSate(s)` | the method (spelled as in the code) and the five `_force...` it selects from |
| `SetMessageCtrlType(c)` | the method |
| `RepeateMessageTimerCalled` ... `PassivePnCheckTimerCalled` | one per timer callback |
| `Tick` | time: allowed when no timer is due |

Time is discrete, because here durations are compared: a timer holds the ticks
it has left, a timer that is due runs its callback before the next tick, and
those that are due together run in any order.  A timer that was reset and one
that has expired are both `Off`, since no handler tells them apart.  The five
ways into RepeatMessage are copies of each other in the code that differ in
which timers they reset and in when they send a burst; `ToRepeateMessage` has
what they share and its parameters what they do not.  `modeType_` follows from
`stateType_`.  A wait-bus-sleep time of zero runs its callback while the timer
is made (`NmMakeTimer`), so PrepareBusSleep is then never seen.  Sending a
message may fail, and fails when it is disabled; only its effect on the network
timer is kept.  `CheckEtherTimerConfig` is what `_checketherTimerConfig`
accepts, and the only assumption on the durations; a connector for which that
check is skipped is not covered.  `ForcedStates` are the states that the
management interface sets; properties that do not survive a forced state are
checked and proved for the others.

### ExecFunctionGroup and ExecTransition

emd is one event loop, so a handler is one action; what runs beside it is the
operating system and the children.

| action | code |
|---|---|
| `SetState(s)` | `_StateClientSetStateHandler` and the cancelling of the request before it, with `StartTransformState`, `StateTransferFSM::Init` and the scan of processes to start |
| `Reap(p)` | SIGCHLD for a child, `_ProcessTerminatedHandler`: event of the transition, fall to Undefined, restart of the process, shutdown of the machine |
| `HandleReport(p)` | `_ExecutionClientReportHandler` |
| `QueuedRunning(p)`, `QueuedKill(p)` | the functions `Startup` queues with `Exec` |
| `EnterTimeout(p)`, `ExitTimeout(p)` | the two timers of a process |
| `Boot`, `SigTerm`, `SigInt`, `Disconnect` | `Run`, the signal handler, and the loss of SM's connection |
| `Report(p)`, `Exit(p)`, `DieKilled(p)` | the child: it reports, ends well or badly, or dies of SIGKILL |

`Next` has the state machine of the transition take all the steps that one event
allows, as `FiniteStateMachine::_Transfer` does.  `starting`, `ending` and
`dependents` are the lists `Init` builds; `goal`, `fresh` and `late` are history
variables: the last target, the processes it had to start, and the processes
that were ever set Running out of time (a defect of the code, section 3).

`ExecTransition` knows children, the target under way and the state a group is
settled in: no child of a new state is created while one of another state is
left, and a group settles only when none is.  The refinement mapping (at the end
of `ExecFunctionGroup`) takes the configuration of a child that is not reaped,
`next` while the state machine has a state, and `current` when it has not.

### UcmPackageManager

The executors of pkgmgr run one at a time; `pc` is where the running one is.
Every write that a restart can tell apart is an action, and `Reboot` may come
between any two: a power loss, of which there are at most `MaxCrashes`, or the
restart an executor has asked SM for.  Two clusters stand for the two categories
the code treats differently: the platform core, selected at boot by the boot
option files `ara_verX.json`, and an application, selected by the list
`application_swcl_list_verY.json` that the running core is linked to.

| actions | code |
|---|---|
| `ProcessSwPackage` ... `OnProcessSwPackageFailed` | ProcessExecutor and UpdateAction::Execute |
| `RevertProcessing`, `NotCancelled`, `RevertSwitch` | a revert while a package is processed |
| `Activate` ... `PrepareUpdate` | ActivateExecutor |
| `SwclListFileLinkToB` ... `VerifyRefused` | VerifyExecutor before and, without a reboot, after the restart |
| `VerifiedAfterReboot`, `FailedAfterReboot` | its thread after a reboot |
| `Rollback` ... `RollbackDone` | RollbackExecutor |
| `Finish` ... `RevertDone` | CleanupExecutor, UpdateAction::CommitChanges and RevertChanges |
| `ExceptionPrepared` ... `ExceptionCleanedUp` | the way back when ucm_status.json cannot be trusted |
| `ReparseProcessList`, in `Reparse` and `ReparseOld` | RebootOrReparse without a reboot, and EM's handler |
| `Switch`, `SaveCurrentStatus` | `_onSwitchNewState`: md5 removed, then the file written and, in six states, committed |
| `Reboot` | the restart: ara-loader's choice, `_initState`, `_recoverState`, `ContinueIfNecessary` |

ara-loader starts from the boot option file with the largest number and, when
emd ends with an error, from the smallest; it reads neither ucm_status.json nor
an md5, so at every boot, in every state, the model lets it take either.

`Option` gives every package its activation option.  The strongest one of the
actions decides (`NeedsReboot`, `NeedsRestart`): kReboot commits the status and
asks SM for the reset; kRestartApplication has EM load the list the running core
is linked to and restart the applications of the actions; kWaitForReboot restarts
nothing, skips the checks of the versions and SM's verification of the cluster,
and succeeds.  EM looks for every cluster of the actions in that list, which names
applications only, so with a core among them kRestartApplication fails.  An EM
that fails part-way leaves what runs as it was.

Single files are written atomically and the file system reports no errors.
ucm_status.json and its md5 are written in one step, because a restart treats the
one without the other as neither.  The thread that verifies after a reboot
switches the state without the lock (`OnSuccessWithoutLock`,
`OnFailureWithoutLock`); that switch is one step of the model, and does not fall
between the switch and the saving of a client's Rollback, although in the code it
can.  Assertions are compiled out, as in a release build; where a property
corresponds to one, its comment says so.

## 3. Runs

| run | checks | result |
|---|---|---|
| `alive` | `TypeOK`, `ActiveBaseIsMonitored`, `SupervisedIffRunning`, `FailedCyclesAccounting`, `StoppedHasCause` | hold |
| `deadline` | `WatchdogOnlyForCluster`, `ExpiredLeadsToStopped`, `SilentProcessIsStopped`, `PendingDeadlineIsJudged` | hold |
| `logical` | `PathIsContinuous`, `ExpiredIsRecoveredNotForgotten` | hold |
| `recovery` | `SuccessMeansHandled`, `AttemptsBounded`, `RecoveryConcludes`, `AnsweredOrReset` | hold |
| `nm_states` | `RequestedIsAwake`, `StateIsTimed`, `FallsAsleep` | hold |
| `nm_burst` | `NeverFallsSilent`, `DetectionIsReported`, `DetectionEnds` | hold |
| `exec_group` | `TypeOK`, `TrackedChildren`, `AnswerMatchesRequest`, `OffMeansNoChild`, `StartedMeansUp`, `OrderedShutdown`, `Refinement` | hold |
| `exec_machine` | `TransitionsConclude`, `RequestsAnswered`, `ShutdownCompletes` | hold |
| `ucm` | `TypeOK`, `Bootable`, `ABFiles`, `IdleIsClean`, `AtomicUpdate`, `RecoverableStatus`, `ActivatedRunsUpdate`, `RolledBackRunsOld`, `WorkEnds` | hold |
| `exec_shutdown_lost` | `ShutdownCompletes` | violated |
| `exec_lost_state` | `CompletedStateIsSet` | violated |
| `ucm_redone` | `CleanupIsRedone` | violated |

`ExpiredCyclesAccounting`, `DeadlineTimerIffPending`, `PassiveRequestIsTimed`,
`NeverSleepsRequested`, `EntryIsAccounted`, `WorkIsHeld`, `NoDowngrade` and the
types of `PhmRecovery` and `NmEther` were checked with TLC until they were proved
for every configuration (section 4); they have no run any more.

Some properties stop short of a case the code gets wrong, and say so in their
comments: `RecoveryConcludes` and `AnsweredOrReset` excuse the entry a failing
retry leaves behind, `StartedMeansUp` and `TransitionsConclude` the processes that
reported late, `NeverFallsSilent` a burst that depends on requests and a forced
NormalOperation, `ActivatedRunsUpdate` and `RolledBackRunsOld` the packages that
wait for a reboot.  Those cases are in the list below, and the hazards name no
property for them.

The violated properties state what a comment of the repository says of the
program; the `findings` of `PROJECT.json` quote it and name the line that
behaves otherwise:

* a machine without SM that falls to Undefined because a process cannot be
  started begins its shutdown inside the error callback of the state machine,
  which makes the state machine invalid on return: Off is never reached;
* a process event in a group that has reached its state completes the transition
  a second time, with an empty target, and the current state is lost;
* a restart in CLEANING_UP rewrites ucm_status.json, so that a second power loss
  sends a half done commit to kExceptionRollingBack.

More disagreements with comments, or surprises, were found with TLC and have no
run of their own; the modules keep the properties named here:

* phm: a deadline or logical supervision judges checkpoints while it is
  inactive, so a local can be expired before its process was ever seen running
  (`ExpiredLocalIsActivated`); the alive supervisions of a local share one
  counter, so one can mask another (`OkLocalHasNoIncorrectBase`);
  `GlobalSupervision::SwitchSupervisionMode` has both its comparisons inverted,
  and a global can stay expired after all its locals recovered
  (`ExpiredGlobalHasExpiredLocal`); a stopped global stays stopped after the
  restart that recovers its process, while `supervised_entity.h:93` says of
  kStopped that at least one local is expired (the code intends it: "stoped
  state remains unchanged"); the margin of an alive supervision is subtracted
  in uint32_t and wraps when it is above the expected count
  (`alive_supervision.cpp:158`); the affiliation of a process is kOther until
  its first checkpoint, so an EM or SM process that hangs before it is recovered
  as an ordinary one (`supervision_checkpoint.cpp:51`);
* phm recovery: a retry whose request cannot be made leaves its entry behind,
  and phmd then ignores every later notification for that identifier
  (`PendingIsInProgress`; `RecoveryEntries` proves that nothing else does so); a
  watchdog that `_watchdogTimeout` triggered, because the loop had stalled, is fed
  again, while `linux_watchdog.cpp:72` says "do not feed the watchdog"
  (`TriggeredIsNeverFed`), and only a recovery that was given up stops the feeding
  for good (`AnsweredOrReset`); `Offer` registers its handler before it sets the
  offer, and a request in between is answered kNotOffered (`ra_server.h:218`);
* nm: a release in the middle of a burst ends it and starts no periodic
  messages, so the rest of RepeatMessage is silent (`RepeatMessageSends`); a
  request that finds a forced NormalOperation is counted but starts no periodic
  messages, while `nmetherstatemachine.cpp:568` says "Continue sending messages
  to keep the network alive"; forcing a state other than RepeatMessage loses the
  timer of a detection, which is then never reported
  (`nmetherstatemachine.cpp:958`);
* exec: the guard against a late Running report reads a member that is never
  assigned, so a process that is being terminated is set Running and its exit
  timer no longer kills it; the queued function that sets a process Running may
  find its child already reaped; a process kept while it is still starting is in
  no list, so its Running may leave the processes that depend on it waiting; an
  SM that asks again cancels a shutdown by SIGTERM; a self terminating process
  that exits before it reports is started again without being counted;
* ucm: after a revert the change information and SM's session are kept, so that
  the next Activate is refused, or activates nothing
  (`verify_executor.cpp:137` asserts "There must be at least one software set
  updated"); recovering to ROLLING-BACK invalidates the status file, while
  `fsm_manager.cpp:514` says it will not; with kWaitForReboot, the default of a
  manifest, Activated is reported while the old version runs, and Finish removes
  the directory of that version; the same happens to the platform when
  ara-loader falls back to the old core at a restart in Activated, since the
  versions are compared only in Verifying; a platform package with
  kRestartApplication is never found by EM and always rolled back.

### Bounds

`MCPhmAlive` has two processes in two groups, so that a switch of one group
finds the other in every state; pids up to 2 distinguish a restart from an
uninterrupted run; a tolerance of 2 for one local and 0 for the other reaches
every branch of the counter; two indications against one expected reach too
few, enough and too many.  `MCPhmDeadline` has timestamps 0..2 with the window
[1, 1], so a target can be early, in time or late, and two processes of
different clusters that expire the same global, which has no recovery mapping;
one local has supervisions of both kinds, the other an alive supervision alone.
It is small because it is also checked for liveness.  `MCPhmLogical` has a
fork, a join and a final checkpoint that no transition leads to.
`MCPhmRecovery` has one identifier (identifiers share only the watchdog) and
four sessions: two recoveries of one retry each, so that
requests and answers of the first meet the second.
`MCNmEther` has a partial network of the connector, one of another connector and
one other node; two requests of logical networks at a time tell the first, a
second and the last from each other.  The durations are the smallest at which
each timer can be before, with and after each other, and lie on the boundaries
of the configuration check: in `nm_states` the first message waits one tick of
a cycle of two; in `nm_burst` the burst takes exactly the repeat message time,
the passive timeout is one cycle and PrepareBusSleep has no duration.
`NeverFallsSilent` is model-checked for a burst; for an offset, and for all
durations, it is proved.
`MCExec` has two processes, since what matters is one process and the one it
depends on, with equal and different configurations in two states and a
dependency in each direction; SM does not wait for its answers in the
application group and does in the machine.  `MayCrash`, `MayNotStart` and
`MayNotAttach` say which process suffers which fault, so that each occurs next
to a process that does not.  `MCUcm` has three versions, so that an update
follows one that was committed, rolled back or reverted, and the file ids move
on; two power losses are the fewest that show the finding and let every recovery
be interrupted once.  Its `MCOption` has packages of version 2 activated as usual,
by a reboot or a restart, and those of version 3 wait for a reboot, so that
bundles of all strengths occur.
The bounds are `MaxVersion`, `MaxCrashes`, `MaxPid`, `MaxTime`, `MaxIndications`, `MaxSession` and
`MaxRequests`; the failure counters of phmd are bounded by the tolerances, which
is itself proved.

### Fairness

`FairSpec` of `PhmSupervision` asks that an armed timer expires
(`WF` of each timer callback), which the event loop guarantees while it runs;
nothing is assumed of processes, emd or SM.  `FairSpec` of `PhmRecovery` asks
the same of the timer that `ipc_session_start_timer` arms for each session, which
it does only for a positive timeout (`ipc/src/manager.c:671`): the configured
recoveryNotificationTimeout is assumed to be positive, although its default is 0
(`config_struct.h:380`), with which a lost answer is waited for for ever.  It also
asks that time passes for a watchdog whose feed timer is stopped.
`FairSpec` of `NmEther` asks that the loop runs a callback that is due and that
time passes.  `FairSpec` of `ExecFunctionGroup` asks that the loop handles what
has arrived (SIGCHLD, reports, queued functions, timers) and that SIGKILL kills;
nothing is assumed of children and SM.  `FairSpec` of `UcmPackageManager` asks
that threads run and that a machine whose reset was accepted restarts; nothing
is assumed of the client, the power, and the answers of SM and EM (`denied`
records a refusal of what the work needs).  `FallsAsleep` and `DetectionEnds` are about what happens once
nothing comes from outside (`Quiet`): another node or a wakeup line may keep a
connector awake for ever, and restart a detection's timer for ever.

## 4. What is proved

For every value of the constants that satisfies the assumptions:

* `PhmSupervisionProofs`: `SupervisionTypes` and `FailedCycles`.  The types and
  the accounting of failed cycles are proved together (`CountInv`), because the
  counter stays a natural number only as long as a failed local has counted at
  least one cycle.
* `PhmMonitoringProofs`: `ExpiredCycles` and `DeadlineTimer` and `Supervised`
  are inductive given the types.  `Monitored` needs that a global which is
  activated has its timer running (`ActivatedGlobalHasTimer`): the timer is
  stopped only together with the status.  `StoppedCause` needs that the cause
  is stored as soon as a local expires (`CauseInv`) and follows it from there
  through the tolerance of the global.  `WatchdogFired` needs that the
  affiliation stored with a supervision is the one of its process
  (`AffiliationInv`).  `GraphPath` is inductive given the types;
  `ExpiredRecovers` follows, step by step, from `CountInv` and what
  `LocalSwitch` may do.
* `PhmRecoveryProofs`: one inductive invariant, `IInv`, which adds to the
  properties that the open session is the last one opened (`OpenSession`), that
  a recovery in progress has room for its retries (`Room`), and that an answer
  "Success" in flight was earned (`AnswerIsEarned`).  From it `RecoveryTypes`,
  `RecoverySuccess`, `RecoveryAttempts` and `RecoveryEntries`: an entry waits in
  the session that its retries count, or its last retry was counted and not sent.
* `ExecFunctionGroupProofs`: one inductive invariant, `IInv`, for any processes,
  states and dependencies.  It relates the list of active processes, the state
  of a process and its child (`ChildOK`), and says for each state of the
  transition's state machine what is left to do: which children may still belong
  to another state, that they are listed, and that what had to be started is
  there or listed (`TerminatingOK`, `StartingOK`, `StartedOK`).  Since a handler
  goes through several of these states, the parts are stated for any value of
  the lists and there is one lemma per operator of the model.  From it
  `GroupTypeOK`, `NoChildIsLost`, `AnswersMatch`, `OffIsEmpty`, `StartedIsUp`;
  `ShutdownInOrder` (an action property), and `ImplementsTransition`, the
  refinement, step by step; `SettledGroupIsIsolated` is what the abstract
  specification promises, carried over.
* `UcmPackageManagerProofs`: one inductive invariant, `ControlInv`
  (`ControlIsInvariant`).  The md5 is missing while a switched state is not yet
  written, and the file otherwise holds the state in memory (`Saved`); each step
  of an executor belongs to a state (`StepsBelong`); a failed processing, a
  revert, the verifier and an accepted reset are under way only in certain
  states (`WaitingBelongs`, `RestartBelongs`), so a verifier that comes late
  never meets a later verification; and in Verifying and RollingBack the file is
  valid only for the restart the executor asks for (`RestartCommitted`).  From
  it `StatusIsRecoverable` and, with `HeldBy`, `WorkIsNeverDropped`: the part
  of `WorkEnds` that is about states and not about fairness.
* `UcmUpdateProofs`: given `ControlInv`, the inductive invariant `DiskInv` has
  two parts, because a restart may or may not find a valid status file.
  `Files` holds whatever write the power fails after: of the boot options and of
  the lists there is an A file, or an A and a B file with the next id and the
  announced version (`AB`), and every boot option names an installed core that is
  linked to an existing list (`Links`).  This is what the exception states have to
  go by.  It says nothing of what runs, since the version that runs may be removed
  (section 3).  `PhaseOfState` and `PhaseOfStep` say
  how far the steps of a state have come: on A, on B, on the way to B in a
  commit (`OnTheWayToB`), reverting, or on the way back to A (`Excepted`).  A
  valid status file stands for the state in memory, so a restart goes on in the
  same phase, and falls back on `Files` otherwise.  The ids stay in range
  because the id of an A file never overtakes its version.  From it `UcmTypes`,
  `AlwaysBootable`, `ABFilesAgree`, `IdleClean`, and the action property
  `NeverDowngrades`.  The action properties `ActivatedRuns` and `RolledBackRuns`
  need what the last restart made of it (`Restarted`): behind the restart of an
  application EM has loaded the B list or, in a rollback, the A list; after a reboot
  the verifier compares core and list with the announced ones; and the reboot that
  a rollback has asked for finds A files only, whichever the loader takes.
  `AtomicUpdates`
  needs one more invariant, `BundleInv`: the versions the A files name change
  only in a commit, that commit is of the activated bundle, and as long as it is
  half done its state is saved or the one power loss has been used up.  There is
  one lemma per step that writes to the disk, and lemmas about writing and
  removing the B file, and removing the A file (`ABAddB`, `ABDropB`, `ABDropA`).
* `NmEtherProofs`: `EtherInv`, that is the types with `RequestedIsAwake` and
  `StateIsTimed`, is inductive for all configurations and all forced states; it
  gives `EtherTypes`, `RequestedAwake` and `StatesTimed`.  `NeverSilent` needs
  to know why the sending is handed over before the repeat message timer
  expires: the offset timer, or the burst timer with all the messages it has
  left, has less to go than the repeat message timer (`PendingInTime`), which
  is where the configuration check comes in; and a NormalOperation that is
  requested has periodic messages (`NormalIsRequested`).  It holds when a burst
  does not depend on requests (the finding) and NormalOperation is not forced.
  `DetectionReported` holds when at most RepeatMessage is forced,
  `SleepsUnrequested` when sleep is not, `PassiveTimed` always.

The assumptions on the constants are the following; TLC evaluates them for every
instance.

* `ConfigAssumption`: types of the phm configuration, disjoint kinds of
  supervisions;
* `OneProcessPerBase`: the checkpoints of a base supervision belong to its
  process, and `DistinctDeadlineCheckpoints`: source and target of a deadline
  supervision differ, as the manifest means them;
* `RecoveryAssumption`: types;
* `GroupAssumption`: types, no process in Off;
* `UcmAssumption` and `OptionAssumption`: types, at least one version; nothing is
  assumed of which package has which option;
* `EtherConfigAssumption`: types, and what the configuration check accepts.

The liveness results, which are not proved, assume besides the fairness of section
3 and with it a positive timeout of the IPC sessions.

## 5. What is only model-checked

The liveness properties (`ExpiredLeadsToStopped`, `SilentProcessIsStopped`,
`PendingDeadlineIsJudged`, `RecoveryConcludes`, `AnsweredOrReset`, `FallsAsleep`,
`DetectionEnds`, `TransitionsConclude`, `RequestsAnswered`, `ShutdownCompletes`, `WorkEnds`):
fairness is beyond the prover.  Every invariant and every action property of a
passing run is also proved.

## 6. Not modelled

Of phm: the shutdown of phmd, the check by IAM, the two queries that return a
status, the parsing of the manifest, the health channel status; periods and
deadlines are not compared with each other.  Of the Ethernet connector: the
user data of a message, the observers that are told of a change, the DTC of the
network card, and connectors for which the timer check is skipped.  Of emd: more
than one function group at a time, resource groups, the reparsing of manifests
for UCM, and what it tells phm.  Of pkgmgr: install and remove actions, delta
packages, the update of the OS, the transfer of packages, the history; the first
boot, when there is no status file yet (`kUCMStatusAllFileEmpty`); a power loss in
the middle of a single file; the overlap of the verifier's switch without the lock
with a client's Rollback (section 2).  Of ara-loader: everything but its choice
of the boot option file.  Everything
marked `not_modelled` in `PROJECT.json`.

## 7. Plan

1. Composition of `PhmSupervision` and `PhmRecovery`: a stopped global notifies
   every cycle while the recovery is pending; an abstract specification (a
   failing process is eventually recovered or the machine reset) as its goal.
2. `nm`: partial and logical networks, composed with `NmEther`: three layers
   count requests, and a connector that falls asleep or is forced clears only
   its own.
3. `sm`: state machine, action lists, error recovery, composed with
   `ExecTransition` and the recovery protocol.
4. Composition of `ExecFunctionGroup` and `PhmSupervision`: the sequence of pids
   that `PhmSupervision` now takes as arbitrary.
5. Proofs: the refinement of item 1, and the invariants of each module as it is
   added.

## 8. Left out of the plan

Communication bindings, SOME/IP, shared memory transport, diagnostics, time
synchronisation, logging, cryptography, access control, firewall, generators:
either I/O and conversion, or products of their own with a project's worth of
protocol each.
