------------------------- MODULE ExecFunctionGroup -------------------------
(***************************************************************************)
(* A function group of the execution manager (emd): its processes, the     *)
(* state machine that carries out a transition, and the handlers of the    *)
(* event loop that drive both.                                             *)
(*                                                                         *)
(* emd is one event loop, so a handler is one step.  What runs beside it   *)
(* is the operating system and the children: a child reports, exits or is  *)
(* killed at any time, and its report, its SIGCHLD, its timers and the     *)
(* functions queued with Exec reach the loop in any order.  State          *)
(* Management may ask for another state while a transition is under way,   *)
(* which cancels it, and may disconnect.                                   *)
(*                                                                         *)
(* The lists of the state machine are kept only while it has a state:      *)
(* after an error they are left as they were, but nothing reads them until *)
(* Init builds them again.  The previous sizes it compares a list with to  *)
(* decide on another scan always hold the size at the last scan, so the    *)
(* model scans when the list has changed.  skipStartingCondition_ is used  *)
(* up by the handler that sets it, or later by a scan that takes place     *)
(* anyway, so it is not kept.  kill(2) is taken to succeed: a child that   *)
(* is not reaped can always be signalled.                                  *)
(***************************************************************************)
EXTENDS Naturals

CONSTANTS
    Process,          \* processes of the group
    State, Off,       \* states of the group
    Config,           \* Config[p][s]: FindStartupConfig, or "none"
    SelfTerminating,  \* configurations whose process may end by itself
    RunDep, TermDep,  \* [p][s]: processes p needs running / terminated in s
    Reporting,        \* processes that report Running
    Attempts,         \* GetNumberOfRestartAttempts
    StateManager,     \* processes of State Management in this group
    Startup,          \* state the machine boots into
    MachineFG,        \* this is the machine function group
    Impatient,        \* SM asks again before it is answered
    MayCrash,         \* processes that may fail on their own
    MayNotStart,      \* processes whose Startup may fail
    MayNotAttach      \* processes whose resource group may be missing

\* "none" stands for a null configuration and for an empty state name.
NoState    == "none"
Undefined  == "Undefined"          \* GetFunctionGroupStateUndefined()
Stopped    == "Stopped_State_Tmp"

ASSUME GroupAssumption ==
    /\ Off \in State /\ Startup \in State
    /\ {NoState, Undefined, Stopped} \cap State = {}
    /\ \A p \in Process : Config[p][Off] = "none"
    /\ RunDep \in [Process -> [State -> SUBSET Process]]
    /\ TermDep \in [Process -> [State -> SUBSET Process]]
    /\ Attempts \in [Process -> Nat] /\ StateManager \subseteq Process
    /\ MachineFG \in BOOLEAN /\ Impatient \in BOOLEAN

VARIABLES
    proc,          \* per process: what emd knows of it, and the child itself
    fsm,           \* state of StateTransferFSM
    current, next, \* currentState_, nextState_
    starting,      \* startupProcessList_
    ending,        \* terminateProcessList_: its processes ...
    dependents,    \* ... and for each the ones to be terminated before it
    active,        \* activedProcessList_
    session,       \* the SetState request SM waits for
    halted,        \* ExecutionManager::isStopped_
    goal,          \* history: target of the last transition started
    fresh,         \* history: processes it had to start
    late           \* history: processes ever set Running out of time

listVars == <<starting, ending, dependents>>
histVars == <<goal, fresh, late>>
vars == <<proc, fsm, current, next, listVars, active, session, halted, histVars>>

ProcessState == {"Idle", "Starting", "Running", "Terminating", "Terminated"}
Cause == {"Unknown", "Request", "EnterTimeout", "ExitTimeout", "InitFailure"}
FsmState == {"Invalid", "Terminating", "Starting", "Started"}

Configs == {"none"} \cup UNION {{Config[p][s] : s \in State} : p \in Process}

IdleProcess ==
    [state |-> "Idle", config |-> "none", fgState |-> NoState, cause |-> "Unknown",
     restarts |-> 0, enterTimer |-> FALSE, exitTimer |-> FALSE, queued |-> {},
     child |-> "none", signal |-> "none", report |-> "none"]

Init ==
    /\ proc = [p \in Process |-> IdleProcess]
    /\ fsm = "Invalid" /\ current = Off /\ next = NoState
    /\ starting = {} /\ ending = {} /\ dependents = [p \in Process |-> {}]
    /\ active = {}
    /\ session = NoState /\ halted = FALSE
    /\ goal = Off /\ fresh = {} /\ late = {}

-----------------------------------------------------------------------------
(***************************************************************************)
(* One process.                                                            *)
(***************************************************************************)

\* Process::IsActived.
Actived(r) == r.state \notin {"Idle", "Terminated"}

\* Process::IsSelfTerminate, by the state the process was last started for.
IsSelfTerminate(p, r) ==
    r.fgState # NoState /\ Config[p][r.fgState] \in SelfTerminating

\* Seeded fault: an exit nobody asked for counts as normal.
NormalWheneverUnknown(p, r) == r.cause \in {"Request", "Unknown"}

\* Process::IsTerminateNormally of a child that has exited.
TerminatedNormally(p, r) ==
    /\ r.child = "ok"
    /\ r.cause = "Request" \/ (r.cause = "Unknown" /\ IsSelfTerminate(p, r))

\* Process::Startup and _UpdateRunningState; the child is forked.  A process
\* that does not report is set Running by a queued function, and one whose
\* resource group cannot take it is killed by another.
StartedFor(p, r, s, attached) ==
    [state |-> "Starting", config |-> Config[p][s], fgState |-> s, cause |-> "Unknown",
     restarts |-> r.restarts,
     enterTimer |-> r.enterTimer \/ p \in Reporting,
     exitTimer |-> r.exitTimer,
     queued |-> r.queued \cup (IF p \in Reporting THEN {} ELSE {"running"})
                         \cup (IF attached THEN {} ELSE {"kill"}),
     child |-> "live", signal |-> "none", report |-> "none"]

\* Process::Terminate.
Terminated(r) ==
    IF Actived(r)
    THEN [r EXCEPT !.state = "Terminating", !.cause = "Request",
                   !.exitTimer = TRUE,
                   !.signal = IF @ = "kill" THEN "kill" ELSE "term"]
    ELSE r

\* Process::Kill; a process that has been reaped has nothing to kill.
Killed(r, cause) ==
    IF Actived(r) /\ r.child # "none"
    THEN [r EXCEPT !.state = "Terminating", !.cause = cause, !.signal = "kill"]
    ELSE r

\* The SIGCHLD handler and TriggerEvent(kTerminated): the pid is given up, so a
\* report that is still on its way will find no process.
Reaped(r) ==
    [r EXCEPT !.state = "Terminated", !.config = "none", !.exitTimer = FALSE,
              !.child = "none", !.signal = "none", !.report = "none"]

\* Process::IsExecutionDependsOk.
DependsOk(P, p, s) ==
    /\ \A d \in RunDep[p][s] : P[d].state = "Running"
    /\ \A d \in TermDep[p][s] : P[d].state = "Terminated"

-----------------------------------------------------------------------------
(***************************************************************************)
(* The state machine.  P and A are the processes and the active list as    *)
(* the handler has left them so far, S the startup list, r the request SM  *)
(* waits for and H the history <<goal, fresh, late>>.                      *)
(***************************************************************************)

NoDependents == [p \in Process |-> {}]

\* _TerminatingAction: what nothing depends on any more is terminated.
TerminatingAction(P, T, D) ==
    [p \in Process |->
        IF p \in T /\ D[p] = {} /\ P[p].state # "Terminating"
        THEN Terminated(P[p]) ELSE P[p]]

\* The processes _StartingAction may start, and the ones it does: the list is
\* in the order of addresses, and a process that needs another one terminated
\* is passed over when that one has been started before it in the same scan.
Startable(P, S, s) == {p \in S : ~Actived(P[p]) /\ DependsOk(P, p, s)}
Scans(P, S, s) ==
    {R \in SUBSET Startable(P, S, s) :
        \A p \in Startable(P, S, s) \ R : TermDep[p][s] \cap R # {}}

StartAll(P, R, s, unattached) ==
    [p \in Process |->
        IF p \in R THEN StartedFor(p, P[p], s, p \notin unattached) ELSE P[p]]

\* The history variables take the values H.
Recorded(H) == goal' = H[1] /\ fresh' = H[2] /\ late' = H[3]

NoLists == starting' = {} /\ ending' = {} /\ dependents' = NoDependents

\* ExecutionManager::Stop: every child is killed and waited for.
Halt(P) ==
    /\ halted' = TRUE
    /\ proc' = [p \in Process |->
                  [Killed(P[p], "Request") EXCEPT !.child = "none", !.report = "none"]]

\* OnFinal and the state changed handler: the state is taken over and SM gets
\* its answer.  The machine stops when it is off.
Final(P, A, s, r, H) ==
    /\ fsm' = "Started" /\ current' = s /\ next' = NoState
    /\ NoLists
    /\ active' = A
    /\ IF MachineFG /\ s = Off
       THEN Halt(P) /\ session' = r
       ELSE proc' = P /\ session' = NoState /\ UNCHANGED halted
    /\ Recorded(H)

\* Whether State Management is there to handle an Undefined state of the group.
Manageable(P) == ~MachineFG \/ \E p \in StateManager : P[p].state = "Running"

\* Seeded fault: only the processes that run are ended.
EndOnlyRunning(P, A, s) == {p \in A : P[p].state = "Running" /\ P[p].config # Config[p][s]}

\* Seeded fault: a process that stays in the group is kept, whatever its
\* configuration.
EndOnlyLeaving(P, A, s) == {p \in A : Actived(P[p]) /\ Config[p][s] = "none"}

\* Seeded fault: nothing is recorded of who needs whom.
NobodyDepends(P, T) == [p \in Process |-> {}]

\* Seeded fault: a process to be started is made Idle while its child ends.
IdleAtOnce(P, S) ==
    [p \in Process |-> IF p \in S THEN [P[p] EXCEPT !.state = "Idle"] ELSE P[p]]

\* StateTransferFSM::Init for a transition to s: the processes to end (with the
\* ones among them that need them) and the ones to start.
ToEnd(P, A, s) == {p \in A : Actived(P[p]) /\ P[p].config # Config[p][s]}
DependentsIn(P, T) ==
    [p \in Process |->
        IF p \in T
        THEN {q \in T : P[q].fgState # NoState /\ p \in RunDep[q][P[q].fgState]}
        ELSE {}]
ToStart(P, s) == {p \in Process : Config[p][s] # "none" /\ P[p].config # Config[p][s]}
MadeIdle(P, S) ==
    [p \in Process |->
        IF p \in S /\ P[p].state = "Terminated"
        THEN [P[p] EXCEPT !.state = "Idle"] ELSE P[p]]

\* The processes after Init and the first _TerminatingAction.
Prepared(P, A, s) ==
    LET T == ToEnd(P, A, s)
    IN  TerminatingAction(MadeIdle(P, ToStart(P, s)), T, DependentsIn(P, T))

NewHistory(P, s) == <<s, ToStart(P, s), late>>

\* OnError, called by the state machine itself.  A machine that SM cannot bring
\* back is sent to Off from within the call; when the call returns, the state
\* machine is made invalid, whatever the nested transition has set it to.
OnError(P, A, r, H) ==
    /\ fsm' = "Invalid"
    /\ NoLists
    /\ active' = A
    /\ IF Manageable(P)
       THEN /\ current' = Undefined /\ next' = NoState
            /\ proc' = P /\ session' = NoState
            /\ UNCHANGED halted
            /\ Recorded(H)
       ELSE /\ session' = r
            /\ Recorded(NewHistory(P, Off))
            /\ IF ToEnd(P, A, Off) = {}
               THEN current' = Off /\ next' = NoState /\ Halt(P)
               ELSE /\ current' = Undefined /\ next' = Off
                    /\ proc' = Prepared(P, A, Off)
                    /\ UNCHANGED halted

\* A scan of the startup list in kStarting.  Startup of a process may fail, after
\* some of the others have been started.
Scan(P, A, S, s, r, H, cur) ==
    \/ \E R \in Scans(P, S, s) : \E U \in SUBSET (R \cap MayNotAttach) :
       /\ proc' = StartAll(P, R, s, U)
       /\ active' = A \cup R
       /\ fsm' = "Starting" /\ next' = s /\ current' = cur
       /\ starting' = S /\ ending' = {} /\ dependents' = NoDependents
       /\ session' = r
       /\ UNCHANGED halted
       /\ Recorded(H)
    \/ \E f \in Startable(P, S, s) \cap MayNotStart :
       \E R \in SUBSET (Startable(P, S, s) \ {f}) :
       \E U \in SUBSET (R \cap MayNotAttach) :
           OnError(StartAll(P, R, s, U), A \cup R, r, H)

\* kTerminated is passed through to kStarting, which ends at once when nothing is
\* to be started.
EnterStarting(P, A, S, s, r, H, cur) ==
    IF S = {}
    THEN Final(P, A, s, r, H)
    ELSE Scan(P, A, S, s, r, H, cur)

\* FunctionGroup::StartTransformState.
StartTransformState(P, A, s, r, cur) ==
    LET T == ToEnd(P, A, s)
        Q == Prepared(P, A, s)
    IN  IF T = {}
        THEN EnterStarting(Q, A, ToStart(P, s), s, r, NewHistory(P, s), cur)
        ELSE /\ fsm' = "Terminating" /\ next' = s /\ current' = cur
             /\ starting' = ToStart(P, s)
             /\ ending' = T /\ dependents' = DependentsIn(P, T)
             /\ proc' = Q /\ active' = A /\ session' = r
             /\ UNCHANGED halted
             /\ Recorded(NewHistory(P, s))

\* Seeded fault: a transition that fails is not answered.
UndefinedUnanswered(P, A) ==
    IF Manageable(P)
    THEN /\ fsm' = "Invalid" /\ current' = Undefined /\ next' = NoState
         /\ NoLists
         /\ proc' = P /\ active' = A
         /\ UNCHANGED <<session, halted, histVars>>
    ELSE StartTransformState(P, A, Off, session, Undefined)

\* Seeded fault: the state machine is stopped after the handler, not before it.
DestroyedTooLate(P, A) == OnError(P, A, session, histVars)

\* _ProcessTerminatedHandler gives the transition, or the settled state, up.
\* The machine begins to shut down when SM cannot handle it.
FallUndefined(P, A) ==
    IF Manageable(P)
    THEN /\ fsm' = "Invalid" /\ current' = Undefined /\ next' = NoState
         /\ NoLists
         /\ proc' = P /\ active' = A /\ session' = NoState
         /\ UNCHANGED <<halted, histVars>>
    ELSE StartTransformState(P, A, Off, session, Undefined)

-----------------------------------------------------------------------------
(***************************************************************************)
(* The handlers of the event loop.                                         *)
(***************************************************************************)

\* A step that changes one process and nothing else.
ProcessStep(p, r) ==
    /\ proc' = [proc EXCEPT ![p] = r]
    /\ UNCHANGED <<fsm, current, next, listVars, active, session, halted, histVars>>

\* Whether p is set Running in time: it is being started, and not to be ended.
Punctual(p) == proc[p].state = "Starting" /\ p \notin ending

\* TriggerProcessStartedEvent, after SetProcessState(kRunning) of p.  In kStarted
\* every event ends the transition once more, with nextState_ empty.
StartedEvent(P, p) ==
    LET S == starting \ {p}
        L == IF Punctual(p) THEN late ELSE late \cup {p}
    IN  \/ /\ fsm \in {"Invalid", "Terminating"} \/ (fsm = "Starting" /\ p \notin starting)
           /\ proc' = P /\ starting' = S
           /\ UNCHANGED <<fsm, current, next, ending, dependents, active, session, halted>>
           /\ Recorded(<<goal, fresh, L>>)
        \/ /\ fsm = "Starting" /\ p \in starting
           /\ EnterStarting(P, active, S, next, session, <<goal, fresh, L>>, current)
        \/ /\ fsm = "Started"
           /\ Final(P, active, next, session, <<goal, fresh, L>>)

\* TriggerProcessTerminatedEvent.  The end of a process that ends by itself is
\* an event too, which in kStarted ends the transition once more.
TerminatedEvent(P, A, p) ==
    LET T == ending \ {p}
        D == [q \in Process |-> dependents[q] \ {p}]
        done == p \notin ending /\ IsSelfTerminate(p, P[p])
    IN  \/ /\ p \in ending /\ T = {}
           /\ EnterStarting(P, A, starting, next, session, histVars, current)
        \/ /\ p \in ending /\ T # {}
           /\ proc' = TerminatingAction(P, T, D)
           /\ ending' = T /\ dependents' = D /\ active' = A
           /\ UNCHANGED <<fsm, current, next, starting, session, halted, histVars>>
        \/ /\ done /\ fsm = "Starting"
           /\ Scan(P, A, starting, next, session, histVars, current)
        \/ /\ done /\ fsm = "Started"
           /\ Final(P, A, next, session, histVars)
        \/ /\ p \notin ending /\ (~done \/ fsm = "Terminating")
           /\ proc' = P /\ active' = A
           /\ dependents' = D
           /\ UNCHANGED <<fsm, current, next, starting, ending, session, halted, histVars>>

\* Seeded fault: one attempt too many.
RestartableOnceMore(p) ==
    fsm = "Starting" /\ proc[p].cause = "EnterTimeout" /\ proc[p].restarts <= Attempts[p]

\* Process::Restartup takes place after an enter timeout, while attempts are left.
Restartable(p) ==
    fsm = "Starting" /\ proc[p].cause = "EnterTimeout" /\ proc[p].restarts < Attempts[p]

\* SignalHandler(SIGCHLD) and _ProcessTerminatedHandler.
Reap(p) ==
    LET P == [proc EXCEPT ![p] = Reaped(@)]
        A == active \ {p}
        normal == TerminatedNormally(p, proc[p])
    IN  /\ ~halted
        /\ proc[p].child \in {"ok", "bad"}
        /\ \/ /\ fsm = "Invalid"
              /\ proc' = P /\ active' = A
              /\ UNCHANGED <<fsm, current, next, listVars, session, halted, histVars>>
           \/ /\ fsm # "Invalid"
              /\ normal \/ (fsm = "Terminating" /\ p \in ending)
              /\ TerminatedEvent(P, A, p)
           \/ /\ Restartable(p) /\ ~normal
              /\ \E attached \in IF p \in MayNotAttach THEN BOOLEAN ELSE {TRUE} :
                    ProcessStep(p, [StartedFor(p, Reaped(proc[p]), proc[p].fgState, attached)
                                      EXCEPT !.restarts = @ + 1])
           \/ /\ Restartable(p) /\ ~normal /\ p \in MayNotStart
              /\ FallUndefined([P EXCEPT ![p].restarts = @ + 1], A)
           \/ /\ fsm # "Invalid" /\ ~normal /\ ~(fsm = "Terminating" /\ p \in ending)
              /\ ~Restartable(p)
              /\ FallUndefined(P, A)

\* _ExecutionClientReportHandler.  The guard on GetExecutionState never refuses a
\* report: executionState_ keeps its first value.
HandleReport(p) ==
    /\ ~halted
    /\ proc[p].report = "sent" /\ proc[p].child # "none"
    /\ StartedEvent([proc EXCEPT ![p].report = "done", ![p].restarts = 0,
                                 ![p].enterTimer = FALSE, ![p].state = "Running"], p)

\* The function queued by _UpdateRunningState for a process that does not report.
QueuedRunning(p) ==
    /\ ~halted
    /\ "running" \in proc[p].queued
    /\ StartedEvent([proc EXCEPT ![p].queued = @ \ {"running"}, ![p].state = "Running"], p)

\* The function queued by _ProcessStartupedHandler.
QueuedKill(p) ==
    /\ ~halted
    /\ "kill" \in proc[p].queued
    /\ ProcessStep(p, [Killed(proc[p], "InitFailure") EXCEPT !.queued = @ \ {"kill"}])

\* Seeded fault: the exit timer does not kill.
ExitTimeoutIgnored(p) ==
    /\ ~halted /\ proc[p].exitTimer
    /\ ProcessStep(p, [proc[p] EXCEPT !.exitTimer = FALSE])

\* The enter and the exit timer.
EnterTimeout(p) ==
    /\ ~halted /\ proc[p].enterTimer
    /\ LET r == [proc[p] EXCEPT !.enterTimer = FALSE]
       IN  ProcessStep(p, IF r.state = "Starting" THEN Killed(r, "EnterTimeout") ELSE r)
ExitTimeout(p) ==
    /\ ~halted /\ proc[p].exitTimer
    /\ LET r == [proc[p] EXCEPT !.exitTimer = FALSE]
       IN  ProcessStep(p, IF r.state = "Terminating" THEN Killed(r, "ExitTimeout") ELSE r)

\* Seeded fault: the session of the cancelled request is not replaced.
SetStateKeepsSession(s) ==
    /\ ~halted
    /\ MachineFG => \E p \in StateManager : proc[p].child = "live"
    /\ \/ /\ session = NoState /\ current # s /\ next = NoState
          /\ StartTransformState(proc, active, s, s, current)
       \/ /\ Impatient /\ session \notin {NoState, s}
          /\ StartTransformState(proc, active, s, session, Stopped)

\* sms::Server::_HandleRequest and the Cancel and Set handlers: another state than
\* the one SM waits for cancels the transition.  A request that is refused
\* changes nothing.
SetState(s) ==
    /\ ~halted
    /\ MachineFG => \E p \in StateManager : proc[p].child = "live"
    /\ \/ /\ session = NoState /\ current # s /\ next = NoState
          /\ StartTransformState(proc, active, s, s, current)
       \/ /\ Impatient /\ session \notin {NoState, s}
          /\ StartTransformState(proc, active, s, s, Stopped)

\* sms::Server::_HandleConnection.
Disconnect ==
    /\ ~halted /\ session # NoState
    /\ session' = NoState
    /\ UNCHANGED <<proc, fsm, current, next, listVars, active, halted, histVars>>

\* The machine function group is started by Run, before the event loop.
Booted == ~MachineFG \/ fsm # "Invalid" \/ current # Off \/ next # NoState
Boot ==
    /\ ~halted /\ ~Booted
    /\ StartTransformState(proc, active, Startup, NoState, current)

\* SignalHandler(SIGTERM) and SignalHandler(SIGINT).
SigTerm ==
    /\ ~halted /\ MachineFG /\ Booted
    /\ StartTransformState(proc, active, Off, session, current)
SigInt ==
    /\ ~halted /\ Booted
    /\ Halt(proc)
    /\ UNCHANGED <<fsm, current, next, listVars, active, session, histVars>>

-----------------------------------------------------------------------------
(***************************************************************************)
(* The children.                                                           *)
(***************************************************************************)

\* ExecutionClient::ReportExecutionState sends Running once.
Report(p) ==
    /\ ~halted
    /\ p \in Reporting /\ proc[p].child = "live" /\ proc[p].report = "none"
    /\ ProcessStep(p, [proc[p] EXCEPT !.report = "sent"])

\* A child that got SIGKILL.
DieKilled(p) ==
    /\ ~halted
    /\ proc[p].child = "live" /\ proc[p].signal = "kill"
    /\ ProcessStep(p, [proc[p] EXCEPT !.child = "bad"])

\* A child ends after SIGTERM, when its work is done, or because it fails.
Exit(p) ==
    /\ ~halted
    /\ proc[p].child = "live"
    /\ \/ /\ proc[p].signal = "term" \/ proc[p].config \in SelfTerminating
          /\ ProcessStep(p, [proc[p] EXCEPT !.child = "ok"])
       \/ /\ p \in MayCrash
          /\ ProcessStep(p, [proc[p] EXCEPT !.child = "bad"])

LoopStep(p) ==
    \/ Reap(p)
    \/ HandleReport(p)
    \/ QueuedRunning(p)
    \/ QueuedKill(p)
    \/ EnterTimeout(p)
    \/ ExitTimeout(p)

Next ==
    \/ \E p \in Process : LoopStep(p) \/ Report(p) \/ DieKilled(p) \/ Exit(p)
    \/ \E s \in State : SetState(s)
    \/ Disconnect
    \/ Boot
    \/ SigTerm
    \/ SigInt

Spec == Init /\ [][Next]_vars

\* The event loop handles what is pending, and SIGKILL works.  Nothing is assumed
\* of the applications, of State Management, or of who sends a signal to emd.
Fairness ==
    /\ WF_vars(Boot)
    /\ \A p \in Process :
        /\ WF_vars(Reap(p))
        /\ WF_vars(HandleReport(p))
        /\ WF_vars(QueuedRunning(p))
        /\ WF_vars(QueuedKill(p))
        /\ WF_vars(EnterTimeout(p))
        /\ WF_vars(ExitTimeout(p))
        /\ WF_vars(DieKilled(p))

FairSpec == Spec /\ Fairness

-----------------------------------------------------------------------------
(***************************************************************************)
(* Properties.                                                             *)
(***************************************************************************)

ProcessRecord ==
    [state : ProcessState, config : Configs, fgState : State \cup {NoState}, cause : Cause,
     restarts : Nat, enterTimer : BOOLEAN, exitTimer : BOOLEAN,
     queued : SUBSET {"running", "kill"}, child : {"none", "live", "ok", "bad"},
     signal : {"none", "term", "kill"}, report : {"none", "sent", "done"}]

\* The variables have their types, and a process is not restarted more often than
\* its manifest says.
TypeOK ==
    /\ proc \in [Process -> ProcessRecord]
    /\ \A p \in Process : proc[p].restarts <= Attempts[p]
    /\ fsm \in FsmState
    /\ current \in State \cup {NoState, Undefined, Stopped}
    /\ next \in State \cup {NoState}
    /\ starting \subseteq Process /\ ending \subseteq Process
    /\ dependents \in [Process -> SUBSET Process]
    /\ active \subseteq Process
    /\ session \in State \cup {NoState}
    /\ halted \in BOOLEAN
    /\ goal \in State /\ fresh \subseteq Process /\ late \subseteq Process

\* emd keeps track of every child: until it is reaped, its process is in the
\* active list and in no state Startup would start it from, so a process never
\* has two children and no transition forgets one.  emd itself must be running.
TrackedChildren ==
    ~halted => \A p \in Process :
        proc[p].child # "none" => p \in active /\ Actived(proc[p])

\* SM is answered for what it asked: while a transition runs and a request is
\* pending, the transition is the one requested, cancelled requests and a
\* second request included.  Only a machine shutting down may differ.
AnswerMatchesRequest ==
    fsm \in {"Terminating", "Starting"} /\ session # NoState =>
        next = session \/ (MachineFG /\ next = Off)

\* A group that has reached Off has no child left, whatever was cancelled,
\* restarted or killed on the way.
OffMeansNoChild ==
    fsm = "Started" /\ goal = Off => \A p \in Process : proc[p].child = "none"

\* When a transition has been completed, each process it had to start has been
\* started and its child is still there (a self terminating one may be done).
\* A process whose Running was reported too late is the exception: see late.
StartedMeansUp ==
    fsm = "Started" /\ ~halted =>
        \A p \in fresh \ late :
            proc[p].child # "none" \/ Config[p][goal] \in SelfTerminating

\* _TerminatingAction respects the dependencies: a process gets SIGTERM in a
\* transition only when no process that was started with a Running dependency
\* on it, and that has to end too, still has a child.
OrderedShutdown ==
    [][\A p, q \in Process :
         /\ fsm' = "Terminating" /\ p \in ending' /\ q \in ending'
         /\ proc[p].signal = "none" /\ proc'[p].signal = "term"
         /\ proc[q].fgState # NoState /\ p \in RunDep[q][proc[q].fgState]
         => proc'[q].child = "none"]_vars

\* A request is answered, a booting machine gets somewhere: every transition is
\* concluded, one way or another, unless a Running report came too late and has
\* disarmed the timers.
TransitionsConclude ==
    next # NoState ~> (next = NoState \/ halted \/ late # {})

\* A pending request does not stay pending.
RequestsAnswered ==
    session # NoState ~> (session = NoState \/ halted \/ late # {})

\* A machine that turns off gets there, whether SM asked for it, SIGTERM did, or
\* SM was not running to handle an Undefined state.
ShutdownCompletes ==
    MachineFG /\ next = Off ~> (halted \/ late # {})

\* "After the function group transition is completed, the function group state
\* should be set": the current state of a completed transition is its target.
CompletedStateIsSet == fsm = "Started" => current = goal

\* What SM may rely on.
Abstract == INSTANCE ExecTransition WITH
    up      <- [p \in Process |-> IF proc[p].child = "none" THEN "none" ELSE proc[p].config],
    request <- IF fsm \in {"Terminating", "Starting"} /\ ~halted THEN next ELSE "none",
    settled <- IF fsm = "Started" /\ ~halted THEN goal ELSE "none"

\* The execution manager implements the abstract specification of a group: see
\* ExecTransition.
Refinement == Abstract!Spec

=============================================================================
