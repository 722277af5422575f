---------------------- MODULE ExecFunctionGroupProofs ----------------------
(***************************************************************************)
(* Proofs about ExecFunctionGroup, for every group, configuration and      *)
(* number of processes: the safety properties of its runs, and that it     *)
(* implements ExecTransition.                                              *)
(***************************************************************************)
EXTENDS ExecFunctionGroup, TLAPS

USE DEF NoState, Undefined, Stopped

-----------------------------------------------------------------------------
(***************************************************************************)
(* The inductive invariant.  Its parts are stated for any processes P,     *)
(* active list A and lists S, T, D, since a handler goes through several.  *)
(***************************************************************************)

Live(r) == r.child # "none"

\* What emd knows of a process agrees with its child.
ChildOK(p, r, A) ==
    /\ p \in A <=> Live(r)
    /\ Live(r) <=> r.config # "none"
    /\ Live(r) => Actived(r) /\ r.fgState \in State /\ r.config = Config[p][r.fgState]
    /\ r.state \in {"Starting", "Terminating"} => Live(r)

ProcessOK(P, A) ==
    /\ P \in [Process -> ProcessRecord]
    /\ A \subseteq Process
    /\ \A p \in Process : P[p].restarts <= Attempts[p] /\ ChildOK(p, P[p], A)

\* Every child belongs to state g.
OnlyOf(P, g) == \A p \in Process : Live(P[p]) => P[p].config = Config[p][g]

\* The processes F the transition to g has to start are there or, if they may
\* be, done; the late ones L excepted.
There(p, r, g) == Live(r) \/ Config[p][g] \in SelfTerminating
Unasked(P, F, L) == \A p \in F \ L : Live(P[p]) => P[p].cause # "Request"

Listed(S, g) == S \subseteq Process /\ \A p \in S : Config[p][g] # "none"

StartedOK(P, g, F, L) ==
    /\ OnlyOf(P, g)
    /\ \A p \in F \ L : There(p, P[p], g)
    /\ Unasked(P, F, L)

StartingOK(P, S, g, F, L) ==
    /\ OnlyOf(P, g)
    /\ Listed(S, g)
    /\ \A p \in F \ L : p \in S \/ There(p, P[p], g)
    /\ Unasked(P, F, L)

TerminatingOK(P, S, T, D, g, F, L) ==
    /\ Listed(S, g)
    /\ T # {} /\ \A p \in T : Live(P[p])
    /\ \A p \in Process : Live(P[p]) => P[p].config = Config[p][g] \/ p \in T
    /\ \A p \in F \ L : p \in S /\ (Live(P[p]) => p \in T)
    /\ \A p, q \in T : p \in RunDep[q][P[q].fgState] => q \in D[p]

IInv ==
    /\ TypeOK
    /\ halted => \A p \in Process : ~Live(proc[p])
    /\ ~halted => ProcessOK(proc, active)
    /\ fsm # "Terminating" => ending = {}
    /\ fsm \in {"Terminating", "Starting"} => next = goal
    /\ ~halted /\ fsm = "Terminating" =>
         TerminatingOK(proc, starting, ending, dependents, goal, fresh, late)
    /\ ~halted /\ fsm = "Starting" =>
         starting # {} /\ StartingOK(proc, starting, goal, fresh, late)
    /\ ~halted /\ fsm = "Started" => StartedOK(proc, goal, fresh, late)
    /\ AnswerMatchesRequest

-----------------------------------------------------------------------------
(***************************************************************************)
(* One process.                                                            *)
(***************************************************************************)

\* A startup configuration is one of the configurations.
LEMMA ConfigType ==
    ASSUME NEW p \in Process, NEW s \in State
    PROVE  Config[p][s] \in Configs
  <1>1. Config[p][s] \in {Config[p][t] : t \in State}
    OBVIOUS
  <1> QED BY <1>1 DEF Configs

\* Process::Startup gives the process a child with the configuration of s.
LEMMA StartedForFacts ==
    ASSUME NEW p \in Process, NEW s \in State, NEW r \in ProcessRecord, NEW b \in BOOLEAN
    PROVE  LET q == StartedFor(p, r, s, b)
           IN  /\ q \in ProcessRecord
               /\ q.child = "live" /\ q.config = Config[p][s] /\ q.fgState = s
               /\ q.state = "Starting" /\ q.cause = "Unknown" /\ q.restarts = r.restarts
               /\ Live(q) /\ Actived(q)
  <1> DEFINE e == r.enterTimer \/ p \in Reporting
             Q == r.queued \cup (IF p \in Reporting THEN {} ELSE {"running"})
                           \cup (IF b THEN {} ELSE {"kill"})
  <1>1. e \in BOOLEAN
    OBVIOUS
  <1>2. Q \in SUBSET {"running", "kill"}
    BY DEF ProcessRecord
  <1>3. StartedFor(p, r, s, b) =
          [state |-> "Starting", config |-> Config[p][s], fgState |-> s,
           cause |-> "Unknown", restarts |-> r.restarts, enterTimer |-> e,
           exitTimer |-> r.exitTimer, queued |-> Q,
           child |-> "live", signal |-> "none", report |-> "none"]
    BY DEF StartedFor
  <1> HIDE DEF e, Q
  <1> QED
    BY <1>1, <1>2, <1>3, ConfigType DEF ProcessRecord, ProcessState, Cause, Live, Actived

\* Process::Terminate leaves the child and its configuration alone.
LEMMA TerminatedFacts ==
    ASSUME NEW r \in ProcessRecord
    PROVE  LET q == Terminated(r)
           IN  /\ q \in ProcessRecord
               /\ q.child = r.child /\ q.config = r.config /\ q.fgState = r.fgState
               /\ q.restarts = r.restarts
               /\ IF Actived(r) THEN q.state = "Terminating" /\ Actived(q) ELSE q = r
  <1>1. CASE ~Actived(r)
    BY <1>1 DEF Terminated
  <1>2. CASE Actived(r)
    <2> DEFINE g == IF r.signal = "kill" THEN "kill" ELSE "term"
    <2>1. Terminated(r) = [r EXCEPT !.state = "Terminating", !.cause = "Request",
                                    !.exitTimer = TRUE, !.signal = g]
      BY <1>2 DEF Terminated
    <2>2. g \in {"none", "term", "kill"}
      OBVIOUS
    <2> HIDE DEF g
    <2>3. Terminated(r) \in ProcessRecord
      BY <2>1, <2>2 DEF ProcessRecord, ProcessState, Cause
    <2> QED BY <1>2, <2>1, <2>3 DEF ProcessRecord, Actived
  <1> QED BY <1>1, <1>2

\* And so does Process::Kill, which marks the process of a child only.
LEMMA KilledFacts ==
    ASSUME NEW r \in ProcessRecord, NEW c \in Cause
    PROVE  LET q == Killed(r, c)
           IN  /\ q \in ProcessRecord
               /\ q.child = r.child /\ q.config = r.config /\ q.fgState = r.fgState
               /\ q.restarts = r.restarts /\ q.enterTimer = r.enterTimer
               /\ IF Live(r) /\ Actived(r) THEN q.state = "Terminating" /\ Actived(q) /\ q.cause = c
                                           ELSE q = r
  <1>1. CASE ~(Actived(r) /\ Live(r))
    BY <1>1 DEF Killed, Live
  <1>2. CASE Actived(r) /\ Live(r)
    <2>1. Killed(r, c) = [r EXCEPT !.state = "Terminating", !.cause = c, !.signal = "kill"]
      BY <1>2 DEF Killed, Live
    <2>2. Killed(r, c) \in ProcessRecord
      BY <2>1 DEF ProcessRecord, ProcessState
    <2> QED BY <1>2, <2>1, <2>2 DEF ProcessRecord, Actived
  <1> QED BY <1>1, <1>2

\* A process that is reaped has no child any more.
LEMMA ReapedFacts ==
    ASSUME NEW r \in ProcessRecord
    PROVE  LET q == Reaped(r)
           IN  /\ q \in ProcessRecord
               /\ q.child = "none" /\ q.config = "none" /\ q.fgState = r.fgState
               /\ q.state = "Terminated" /\ q.cause = r.cause /\ q.restarts = r.restarts
               /\ ~Live(q) /\ ~Actived(q)
  BY DEF Reaped, ProcessRecord, ProcessState, Cause, Actived, Live, Configs

-----------------------------------------------------------------------------
(***************************************************************************)
(* All processes.                                                          *)
(***************************************************************************)

SameChildren(P, Q) ==
    \A p \in Process : /\ Q[p].child = P[p].child
                       /\ Q[p].config = P[p].config
                       /\ Q[p].fgState = P[p].fgState

\* _TerminatingAction signals children, it creates and loses none.
LEMMA TerminatingActionOK ==
    ASSUME NEW P, NEW A, NEW T, NEW D, ProcessOK(P, A), T \subseteq A
    PROVE  LET Q == TerminatingAction(P, T, D)
           IN  ProcessOK(Q, A) /\ SameChildren(P, Q)
  <1> DEFINE Q == TerminatingAction(P, T, D)
  <1>1. P \in [Process -> ProcessRecord] /\ A \subseteq Process
    BY DEF ProcessOK
  <1>2. ASSUME NEW p \in Process
        PROVE  /\ Q[p] \in ProcessRecord
               /\ Q[p].restarts <= Attempts[p] /\ ChildOK(p, Q[p], A)
               /\ Q[p].child = P[p].child /\ Q[p].config = P[p].config
               /\ Q[p].fgState = P[p].fgState
    <2>0. P[p] \in ProcessRecord /\ P[p].restarts <= Attempts[p] /\ ChildOK(p, P[p], A)
      BY DEF ProcessOK
    <2>1. CASE Q[p] = P[p]
      BY <2>0, <2>1
    <2>2. CASE Q[p] = Terminated(P[p]) /\ p \in A
      <3>1. Live(P[p]) /\ Actived(P[p])
        BY <2>0, <2>2 DEF ChildOK
      <3> QED BY <2>0, <2>2, <3>1, TerminatedFacts DEF ChildOK, Live
    <2> QED BY <2>1, <2>2 DEF TerminatingAction
  <1>3. Q = [p \in Process |-> Q[p]]
    BY DEF TerminatingAction
  <1> HIDE DEF Q
  <1>4. Q \in [Process -> ProcessRecord]
    BY <1>2, <1>3
  <1> QED BY <1>1, <1>2, <1>4 DEF ProcessOK, SameChildren, Q

\* Making terminated processes Idle changes no child.
LEMMA MadeIdleOK ==
    ASSUME NEW P, NEW A, NEW S, ProcessOK(P, A)
    PROVE  LET Q == MadeIdle(P, S)
           IN  ProcessOK(Q, A) /\ SameChildren(P, Q)
  <1> DEFINE Q == MadeIdle(P, S)
  <1>1. P \in [Process -> ProcessRecord] /\ A \subseteq Process
    BY DEF ProcessOK
  <1>2. ASSUME NEW p \in Process
        PROVE  /\ Q[p] \in ProcessRecord
               /\ Q[p].restarts <= Attempts[p] /\ ChildOK(p, Q[p], A)
               /\ Q[p].child = P[p].child /\ Q[p].config = P[p].config
               /\ Q[p].fgState = P[p].fgState
    <2>0. P[p] \in ProcessRecord /\ P[p].restarts <= Attempts[p] /\ ChildOK(p, P[p], A)
      BY DEF ProcessOK
    <2>1. CASE Q[p] = P[p]
      BY <2>0, <2>1
    <2>2. CASE Q[p] = [P[p] EXCEPT !.state = "Idle"] /\ P[p].state = "Terminated"
      <3>1. Q[p] \in ProcessRecord
        BY <2>0, <2>2 DEF ProcessRecord, ProcessState
      <3>2. ~Live(P[p])
        BY <2>0, <2>2 DEF ChildOK, Actived
      <3>3. /\ Q[p].child = P[p].child /\ Q[p].config = P[p].config
            /\ Q[p].fgState = P[p].fgState /\ Q[p].state = "Idle"
            /\ Q[p].restarts = P[p].restarts
        BY <2>0, <2>2 DEF ProcessRecord
      <3> QED BY <2>0, <3>1, <3>2, <3>3 DEF ChildOK, Live
    <2> QED BY <2>1, <2>2 DEF MadeIdle
  <1>3. Q = [p \in Process |-> Q[p]]
    BY DEF MadeIdle
  <1> HIDE DEF Q
  <1>4. Q \in [Process -> ProcessRecord]
    BY <1>2, <1>3
  <1> QED BY <1>1, <1>2, <1>4 DEF ProcessOK, SameChildren, Q

\* So a transition begins with the children there are.
LEMMA PreparedOK ==
    ASSUME NEW P, NEW A, NEW s, ProcessOK(P, A)
    PROVE  ProcessOK(Prepared(P, A, s), A) /\ SameChildren(P, Prepared(P, A, s))
  <1> DEFINE T == ToEnd(P, A, s)
             M == MadeIdle(P, ToStart(P, s))
  <1>1. ProcessOK(M, A) /\ SameChildren(P, M)
    BY MadeIdleOK
  <1>2. T \subseteq A
    BY DEF ToEnd
  <1> HIDE DEF T, M
  <1>3. ProcessOK(TerminatingAction(M, T, DependentsIn(P, T)), A)
        /\ SameChildren(M, TerminatingAction(M, T, DependentsIn(P, T)))
    BY <1>1, <1>2, TerminatingActionOK
  <1>4. Prepared(P, A, s) = TerminatingAction(M, T, DependentsIn(P, T))
    BY DEF Prepared, M, T
  <1> QED BY <1>1, <1>3, <1>4 DEF SameChildren

MayStart(P, R, s) ==
    R \subseteq Process /\ \A p \in R : ~Actived(P[p]) /\ Config[p][s] # "none"
Launched(P, Q, R, s) ==
    /\ \A p \in Process \ R : Q[p] = P[p]
    /\ \A p \in R : /\ ~Live(P[p]) /\ Live(Q[p])
                    /\ Q[p].config = Config[p][s] /\ Q[p].cause = "Unknown"

\* _StartingAction gives the processes it starts a child of state s.
LEMMA StartAllOK ==
    ASSUME NEW P, NEW A, NEW R, NEW U, NEW s \in State, ProcessOK(P, A), MayStart(P, R, s)
    PROVE  LET Q == StartAll(P, R, s, U)
           IN  ProcessOK(Q, A \cup R) /\ Launched(P, Q, R, s)
  <1>0. R \subseteq Process /\ \A p \in R : ~Actived(P[p]) /\ Config[p][s] # "none"
    BY DEF MayStart
  <1> DEFINE Q == StartAll(P, R, s, U)
  <1>1. P \in [Process -> ProcessRecord] /\ A \subseteq Process
    BY DEF ProcessOK
  <1>2. ASSUME NEW p \in Process \ R
        PROVE  Q[p] = P[p] /\ Q[p] \in ProcessRecord
               /\ Q[p].restarts <= Attempts[p] /\ ChildOK(p, Q[p], A \cup R)
    <2>1. P[p] \in ProcessRecord /\ P[p].restarts <= Attempts[p] /\ ChildOK(p, P[p], A)
      BY DEF ProcessOK
    <2>2. Q[p] = P[p]
      BY DEF StartAll
    <2> HIDE DEF Q
    <2> QED BY <2>1, <2>2 DEF ChildOK
  <1>3. ASSUME NEW p \in R
        PROVE  /\ Q[p] \in ProcessRecord
               /\ Q[p].restarts <= Attempts[p] /\ ChildOK(p, Q[p], A \cup R)
               /\ ~Live(P[p]) /\ Live(Q[p])
               /\ Q[p].config = Config[p][s] /\ Q[p].cause = "Unknown"
    <2>1. P[p] \in ProcessRecord /\ P[p].restarts <= Attempts[p] /\ ChildOK(p, P[p], A)
      BY <1>0 DEF ProcessOK
    <2>2. PICK b \in BOOLEAN : Q[p] = StartedFor(p, P[p], s, b)
      <3>1. CASE p \in U
        <4>1. Q[p] = StartedFor(p, P[p], s, FALSE)
          BY <1>0, <3>1 DEF StartAll, StartedFor
        <4> QED BY <4>1
      <3>2. CASE p \notin U
        <4>1. Q[p] = StartedFor(p, P[p], s, TRUE)
          BY <1>0, <3>2 DEF StartAll, StartedFor
        <4> QED BY <4>1
      <3> QED BY <3>1, <3>2
    <2>3. p \in Process /\ Config[p][s] # "none"
      BY <1>0
    <2> HIDE DEF Q
    <2>4. /\ Q[p] \in ProcessRecord
          /\ Q[p].child = "live" /\ Q[p].config = Config[p][s] /\ Q[p].fgState = s
          /\ Q[p].cause = "Unknown" /\ Q[p].restarts = P[p].restarts
          /\ Live(Q[p]) /\ Actived(Q[p])
      BY <2>1, <2>2, <2>3, StartedForFacts
    <2>5. ~Live(P[p])
      BY <1>0, <2>1 DEF ChildOK
    <2> QED BY <2>1, <2>3, <2>4, <2>5 DEF ChildOK
  <1>4. Q = [p \in Process |-> Q[p]]
    BY DEF StartAll
  <1> HIDE DEF Q
  <1>5. Q \in [Process -> ProcessRecord]
    BY <1>2, <1>3, <1>4
  <1> QED BY <1>0, <1>1, <1>2, <1>3, <1>5 DEF ProcessOK, Launched, Q

-----------------------------------------------------------------------------
(***************************************************************************)
(* The steps of the state machine establish the invariant.                 *)
(***************************************************************************)

StateName  == State \cup {NoState}
GroupState == State \cup {NoState, Undefined, Stopped}

\* A transition to s may go on while SM waits for r.
Serves(s, r) == r = NoState \/ s = r \/ (MachineFG /\ s = Off)

\* Stop leaves no child.
LEMMA HaltOK ==
    ASSUME NEW P, NEW A, ProcessOK(P, A), Halt(P)
    PROVE  /\ halted'
           /\ proc' \in [Process -> ProcessRecord]
           /\ \A p \in Process : proc'[p].restarts <= Attempts[p] /\ ~Live(proc'[p])
  <1>1. proc' = [p \in Process |->
                   [Killed(P[p], "Request") EXCEPT !.child = "none", !.report = "none"]]
    BY DEF Halt
  <1>2. ASSUME NEW p \in Process
        PROVE  proc'[p] \in ProcessRecord /\ proc'[p].restarts <= Attempts[p] /\ ~Live(proc'[p])
    <2> DEFINE k == Killed(P[p], "Request")
    <2>1. P[p] \in ProcessRecord /\ P[p].restarts <= Attempts[p] /\ "Request" \in Cause
      BY DEF ProcessOK, Cause
    <2>2. k \in ProcessRecord /\ k.restarts = P[p].restarts
      BY <2>1, KilledFacts
    <2>3. proc'[p] = [k EXCEPT !.child = "none", !.report = "none"]
      BY <1>1
    <2> HIDE DEF k
    <2>4. proc'[p] \in ProcessRecord
      BY <2>2, <2>3 DEF ProcessRecord
    <2>5. proc'[p].restarts = k.restarts /\ proc'[p].child = "none"
      BY <2>2, <2>3 DEF ProcessRecord
    <2> QED BY <2>1, <2>2, <2>4, <2>5 DEF Live
  <1> QED BY <1>1, <1>2 DEF Halt

\* OnFinal of a transition that has done its work.
LEMMA FinalOK ==
    ASSUME NEW P, NEW A, NEW s \in StateName, NEW r \in StateName,
           NEW g \in State, NEW F \in SUBSET Process, NEW L \in SUBSET Process,
           ~halted, halted \in BOOLEAN,
           ProcessOK(P, A), StartedOK(P, g, F, L), Final(P, A, s, r, <<g, F, L>>)
    PROVE  IInv'
  <1>1. /\ fsm' = "Started" /\ current' = s /\ next' = NoState
        /\ starting' = {} /\ ending' = {} /\ dependents' = NoDependents
        /\ active' = A
        /\ goal' = g /\ fresh' = F /\ late' = L
    BY DEF Final, NoLists, Recorded
  <1>2. A \subseteq Process /\ dependents' \in [Process -> SUBSET Process]
    BY <1>1 DEF ProcessOK, NoDependents
  <1>3. AnswerMatchesRequest'
    BY <1>1 DEF AnswerMatchesRequest
  <1>4. CASE Halt(P) /\ session' = r
    <2>1. /\ halted' /\ proc' \in [Process -> ProcessRecord]
          /\ \A p \in Process : proc'[p].restarts <= Attempts[p] /\ ~Live(proc'[p])
      BY <1>4, HaltOK
    <2>2. halted' \in BOOLEAN
      BY <1>4 DEF Halt
    <2>3. TypeOK'
      BY <1>1, <1>2, <1>4, <2>1, <2>2 DEF TypeOK, FsmState, StateName
    <2> QED BY <1>1, <1>3, <2>1, <2>3 DEF IInv, Live
  <1>5. CASE proc' = P /\ session' = NoState /\ UNCHANGED halted
    <2>1. TypeOK'
      BY <1>1, <1>2, <1>5 DEF TypeOK, FsmState, StateName, ProcessOK
    <2>2. ProcessOK(proc', active') /\ StartedOK(proc', goal', fresh', late')
      BY <1>1, <1>5
    <2> QED BY <1>1, <1>3, <1>5, <2>1, <2>2 DEF IInv
  <1> QED BY <1>4, <1>5 DEF Final

\* OnError, with or without the nested transition to Off.
LEMMA OnErrorOK ==
    ASSUME NEW P, NEW A, NEW r \in StateName,
           NEW g \in State, NEW F \in SUBSET Process, NEW L \in SUBSET Process,
           ~halted, halted \in BOOLEAN, late \subseteq Process,
           ProcessOK(P, A), OnError(P, A, r, <<g, F, L>>)
    PROVE  IInv'
  <1>0. Off \in State
    BY GroupAssumption
  <1>1. /\ fsm' = "Invalid" /\ active' = A
        /\ starting' = {} /\ ending' = {} /\ dependents' = NoDependents
    BY DEF OnError, NoLists
  <1>2. A \subseteq Process /\ dependents' \in [Process -> SUBSET Process]
    BY <1>1 DEF ProcessOK, NoDependents
  <1>3. AnswerMatchesRequest'
    BY <1>1 DEF AnswerMatchesRequest
  <1>4. goal' \in State /\ fresh' \subseteq Process /\ late' \subseteq Process
    BY <1>0 DEF OnError, Recorded, NewHistory, ToStart
  <1>5. current' \in GroupState /\ next' \in StateName /\ session' \in StateName
    BY <1>0 DEF OnError, GroupState, StateName
  <1>6. CASE Halt(P)
    <2>1. /\ halted' /\ proc' \in [Process -> ProcessRecord]
          /\ \A p \in Process : proc'[p].restarts <= Attempts[p] /\ ~Live(proc'[p])
      BY <1>6, HaltOK
    <2>2. halted' \in BOOLEAN
      BY <1>6 DEF Halt
    <2>3. TypeOK'
      BY <1>1, <1>2, <1>4, <1>5, <2>1, <2>2 DEF TypeOK, FsmState, StateName, GroupState
    <2> QED BY <1>1, <1>3, <2>1, <2>3 DEF IInv, Live
  <1>7. ASSUME NEW Q, ProcessOK(Q, A), proc' = Q, UNCHANGED halted
        PROVE  IInv'
    <2>1. TypeOK'
      BY <1>1, <1>2, <1>4, <1>5, <1>7 DEF TypeOK, FsmState, StateName, GroupState, ProcessOK
    <2>2. ProcessOK(proc', active')
      BY <1>1, <1>7
    <2> QED BY <1>1, <1>3, <1>7, <2>1, <2>2 DEF IInv
  <1>8. CASE proc' = P /\ UNCHANGED halted
    BY <1>7, <1>8
  <1>9. CASE proc' = Prepared(P, A, Off) /\ UNCHANGED halted
    BY <1>7, <1>9, PreparedOK
  <1> QED BY <1>6, <1>8, <1>9 DEF OnError

\* What a scan starts keeps the transition in order.
LEMMA StartAllStarting ==
    ASSUME NEW P, NEW A, NEW S, NEW s \in State, NEW R, NEW U,
           NEW F \in SUBSET Process, NEW L \in SUBSET Process,
           ProcessOK(P, A), StartingOK(P, S, s, F, L), R \subseteq Startable(P, S, s)
    PROVE  LET Q == StartAll(P, R, s, U)
           IN  ProcessOK(Q, A \cup R) /\ StartingOK(Q, S, s, F, L)
  <1> DEFINE Q == StartAll(P, R, s, U)
  <1>1. MayStart(P, R, s)
    BY DEF Startable, StartingOK, Listed, MayStart
  <1>2. ProcessOK(Q, A \cup R) /\ Launched(P, Q, R, s)
    BY <1>1, StartAllOK
  <1> HIDE DEF Q
  <1>3. OnlyOf(Q, s)
    BY <1>2 DEF StartingOK, OnlyOf, Launched
  <1>4. \A p \in F \ L : p \in S \/ There(p, Q[p], s)
    BY <1>2 DEF StartingOK, There, Launched
  <1>5. Unasked(Q, F, L)
    BY <1>2 DEF StartingOK, Unasked, Launched
  <1> QED BY <1>2, <1>3, <1>4, <1>5 DEF StartingOK, Q

\* A scan of the startup list.
LEMMA ScanOK ==
    ASSUME NEW P, NEW A, NEW S, NEW s \in State, NEW r \in StateName,
           NEW F \in SUBSET Process, NEW L \in SUBSET Process, NEW cur \in GroupState,
           ~halted, halted \in BOOLEAN, late \subseteq Process, Serves(s, r), S # {},
           ProcessOK(P, A), StartingOK(P, S, s, F, L),
           Scan(P, A, S, s, r, <<s, F, L>>, cur)
    PROVE  IInv'
  <1>1. ASSUME NEW R \in Scans(P, S, s), NEW U,
               /\ proc' = StartAll(P, R, s, U)
               /\ active' = A \cup R
               /\ fsm' = "Starting" /\ next' = s /\ current' = cur
               /\ starting' = S /\ ending' = {} /\ dependents' = NoDependents
               /\ session' = r
               /\ UNCHANGED halted
               /\ Recorded(<<s, F, L>>)
        PROVE  IInv'
    <2>1. R \subseteq Startable(P, S, s)
      BY DEF Scans
    <2>2. ProcessOK(proc', active') /\ StartingOK(proc', S, s, F, L)
      BY <1>1, <2>1, StartAllStarting
    <2>3. goal' = s /\ fresh' = F /\ late' = L
      BY <1>1 DEF Recorded
    <2>4. S \subseteq Process /\ dependents' \in [Process -> SUBSET Process]
      BY <1>1 DEF StartingOK, Listed, NoDependents
    <2>5. TypeOK'
      BY <1>1, <2>2, <2>3, <2>4 DEF TypeOK, FsmState, ProcessOK, StateName, GroupState
    <2>6. AnswerMatchesRequest'
      BY <1>1 DEF AnswerMatchesRequest, Serves
    <2>7. StartingOK(proc', starting', goal', fresh', late')
      BY <1>1, <2>2, <2>3
    <2> QED BY <1>1, <2>2, <2>3, <2>5, <2>6, <2>7 DEF IInv
  <1>2. ASSUME NEW R \in SUBSET Startable(P, S, s), NEW U,
               OnError(StartAll(P, R, s, U), A \cup R, r, <<s, F, L>>)
        PROVE  IInv'
    <2>1. ProcessOK(StartAll(P, R, s, U), A \cup R)
      BY StartAllStarting
    <2> QED BY <1>2, <2>1, OnErrorOK
  <1> QED BY <1>1, <1>2 DEF Scan

\* kStarting is entered, or passed through.
LEMMA EnterStartingOK ==
    ASSUME NEW P, NEW A, NEW S, NEW s \in State, NEW r \in StateName,
           NEW F \in SUBSET Process, NEW L \in SUBSET Process, NEW cur \in GroupState,
           ~halted, halted \in BOOLEAN, late \subseteq Process, Serves(s, r),
           ProcessOK(P, A), StartingOK(P, S, s, F, L),
           EnterStarting(P, A, S, s, r, <<s, F, L>>, cur)
    PROVE  IInv'
  <1>1. CASE S = {}
    <2>1. StartedOK(P, s, F, L)
      BY <1>1 DEF StartingOK, StartedOK
    <2>2. Final(P, A, s, r, <<s, F, L>>) /\ s \in StateName
      BY <1>1 DEF EnterStarting, StateName
    <2> QED BY <2>1, <2>2, FinalOK
  <1>2. CASE S # {}
    BY <1>2, ScanOK DEF EnterStarting
  <1> QED BY <1>1, <1>2

\* The state after Init is one a transition may begin in.
LEMMA InitLists ==
    ASSUME NEW P, NEW A, NEW s \in State, NEW L, ProcessOK(P, A)
    PROVE  LET Q == Prepared(P, A, s)
               T == ToEnd(P, A, s)
               S == ToStart(P, s)
           IN  /\ T = {} => StartingOK(Q, S, s, S, L)
               /\ T # {} => TerminatingOK(Q, S, T, DependentsIn(P, T), s, S, L)
               /\ T \subseteq Process /\ S \subseteq Process
               /\ DependentsIn(P, T) \in [Process -> SUBSET Process]
  <1> DEFINE Q == Prepared(P, A, s)
             T == ToEnd(P, A, s)
             S == ToStart(P, s)
             D == DependentsIn(P, T)
  <1>1. ProcessOK(Q, A) /\ SameChildren(P, Q)
    BY PreparedOK
  <1>2. A \subseteq Process /\ \A p \in Process : ChildOK(p, P[p], A)
    BY DEF ProcessOK
  <1>3. \A p \in Process : p \in T <=> Live(P[p]) /\ P[p].config # Config[p][s]
    BY <1>2 DEF ToEnd, ChildOK
  <1>4. T \subseteq Process /\ S \subseteq Process /\ Listed(S, s)
    BY <1>2 DEF ToEnd, ToStart, Listed
  <1>5. \A p \in S : P[p].config # Config[p][s]
    BY DEF ToStart
  <1>6. D \in [Process -> SUBSET Process]
    BY <1>4 DEF DependentsIn
  <1>7. \A p, q \in T : p \in RunDep[q][P[q].fgState] => q \in D[p]
    <2>1. \A q \in T : P[q].fgState \in State
      BY <1>2, <1>3, <1>4 DEF ChildOK
    <2>2. NoState \notin State
      BY GroupAssumption
    <2> QED BY <1>4, <2>1, <2>2 DEF DependentsIn
  <1>8. \A p \in Process : /\ Live(Q[p]) <=> Live(P[p])
                           /\ Q[p].config = P[p].config /\ Q[p].fgState = P[p].fgState
    BY <1>1 DEF SameChildren, Live
  <1> HIDE DEF Q, T, S, D
  <1>9. ASSUME T = {}
        PROVE  StartingOK(Q, S, s, S, L)
    <2>1. OnlyOf(Q, s)
      BY <1>3, <1>8, <1>9 DEF OnlyOf
    <2>2. Unasked(Q, S, L)
      BY <1>3, <1>4, <1>5, <1>8, <1>9 DEF Unasked
    <2> QED BY <1>4, <2>1, <2>2 DEF StartingOK
  <1>10. ASSUME T # {}
         PROVE  TerminatingOK(Q, S, T, D, s, S, L)
    <2>1. \A p \in T : Live(Q[p])
      BY <1>3, <1>4, <1>8
    <2>2. \A p \in Process : Live(Q[p]) => Q[p].config = Config[p][s] \/ p \in T
      BY <1>3, <1>8
    <2>3. \A p \in S \ L : p \in S /\ (Live(Q[p]) => p \in T)
      BY <1>3, <1>4, <1>5, <1>8
    <2>4. \A p, q \in T : p \in RunDep[q][Q[q].fgState] => q \in D[p]
      BY <1>4, <1>7, <1>8
    <2> QED BY <1>4, <1>10, <2>1, <2>2, <2>3, <2>4 DEF TerminatingOK
  <1> QED BY <1>4, <1>6, <1>9, <1>10 DEF Q, T, S, D

\* A transition begins.
LEMMA StartTransformOK ==
    ASSUME NEW P, NEW A, NEW s \in State, NEW r \in StateName, NEW cur \in GroupState,
           ~halted, halted \in BOOLEAN, late \subseteq Process, Serves(s, r),
           ProcessOK(P, A), StartTransformState(P, A, s, r, cur)
    PROVE  IInv'
  <1> DEFINE Q == Prepared(P, A, s)
             T == ToEnd(P, A, s)
             S == ToStart(P, s)
             D == DependentsIn(P, T)
  <1>1. ProcessOK(Q, A)
    BY PreparedOK
  <1>2. /\ T = {} => StartingOK(Q, S, s, S, late)
        /\ T # {} => TerminatingOK(Q, S, T, D, s, S, late)
        /\ T \subseteq Process /\ S \subseteq Process
        /\ D \in [Process -> SUBSET Process]
    BY InitLists
  <1>3. NewHistory(P, s) = <<s, S, late>>
    BY DEF NewHistory
  <1>4. \/ T = {} /\ EnterStarting(Q, A, S, s, r, <<s, S, late>>, cur)
        \/ /\ T # {}
           /\ fsm' = "Terminating" /\ next' = s /\ current' = cur
           /\ starting' = S /\ ending' = T /\ dependents' = D
           /\ proc' = Q /\ active' = A /\ session' = r
           /\ UNCHANGED halted
           /\ goal' = s /\ fresh' = S /\ late' = late
    BY <1>3 DEF StartTransformState, Recorded
  <1> HIDE DEF Q, T, S, D
  <1>5. CASE T = {}
    BY <1>1, <1>2, <1>4, <1>5, EnterStartingOK
  <1>6. CASE T # {}
    <2>1. TypeOK'
      BY <1>1, <1>2, <1>4, <1>6 DEF TypeOK, FsmState, ProcessOK, StateName, GroupState
    <2>2. AnswerMatchesRequest'
      BY <1>4, <1>6 DEF AnswerMatchesRequest, Serves
    <2>3. /\ ProcessOK(proc', active')
          /\ TerminatingOK(proc', starting', ending', dependents', goal', fresh', late')
      BY <1>1, <1>2, <1>4, <1>6
    <2> QED BY <1>4, <1>6, <2>1, <2>2, <2>3 DEF IInv
  <1> QED BY <1>5, <1>6

\* The state is given up.
LEMMA FallUndefinedOK ==
    ASSUME NEW P, NEW A, TypeOK, ~halted, ProcessOK(P, A), FallUndefined(P, A)
    PROVE  IInv'
  <1>0. Off \in State
    BY GroupAssumption
  <1>1. CASE Manageable(P)
    <2>1. /\ fsm' = "Invalid" /\ current' = Undefined /\ next' = NoState
          /\ starting' = {} /\ ending' = {} /\ dependents' = NoDependents
          /\ proc' = P /\ active' = A /\ session' = NoState
          /\ halted' = halted /\ goal' = goal /\ fresh' = fresh /\ late' = late
      BY <1>1 DEF FallUndefined, NoLists, histVars
    <2>2. dependents' \in [Process -> SUBSET Process]
      BY <2>1 DEF NoDependents
    <2>3. TypeOK'
      BY <2>1, <2>2 DEF TypeOK, FsmState, ProcessOK
    <2>4. AnswerMatchesRequest' /\ ProcessOK(proc', active')
      BY <2>1 DEF AnswerMatchesRequest
    <2> QED BY <2>1, <2>3, <2>4 DEF IInv
  <1>2. CASE ~Manageable(P)
    <2>1. MachineFG
      BY <1>2 DEF Manageable
    <2>2. Serves(Off, session) /\ session \in StateName /\ Undefined \in GroupState
      BY <2>1 DEF Serves, StateName, TypeOK, GroupState
    <2>3. StartTransformState(P, A, Off, session, Undefined)
      BY <1>2 DEF FallUndefined
    <2>4. halted \in BOOLEAN /\ late \subseteq Process
      BY DEF TypeOK
    <2> QED BY <1>0, <2>2, <2>3, <2>4, StartTransformOK
  <1> QED BY <1>1, <1>2

-----------------------------------------------------------------------------
(***************************************************************************)
(* The handlers preserve the invariant.                                    *)
(***************************************************************************)

SameCause(P, Q) == \A p \in Process : Q[p].cause = P[p].cause

\* A process is set Running.
LEMMA StartedEventOK ==
    ASSUME NEW P, NEW p \in Process, IInv, ~halted, ProcessOK(P, active),
           SameChildren(proc, P), SameCause(proc, P), StartedEvent(P, p)
    PROVE  IInv'
  <1> DEFINE S == starting \ {p}
             L == IF Punctual(p) THEN late ELSE late \cup {p}
  <1>1. TypeOK /\ AnswerMatchesRequest /\ ProcessOK(proc, active)
    BY DEF IInv
  <1>2. L \subseteq Process /\ late \subseteq L /\ (p \notin L => Punctual(p))
    BY <1>1 DEF TypeOK
  <1>3. \A q \in Process : /\ Live(P[q]) <=> Live(proc[q])
                           /\ P[q].config = proc[q].config /\ P[q].fgState = proc[q].fgState
                           /\ P[q].cause = proc[q].cause
    BY DEF SameChildren, SameCause, Live
  <1>4. Punctual(p) => Live(proc[p]) /\ p \notin ending
    BY <1>1 DEF ProcessOK, ChildOK, Punctual
  <1>5. fresh \subseteq Process /\ starting \subseteq Process /\ ending \subseteq Process
        /\ goal \in State /\ session \in StateName /\ next \in StateName
        /\ halted \in BOOLEAN /\ late \subseteq Process /\ current \in GroupState
    BY <1>1 DEF TypeOK, StateName, GroupState
  <1> HIDE DEF L
  <1>6. ASSUME fsm = "Terminating"
        PROVE  TerminatingOK(P, S, ending, dependents, goal, fresh, L)
    <2>1. TerminatingOK(proc, starting, ending, dependents, goal, fresh, late)
      BY <1>6 DEF IInv
    <2>2. \A q \in fresh \ L : q \in S /\ (Live(P[q]) => q \in ending)
      BY <1>2, <1>3, <1>4, <1>5, <2>1 DEF TerminatingOK
    <2>3. Listed(S, goal)
      BY <2>1 DEF TerminatingOK, Listed
    <2> QED BY <1>3, <1>5, <2>1, <2>2, <2>3 DEF TerminatingOK
  <1>7. ASSUME fsm = "Starting"
        PROVE  StartingOK(P, S, goal, fresh, L)
    <2>1. StartingOK(proc, starting, goal, fresh, late)
      BY <1>7 DEF IInv
    <2>2. \A q \in fresh \ L : q \in S \/ There(q, P[q], goal)
      BY <1>2, <1>3, <1>4, <1>5, <2>1 DEF StartingOK, There
    <2>3. OnlyOf(P, goal) /\ Unasked(P, fresh, L) /\ Listed(S, goal)
      BY <1>2, <1>3, <1>5, <2>1 DEF StartingOK, OnlyOf, Unasked, Listed
    <2> QED BY <2>2, <2>3 DEF StartingOK
  <1>8. ASSUME fsm = "Started"
        PROVE  StartedOK(P, goal, fresh, L)
    <2>1. StartedOK(proc, goal, fresh, late)
      BY <1>8 DEF IInv
    <2> QED BY <1>2, <1>3, <1>5, <2>1 DEF StartedOK, OnlyOf, Unasked, There
  <1>9. CASE /\ fsm \in {"Invalid", "Terminating"} \/ (fsm = "Starting" /\ p \notin starting)
             /\ proc' = P /\ starting' = S
             /\ UNCHANGED <<fsm, current, next, ending, dependents, active, session, halted>>
             /\ Recorded(<<goal, fresh, L>>)
    <2>1. goal' = goal /\ fresh' = fresh /\ late' = L
      BY <1>9 DEF Recorded
    <2>2. TypeOK'
      BY <1>1, <1>2, <1>9, <2>1 DEF TypeOK, ProcessOK
    <2>3. AnswerMatchesRequest'
      BY <1>1, <1>9 DEF AnswerMatchesRequest
    <2>4. fsm = "Starting" => starting # {} /\ S = starting
      BY <1>9 DEF IInv
    <2> QED BY <1>6, <1>7, <1>9, <2>1, <2>2, <2>3, <2>4 DEF IInv
  <1>10. CASE /\ fsm = "Starting" /\ p \in starting
              /\ EnterStarting(P, active, S, next, session, <<goal, fresh, L>>, current)
    <2>1. next = goal /\ Serves(goal, session)
      BY <1>1, <1>10 DEF IInv, AnswerMatchesRequest, Serves
    <2> HIDE DEF S
    <2> QED BY <1>2, <1>5, <1>7, <1>10, <2>1, EnterStartingOK
  <1>11. CASE fsm = "Started" /\ Final(P, active, next, session, <<goal, fresh, L>>)
    BY <1>2, <1>5, <1>8, <1>11, FinalOK
  <1> QED BY <1>9, <1>10, <1>11 DEF StartedEvent, L

\* What is left of the processes when p is reaped.
LostOnly(p, P, Q) ==
    /\ ~Live(Q[p]) /\ Q[p].fgState = P[p].fgState
    /\ \A q \in Process \ {p} : Q[q] = P[q]

\* The end of a process is noticed.
LEMMA TerminatedEventOK ==
    ASSUME NEW P, NEW A, NEW p \in Process, IInv, ~halted, Live(proc[p]),
           fsm # "Invalid", p \in ending \/ TerminatedNormally(p, proc[p]),
           ProcessOK(P, A), LostOnly(p, proc, P), TerminatedEvent(P, A, p)
    PROVE  IInv'
  <1> DEFINE T == ending \ {p}
             D == [q \in Process |-> dependents[q] \ {p}]
             done == p \notin ending /\ IsSelfTerminate(p, P[p])
  <1>1. TypeOK /\ AnswerMatchesRequest /\ ProcessOK(proc, active)
    BY DEF IInv
  <1>2. \A q \in Process \ {p} : P[q] = proc[q]
    BY DEF LostOnly
  <1>3. ~Live(P[p]) /\ P[p].fgState = proc[p].fgState
    BY DEF LostOnly
  <1>4. fresh \subseteq Process /\ starting \subseteq Process /\ ending \subseteq Process
        /\ goal \in State /\ session \in StateName /\ next \in StateName
        /\ halted \in BOOLEAN /\ late \subseteq Process /\ current \in GroupState
        /\ A \subseteq Process /\ fsm \in FsmState
        /\ dependents \in [Process -> SUBSET Process]
    BY <1>1 DEF TypeOK, StateName, GroupState, ProcessOK
  <1>5. /\ proc[p].config = Config[p][proc[p].fgState] /\ proc[p].fgState \in State
    BY <1>1 DEF ProcessOK, ChildOK
  <1>6. histVars = <<goal, fresh, late>>
    BY DEF histVars
  <1>7. D \in [Process -> SUBSET Process]
    BY <1>4
  \* a process the transition has to start has not been asked to end
  <1>8. ASSUME fsm \in {"Starting", "Started"}, p \in fresh \ late
        PROVE  Config[p][goal] \in SelfTerminating /\ done
    <2>1. OnlyOf(proc, goal) /\ Unasked(proc, fresh, late) /\ ending = {}
      BY <1>8 DEF IInv, StartingOK, StartedOK
    <2>2. proc[p].cause # "Request" /\ proc[p].config = Config[p][goal]
      BY <1>8, <2>1 DEF OnlyOf, Unasked
    <2>3. IsSelfTerminate(p, proc[p])
      BY <2>1, <2>2 DEF TerminatedNormally
    <2> QED BY <1>3, <1>5, <2>1, <2>2, <2>3 DEF IsSelfTerminate
  <1>9. ASSUME fsm = "Starting"
        PROVE  StartingOK(P, starting, goal, fresh, late)
    <2>1. StartingOK(proc, starting, goal, fresh, late)
      BY <1>9 DEF IInv
    <2>2. \A q \in fresh \ late : q \in starting \/ There(q, P[q], goal)
      BY <1>2, <1>4, <1>8, <1>9, <2>1 DEF StartingOK, There
    <2> QED BY <1>2, <1>3, <1>4, <2>1, <2>2 DEF StartingOK, OnlyOf, Unasked
  <1>10. ASSUME fsm = "Started"
         PROVE  StartedOK(P, goal, fresh, late)
    <2>1. StartedOK(proc, goal, fresh, late)
      BY <1>10 DEF IInv
    <2>2. \A q \in fresh \ late : There(q, P[q], goal)
      BY <1>2, <1>4, <1>8, <1>10, <2>1 DEF StartedOK, There
    <2> QED BY <1>2, <1>3, <1>4, <2>1, <2>2 DEF StartedOK, OnlyOf, Unasked
  <1>11. ASSUME fsm = "Terminating"
         PROVE  /\ TerminatingOK(proc, starting, ending, dependents, goal, fresh, late)
                /\ Listed(starting, goal)
                /\ \A q \in Process : Live(P[q]) => Live(proc[q]) /\ P[q] = proc[q] /\ q # p
    BY <1>2, <1>3, <1>11 DEF IInv, TerminatingOK
  <1>12. ASSUME fsm \in {"Terminating", "Starting"}
         PROVE  next = goal /\ Serves(goal, session)
    BY <1>1, <1>12 DEF IInv, AnswerMatchesRequest, Serves
  <1>13. p \in ending => fsm = "Terminating"
    BY DEF IInv
  <1>14. CASE /\ p \in ending /\ T = {}
              /\ EnterStarting(P, A, starting, next, session, histVars, current)
    <2>1. ending = {p}
      BY <1>14
    <2>2. StartingOK(P, starting, goal, fresh, late)
      <3>1. OnlyOf(P, goal)
        BY <1>11, <1>13, <1>14, <2>1 DEF TerminatingOK, OnlyOf
      <3>2. Unasked(P, fresh, late)
        BY <1>4, <1>11, <1>13, <1>14, <2>1 DEF TerminatingOK, Unasked
      <3> QED BY <1>11, <1>13, <1>14, <3>1, <3>2 DEF TerminatingOK, StartingOK
    <2>3. EnterStarting(P, A, starting, goal, session, <<goal, fresh, late>>, current)
      BY <1>6, <1>12, <1>13, <1>14
    <2> QED BY <1>4, <1>12, <1>13, <1>14, <2>2, <2>3, EnterStartingOK
  <1>15. CASE /\ p \in ending /\ T # {}
              /\ proc' = TerminatingAction(P, T, D)
              /\ ending' = T /\ dependents' = D /\ active' = A
              /\ UNCHANGED <<fsm, current, next, starting, session, halted, histVars>>
    <2> HIDE DEF D
    <2>1. TerminatingOK(proc, starting, ending, dependents, goal, fresh, late)
      BY <1>11, <1>13, <1>15
    <2>2. T \subseteq A
      BY <1>2, <1>4, <2>1 DEF TerminatingOK, ProcessOK, ChildOK
    <2>3. ProcessOK(proc', A) /\ SameChildren(P, proc')
      BY <1>15, <2>2, TerminatingActionOK
    <2>4. goal' = goal /\ fresh' = fresh /\ late' = late
      BY <1>15 DEF histVars
    <2>5. \A q \in Process : /\ Live(proc'[q]) <=> Live(P[q])
                             /\ proc'[q].config = P[q].config
                             /\ proc'[q].fgState = P[q].fgState
      BY <2>3 DEF SameChildren, Live
    <2>6. \A q \in T : D[q] = dependents[q] \ {p}
      BY <1>4 DEF D
    <2>7. TerminatingOK(proc', starting, T, D, goal, fresh, late)
      <3>1. \A q \in T : Live(proc'[q])
        BY <1>2, <1>4, <2>1, <2>5 DEF TerminatingOK
      <3>2. \A q \in Process : Live(proc'[q]) => proc'[q].config = Config[q][goal] \/ q \in T
        BY <1>11, <1>13, <1>15, <2>1, <2>5 DEF TerminatingOK
      <3>3. \A q \in fresh \ late : q \in starting /\ (Live(proc'[q]) => q \in T)
        BY <1>4, <1>11, <1>13, <1>15, <2>1, <2>5 DEF TerminatingOK
      <3>4. \A q, t \in T : q \in RunDep[t][proc'[t].fgState] => t \in D[q]
        BY <1>2, <1>4, <2>1, <2>5, <2>6 DEF TerminatingOK
      <3> QED BY <1>15, <2>1, <3>1, <3>2, <3>3, <3>4 DEF TerminatingOK
    <2>8. TypeOK'
      BY <1>1, <1>4, <1>7, <1>15, <2>3, <2>4 DEF TypeOK, ProcessOK
    <2>9. AnswerMatchesRequest'
      BY <1>1, <1>15 DEF AnswerMatchesRequest
    <2> QED BY <1>12, <1>13, <1>15, <2>3, <2>4, <2>7, <2>8, <2>9 DEF IInv
  <1>16. CASE /\ done /\ fsm = "Starting"
              /\ Scan(P, A, starting, next, session, histVars, current)
    <2>1. starting # {}
      BY <1>16 DEF IInv
    <2>2. Scan(P, A, starting, goal, session, <<goal, fresh, late>>, current)
      BY <1>6, <1>12, <1>16
    <2> QED BY <1>4, <1>9, <1>12, <1>16, <2>1, <2>2, ScanOK
  <1>17. CASE done /\ fsm = "Started" /\ Final(P, A, next, session, histVars)
    BY <1>4, <1>6, <1>10, <1>17, FinalOK
  <1>18. CASE /\ p \notin ending /\ (~done \/ fsm = "Terminating")
              /\ proc' = P /\ active' = A
              /\ dependents' = D
              /\ UNCHANGED <<fsm, current, next, starting, ending, session, halted, histVars>>
    <2> HIDE DEF D
    <2>1. goal' = goal /\ fresh' = fresh /\ late' = late
      BY <1>18 DEF histVars
    <2>2. TypeOK'
      BY <1>1, <1>4, <1>7, <1>18, <2>1 DEF TypeOK, ProcessOK
    <2>3. AnswerMatchesRequest'
      BY <1>1, <1>18 DEF AnswerMatchesRequest
    <2>4. fsm = "Terminating" => TerminatingOK(P, starting, ending, D, goal, fresh, late)
      <3> SUFFICES ASSUME fsm = "Terminating"
                   PROVE  TerminatingOK(P, starting, ending, D, goal, fresh, late)
        OBVIOUS
      <3>0. TerminatingOK(proc, starting, ending, dependents, goal, fresh, late)
        BY <1>11
      <3>1. \A q \in ending : P[q] = proc[q] /\ D[q] = dependents[q] \ {p} /\ q # p
        BY <1>2, <1>4, <1>18 DEF D
      <3>2. \A q \in ending : Live(P[q])
        BY <3>0, <3>1 DEF TerminatingOK
      <3>3. \A q \in Process : Live(P[q]) => P[q].config = Config[q][goal] \/ q \in ending
        BY <1>11, <3>0 DEF TerminatingOK
      <3>4. \A q \in fresh \ late : q \in starting /\ (Live(P[q]) => q \in ending)
        BY <1>4, <1>11, <3>0 DEF TerminatingOK
      <3>5. \A q, t \in ending : q \in RunDep[t][P[t].fgState] => t \in D[q]
        BY <3>0, <3>1 DEF TerminatingOK
      <3> QED BY <3>0, <3>2, <3>3, <3>4, <3>5 DEF TerminatingOK
    <2>5. fsm = "Starting" => starting # {}
      BY DEF IInv
    <2>6. fsm # "Terminating" => ending = {}
      BY DEF IInv
    <2> QED BY <1>9, <1>10, <1>12, <1>18, <2>1, <2>2, <2>3, <2>4, <2>5, <2>6 DEF IInv
  <1> QED BY <1>14, <1>15, <1>16, <1>17, <1>18 DEF TerminatedEvent

\* What a step may do to one process without touching the group.
Keeps(p, r) ==
    /\ r \in ProcessRecord /\ r.restarts <= Attempts[p]
    /\ ChildOK(p, r, active)
    /\ Live(r) <=> Live(proc[p])
    /\ r.config = proc[p].config /\ r.fgState = proc[p].fgState
    /\ r.cause = "Request" => proc[p].cause = "Request"

\* A step of one process.
LEMMA ProcessStepOK ==
    ASSUME NEW p \in Process, NEW r, IInv, ~halted, Keeps(p, r), ProcessStep(p, r)
    PROVE  IInv'
  <1>1. TypeOK /\ AnswerMatchesRequest /\ ProcessOK(proc, active)
    BY DEF IInv
  <1>2. /\ proc' = [proc EXCEPT ![p] = r]
        /\ fsm' = fsm /\ current' = current /\ next' = next /\ starting' = starting
        /\ ending' = ending /\ dependents' = dependents /\ active' = active
        /\ session' = session /\ halted' = halted
        /\ goal' = goal /\ fresh' = fresh /\ late' = late
    BY DEF ProcessStep, listVars, histVars
  <1>3. proc \in [Process -> ProcessRecord]
    BY <1>1 DEF TypeOK
  <1>4. proc'[p] = r /\ \A q \in Process \ {p} : proc'[q] = proc[q]
    BY <1>2, <1>3
  <1>5. proc' \in [Process -> ProcessRecord]
    BY <1>2, <1>3 DEF Keeps
  <1>6. ProcessOK(proc', active')
    BY <1>1, <1>2, <1>4, <1>5 DEF ProcessOK, Keeps
  <1>7. \A q \in Process : /\ Live(proc'[q]) <=> Live(proc[q])
                           /\ proc'[q].config = proc[q].config
                           /\ proc'[q].fgState = proc[q].fgState
                           /\ proc'[q].cause = "Request" => proc[q].cause = "Request"
    BY <1>4 DEF Keeps
  <1>8. TypeOK'
    BY <1>1, <1>2, <1>5, <1>6 DEF TypeOK, ProcessOK
  <1>9. AnswerMatchesRequest'
    BY <1>1, <1>2 DEF AnswerMatchesRequest
  <1>10. fresh \subseteq Process /\ ending \subseteq Process /\ goal \in State
    BY <1>1 DEF TypeOK
  <1>11. ASSUME fsm = "Terminating"
         PROVE  TerminatingOK(proc', starting, ending, dependents, goal, fresh, late)
    <2>1. TerminatingOK(proc, starting, ending, dependents, goal, fresh, late)
      BY <1>11 DEF IInv
    <2> QED BY <1>7, <1>10, <2>1 DEF TerminatingOK
  <1>12. ASSUME fsm = "Starting"
         PROVE  starting # {} /\ StartingOK(proc', starting, goal, fresh, late)
    <2>1. starting # {} /\ StartingOK(proc, starting, goal, fresh, late)
      BY <1>12 DEF IInv
    <2> QED BY <1>7, <1>10, <2>1 DEF StartingOK, OnlyOf, Unasked, There
  <1>13. ASSUME fsm = "Started"
         PROVE  StartedOK(proc', goal, fresh, late)
    <2>1. StartedOK(proc, goal, fresh, late)
      BY <1>13 DEF IInv
    <2> QED BY <1>7, <1>10, <2>1 DEF StartedOK, OnlyOf, Unasked, There
  <1>14. /\ fsm # "Terminating" => ending = {}
         /\ fsm \in {"Terminating", "Starting"} => next = goal
    BY DEF IInv
  <1> QED BY <1>2, <1>6, <1>8, <1>9, <1>11, <1>12, <1>13, <1>14 DEF IInv

\* Kill keeps the child, which is still to be reaped.
LEMMA KilledKeeps ==
    ASSUME NEW p \in Process, NEW r, NEW c \in Cause, c # "Request", Keeps(p, r)
    PROVE  Keeps(p, Killed(r, c))
  <1> DEFINE q == Killed(r, c)
  <1>1. r \in ProcessRecord /\ ChildOK(p, r, active)
    BY DEF Keeps
  <1>2. /\ q \in ProcessRecord
        /\ q.child = r.child /\ q.config = r.config /\ q.fgState = r.fgState
        /\ q.restarts = r.restarts
        /\ IF Live(r) /\ Actived(r) THEN q.state = "Terminating" /\ Actived(q) /\ q.cause = c
                                    ELSE q = r
    BY <1>1, KilledFacts
  <1> HIDE DEF q
  <1>3. Live(q) <=> Live(r)
    BY <1>2 DEF Live
  <1>4. ChildOK(p, q, active)
    BY <1>1, <1>2, <1>3 DEF ChildOK
  <1>5. q.cause = "Request" => r.cause = "Request"
    BY <1>2
  <1> QED BY <1>2, <1>3, <1>4, <1>5 DEF Keeps, q

\* The timers, the queued kill, and the steps of the children.
LEMMA OneProcessSteps ==
    ASSUME NEW p \in Process, IInv,
           QueuedKill(p) \/ EnterTimeout(p) \/ ExitTimeout(p)
           \/ Report(p) \/ DieKilled(p) \/ Exit(p)
    PROVE  IInv'
  <1>0. ~halted
    BY DEF QueuedKill, EnterTimeout, ExitTimeout, Report, DieKilled, Exit
  <1>1. proc[p] \in ProcessRecord /\ Keeps(p, proc[p])
    BY <1>0 DEF IInv, TypeOK, ProcessOK, Keeps
  <1>2. CASE QueuedKill(p)
    <2> DEFINE k == Killed(proc[p], "InitFailure")
    <2>1. Keeps(p, k)
      BY <1>1, KilledKeeps DEF Cause
    <2>2. ProcessStep(p, [k EXCEPT !.queued = @ \ {"kill"}])
      BY <1>2 DEF QueuedKill
    <2> HIDE DEF k
    <2>3. Keeps(p, [k EXCEPT !.queued = @ \ {"kill"}])
      BY <2>1 DEF Keeps, ProcessRecord, ChildOK, Live, Actived
    <2> QED BY <1>0, <2>2, <2>3, ProcessStepOK
  <1>3. CASE EnterTimeout(p)
    <2> DEFINE r == [proc[p] EXCEPT !.enterTimer = FALSE]
    <2>1. Keeps(p, r)
      BY <1>1 DEF Keeps, ProcessRecord, ChildOK, Live, Actived
    <2>2. ProcessStep(p, IF r.state = "Starting" THEN Killed(r, "EnterTimeout") ELSE r)
      BY <1>3 DEF EnterTimeout
    <2> HIDE DEF r
    <2>3. Keeps(p, Killed(r, "EnterTimeout"))
      BY <2>1, KilledKeeps DEF Cause
    <2> QED BY <1>0, <2>1, <2>2, <2>3, ProcessStepOK
  <1>4. CASE ExitTimeout(p)
    <2> DEFINE r == [proc[p] EXCEPT !.exitTimer = FALSE]
    <2>1. Keeps(p, r)
      BY <1>1 DEF Keeps, ProcessRecord, ChildOK, Live, Actived
    <2>2. ProcessStep(p, IF r.state = "Terminating" THEN Killed(r, "ExitTimeout") ELSE r)
      BY <1>4 DEF ExitTimeout
    <2> HIDE DEF r
    <2>3. Keeps(p, Killed(r, "ExitTimeout"))
      BY <2>1, KilledKeeps DEF Cause
    <2> QED BY <1>0, <2>1, <2>2, <2>3, ProcessStepOK
  <1>5. CASE Report(p)
    <2>1. Keeps(p, [proc[p] EXCEPT !.report = "sent"])
      BY <1>1 DEF Keeps, ProcessRecord, ChildOK, Live, Actived
    <2> QED BY <1>0, <1>5, <2>1, ProcessStepOK DEF Report
  <1>6. ASSUME NEW c \in {"ok", "bad"}, proc[p].child = "live",
               ProcessStep(p, [proc[p] EXCEPT !.child = c])
        PROVE  IInv'
    <2>1. Keeps(p, [proc[p] EXCEPT !.child = c])
      BY <1>1, <1>6 DEF Keeps, ProcessRecord, ChildOK, Live, Actived
    <2> QED BY <1>0, <1>6, <2>1, ProcessStepOK
  <1>7. CASE DieKilled(p)
    BY <1>6, <1>7 DEF DieKilled
  <1>8. CASE Exit(p)
    BY <1>6, <1>8 DEF Exit
  <1> QED BY <1>2, <1>3, <1>4, <1>5, <1>7, <1>8

\* A process is set Running by its report or by the queued function.
LEMMA RunningEvent ==
    ASSUME NEW p \in Process, IInv, HandleReport(p) \/ QueuedRunning(p)
    PROVE  \E P : /\ ~halted /\ ProcessOK(P, active)
                 /\ SameChildren(proc, P) /\ SameCause(proc, P)
                 /\ StartedEvent(P, p)
  <1>0. ~halted
    BY DEF HandleReport, QueuedRunning
  <1>1. /\ proc \in [Process -> ProcessRecord] /\ ProcessOK(proc, active)
        /\ Attempts[p] \in Nat
    BY <1>0, GroupAssumption DEF IInv, TypeOK
  <1>2. ASSUME NEW r \in ProcessRecord, r.state = "Running", r.restarts <= Attempts[p],
               r.child = proc[p].child, r.config = proc[p].config,
               r.fgState = proc[p].fgState, r.cause = proc[p].cause
        PROVE  /\ ProcessOK([proc EXCEPT ![p] = r], active)
               /\ SameChildren(proc, [proc EXCEPT ![p] = r])
               /\ SameCause(proc, [proc EXCEPT ![p] = r])
    <2> DEFINE P == [proc EXCEPT ![p] = r]
    <2>1. P \in [Process -> ProcessRecord]
      BY <1>1
    <2>2. P[p] = r /\ \A q \in Process \ {p} : P[q] = proc[q]
      BY <1>1
    <2> HIDE DEF P
    <2>3. ChildOK(p, r, active)
      BY <1>1, <1>2 DEF ProcessOK, ChildOK, Live, Actived
    <2>4. ProcessOK(P, active)
      BY <1>1, <1>2, <2>1, <2>2, <2>3 DEF ProcessOK
    <2>5. SameChildren(proc, P) /\ SameCause(proc, P)
      BY <1>2, <2>2 DEF SameChildren, SameCause
    <2> QED BY <2>4, <2>5 DEF P
  <1>3. proc[p] \in ProcessRecord /\ proc[p].restarts <= Attempts[p]
    BY <1>1 DEF ProcessOK
  <1>4. CASE HandleReport(p)
    <2> DEFINE r == [proc[p] EXCEPT !.report = "done", !.restarts = 0,
                                    !.enterTimer = FALSE, !.state = "Running"]
    <2>1. [proc EXCEPT ![p].report = "done", ![p].restarts = 0,
                       ![p].enterTimer = FALSE, ![p].state = "Running"] = [proc EXCEPT ![p] = r]
      BY <1>1
    <2>2. /\ r \in ProcessRecord /\ r.state = "Running" /\ r.restarts = 0
          /\ r.child = proc[p].child /\ r.config = proc[p].config
          /\ r.fgState = proc[p].fgState /\ r.cause = proc[p].cause
      BY <1>3 DEF ProcessRecord, ProcessState
    <2>3. StartedEvent([proc EXCEPT ![p] = r], p)
      BY <1>4, <2>1 DEF HandleReport
    <2>4. r.restarts <= Attempts[p]
      BY <1>1, <2>2
    <2> HIDE DEF r
    <2> QED BY <1>0, <1>2, <2>2, <2>3, <2>4
  <1>5. CASE QueuedRunning(p)
    <2> DEFINE r == [proc[p] EXCEPT !.queued = @ \ {"running"}, !.state = "Running"]
    <2>1. [proc EXCEPT ![p].queued = @ \ {"running"}, ![p].state = "Running"]
            = [proc EXCEPT ![p] = r]
      BY <1>1
    <2>2. /\ r \in ProcessRecord /\ r.state = "Running" /\ r.restarts = proc[p].restarts
          /\ r.child = proc[p].child /\ r.config = proc[p].config
          /\ r.fgState = proc[p].fgState /\ r.cause = proc[p].cause
      BY <1>3 DEF ProcessRecord, ProcessState
    <2>3. StartedEvent([proc EXCEPT ![p] = r], p)
      BY <1>5, <2>1 DEF QueuedRunning
    <2> HIDE DEF r
    <2> QED BY <1>0, <1>2, <1>3, <2>2, <2>3
  <1> QED BY <1>4, <1>5

\* It preserves the invariant.
LEMMA RunningOK ==
    ASSUME NEW p \in Process, IInv, HandleReport(p) \/ QueuedRunning(p)
    PROVE  IInv'
  BY RunningEvent, StartedEventOK

\* What a SIGCHLD leaves of the processes.
LEMMA ReapedProcesses ==
    ASSUME NEW p \in Process, IInv, ~halted, Live(proc[p])
    PROVE  LET P == [proc EXCEPT ![p] = Reaped(@)]
           IN  /\ ProcessOK(P, active \ {p})
               /\ LostOnly(p, proc, P)
               /\ P[p] = Reaped(proc[p]) /\ P \in [Process -> ProcessRecord]
  <1> DEFINE P == [proc EXCEPT ![p] = Reaped(@)]
             r == Reaped(proc[p])
  <1>1. /\ proc \in [Process -> ProcessRecord] /\ ProcessOK(proc, active)
        /\ proc[p] \in ProcessRecord
    BY DEF IInv, TypeOK
  <1>2. /\ r \in ProcessRecord
        /\ r.child = "none" /\ r.config = "none" /\ r.fgState = proc[p].fgState
        /\ r.state = "Terminated" /\ r.cause = proc[p].cause /\ r.restarts = proc[p].restarts
        /\ ~Live(r) /\ ~Actived(r)
    BY <1>1, ReapedFacts
  <1>3. P[p] = r /\ \A q \in Process \ {p} : P[q] = proc[q]
    BY <1>1
  <1>4. P \in [Process -> ProcessRecord]
    BY <1>1, <1>2
  <1> HIDE DEF P, r
  <1>5. ChildOK(p, r, active \ {p})
    BY <1>2 DEF ChildOK
  <1>6. ProcessOK(P, active \ {p})
    BY <1>1, <1>2, <1>3, <1>4, <1>5 DEF ProcessOK, ChildOK
  <1>7. LostOnly(p, proc, P)
    BY <1>2, <1>3 DEF LostOnly
  <1> QED BY <1>3, <1>4, <1>6, <1>7 DEF P, r

\* Process::Restartup that fails leaves one attempt less.
LEMMA FailedRestart ==
    ASSUME NEW p \in Process, IInv, ~halted, Live(proc[p]), Restartable(p)
    PROVE  LET Q == [[proc EXCEPT ![p] = Reaped(@)] EXCEPT ![p].restarts = @ + 1]
           IN  /\ ProcessOK(Q, active \ {p})
               /\ LostOnly(p, proc, Q)
               /\ Q[p].signal = "none"
  <1> DEFINE P == [proc EXCEPT ![p] = Reaped(@)]
             A == active \ {p}
             r == [Reaped(proc[p]) EXCEPT !.restarts = @ + 1]
             Q == [P EXCEPT ![p].restarts = @ + 1]
  <1>1. proc[p] \in ProcessRecord
    BY DEF IInv, TypeOK
  <1>2. /\ ProcessOK(P, A) /\ LostOnly(p, proc, P)
        /\ P[p] = Reaped(proc[p]) /\ P \in [Process -> ProcessRecord]
    BY ReapedProcesses
  <1>3. /\ Reaped(proc[p]) \in ProcessRecord /\ Reaped(proc[p]).child = "none"
        /\ Reaped(proc[p]).config = "none" /\ Reaped(proc[p]).state = "Terminated"
        /\ Reaped(proc[p]).restarts = proc[p].restarts
        /\ Reaped(proc[p]).fgState = proc[p].fgState
    BY <1>1, ReapedFacts
  <1>4. Reaped(proc[p]).signal = "none"
    BY <1>1 DEF Reaped, ProcessRecord
  <1>5. proc[p].restarts \in Nat /\ proc[p].restarts < Attempts[p] /\ Attempts[p] \in Nat
    BY <1>1, GroupAssumption DEF Restartable, ProcessRecord
  <1>6. Q[p] = r /\ \A q \in Process \ {p} : Q[q] = P[q]
    BY <1>2
  <1>7. r \in ProcessRecord /\ r.restarts = proc[p].restarts + 1 /\ r.child = "none"
        /\ r.config = "none" /\ r.state = "Terminated" /\ r.fgState = proc[p].fgState
        /\ r.signal = "none"
    BY <1>3, <1>4, <1>5 DEF ProcessRecord
  <1>8. Q \in [Process -> ProcessRecord]
    BY <1>2, <1>7
  <1> HIDE DEF Q, r, P
  <1>9. r.restarts <= Attempts[p] /\ ChildOK(p, r, A)
    BY <1>5, <1>7 DEF ChildOK, Live
  <1>10. ProcessOK(Q, A)
    <2>1. \A q \in Process : Q[q].restarts <= Attempts[q] /\ ChildOK(q, Q[q], A)
      BY <1>2, <1>6, <1>9 DEF ProcessOK
    <2> QED BY <1>2, <1>8, <2>1 DEF ProcessOK
  <1>11. LostOnly(p, proc, Q)
    BY <1>2, <1>6, <1>7 DEF LostOnly, Live
  <1> QED BY <1>6, <1>7, <1>10, <1>11 DEF Q, P

\* SIGCHLD.
LEMMA ReapOK ==
    ASSUME NEW p \in Process, IInv, Reap(p)
    PROVE  IInv'
  <1> DEFINE P == [proc EXCEPT ![p] = Reaped(@)]
             A == active \ {p}
             normal == TerminatedNormally(p, proc[p])
  <1>0. ~halted /\ Live(proc[p])
    BY DEF Reap, Live
  <1>1. /\ TypeOK /\ AnswerMatchesRequest /\ ProcessOK(proc, active)
        /\ proc \in [Process -> ProcessRecord] /\ proc[p] \in ProcessRecord
    BY <1>0 DEF IInv, TypeOK
  <1>2. /\ ProcessOK(P, A) /\ LostOnly(p, proc, P)
        /\ P[p] = Reaped(proc[p]) /\ P \in [Process -> ProcessRecord]
    BY <1>0, ReapedProcesses
  <1>3. CASE /\ fsm = "Invalid"
             /\ proc' = P /\ active' = A
             /\ UNCHANGED <<fsm, current, next, listVars, session, halted, histVars>>
    <2> HIDE DEF P, A
    <2>1. TypeOK'
      BY <1>1, <1>2, <1>3 DEF TypeOK, ProcessOK, listVars, histVars
    <2>2. ProcessOK(proc', active')
      BY <1>2, <1>3
    <2>3. AnswerMatchesRequest'
      BY <1>3 DEF AnswerMatchesRequest
    <2> QED BY <1>0, <1>3, <2>1, <2>2, <2>3 DEF IInv, listVars
  <1>4. CASE /\ fsm # "Invalid"
             /\ normal \/ (fsm = "Terminating" /\ p \in ending)
             /\ TerminatedEvent(P, A, p)
    <2> HIDE DEF P, A
    <2> QED BY <1>0, <1>2, <1>4, TerminatedEventOK
  <1>5. ASSUME Restartable(p), NEW b \in BOOLEAN,
               ProcessStep(p, [StartedFor(p, Reaped(proc[p]), proc[p].fgState, b)
                                 EXCEPT !.restarts = @ + 1])
        PROVE  IInv'
    <2> DEFINE q == StartedFor(p, Reaped(proc[p]), proc[p].fgState, b)
               r == [q EXCEPT !.restarts = @ + 1]
    <2>1. /\ proc[p].fgState \in State /\ proc[p].config = Config[p][proc[p].fgState]
          /\ proc[p].config # "none" /\ p \in active
      BY <1>0, <1>1 DEF ProcessOK, ChildOK
    <2>2. Reaped(proc[p]) \in ProcessRecord /\ Reaped(proc[p]).fgState = proc[p].fgState
          /\ Reaped(proc[p]).restarts = proc[p].restarts
      BY <1>1, ReapedFacts
    <2>3. /\ q \in ProcessRecord
          /\ q.child = "live" /\ q.config = Config[p][proc[p].fgState]
          /\ q.fgState = proc[p].fgState
          /\ q.state = "Starting" /\ q.cause = "Unknown" /\ q.restarts = proc[p].restarts
      BY <2>1, <2>2, StartedForFacts
    <2>4. ProcessStep(p, r)
      BY <1>5
    <2>5. proc[p].restarts \in Nat /\ proc[p].restarts < Attempts[p] /\ Attempts[p] \in Nat
      BY <1>1, <1>5, GroupAssumption DEF Restartable, ProcessRecord
    <2> HIDE DEF q
    <2>6. /\ r \in ProcessRecord /\ r.restarts = proc[p].restarts + 1
          /\ r.child = "live" /\ r.config = proc[p].config
          /\ r.fgState = proc[p].fgState /\ r.state = "Starting" /\ r.cause = "Unknown"
      BY <2>1, <2>3, <2>5 DEF ProcessRecord
    <2> HIDE DEF r
    <2>7. r.restarts <= Attempts[p]
      BY <2>5, <2>6
    <2>8. Live(r) /\ Actived(r)
      BY <2>6 DEF Live, Actived
    <2>9. ChildOK(p, r, active)
      BY <2>1, <2>6, <2>8 DEF ChildOK
    <2>10. Keeps(p, r)
      BY <1>0, <2>6, <2>7, <2>8, <2>9 DEF Keeps
    <2> QED BY <1>0, <2>4, <2>10, ProcessStepOK
  <1>6. CASE Restartable(p) /\ FallUndefined([P EXCEPT ![p].restarts = @ + 1], A)
    BY <1>0, <1>1, <1>6, FailedRestart, FallUndefinedOK
  <1>7. CASE FallUndefined(P, A)
    <2> HIDE DEF P, A
    <2> QED BY <1>0, <1>1, <1>2, <1>7, FallUndefinedOK
  <1>8. CASE /\ Restartable(p)
             /\ \E b \in IF p \in MayNotAttach THEN BOOLEAN ELSE {TRUE} :
                  ProcessStep(p, [StartedFor(p, Reaped(proc[p]), proc[p].fgState, b)
                                    EXCEPT !.restarts = @ + 1])
    BY <1>5, <1>8
  <1> QED BY <1>3, <1>4, <1>6, <1>7, <1>8 DEF Reap

\* SM, the boot, and the signals to emd.
LEMMA GroupStepsOK ==
    ASSUME IInv, (\E s \in State : SetState(s)) \/ Disconnect \/ Boot \/ SigTerm \/ SigInt
    PROVE  IInv'
  <1>0. ~halted
    BY DEF SetState, Disconnect, Boot, SigTerm, SigInt
  <1>1. /\ TypeOK /\ AnswerMatchesRequest /\ ProcessOK(proc, active)
        /\ halted \in BOOLEAN /\ late \subseteq Process
        /\ current \in GroupState /\ session \in StateName
        /\ Stopped \in GroupState /\ NoState \in StateName
        /\ Off \in State /\ Startup \in State
    BY <1>0, GroupAssumption DEF IInv, TypeOK, GroupState, StateName
  <1>2. ASSUME NEW s \in State, SetState(s)
        PROVE  IInv'
    <2>1. Serves(s, s) /\ s \in StateName
      BY DEF Serves, StateName
    <2>2. CASE StartTransformState(proc, active, s, s, current)
      BY <1>0, <1>1, <2>1, <2>2, StartTransformOK
    <2>3. CASE StartTransformState(proc, active, s, s, Stopped)
      BY <1>0, <1>1, <2>1, <2>3, StartTransformOK
    <2> QED BY <1>2, <2>2, <2>3 DEF SetState
  <1>3. CASE Disconnect
    <2>1. /\ session' = NoState /\ proc' = proc /\ fsm' = fsm /\ current' = current
          /\ next' = next /\ starting' = starting /\ ending' = ending
          /\ dependents' = dependents /\ active' = active /\ halted' = halted
          /\ goal' = goal /\ fresh' = fresh /\ late' = late
      BY <1>3 DEF Disconnect, listVars, histVars
    <2>2. TypeOK' /\ AnswerMatchesRequest'
      BY <1>1, <2>1 DEF TypeOK, AnswerMatchesRequest
    <2> QED BY <2>1, <2>2 DEF IInv
  <1>4. CASE Boot
    <2>1. Serves(Startup, NoState)
      BY DEF Serves
    <2>2. StartTransformState(proc, active, Startup, NoState, current)
      BY <1>4 DEF Boot
    <2> QED BY <1>0, <1>1, <2>1, <2>2, StartTransformOK
  <1>5. CASE SigTerm
    <2>1. Serves(Off, session)
      BY <1>5 DEF SigTerm, Serves
    <2>2. StartTransformState(proc, active, Off, session, current)
      BY <1>5 DEF SigTerm
    <2> QED BY <1>0, <1>1, <2>1, <2>2, StartTransformOK
  <1>6. CASE SigInt
    <2>1. /\ Halt(proc) /\ fsm' = fsm /\ current' = current
          /\ next' = next /\ starting' = starting /\ ending' = ending
          /\ dependents' = dependents /\ active' = active /\ session' = session
          /\ goal' = goal /\ fresh' = fresh /\ late' = late
      BY <1>6 DEF SigInt, listVars, histVars
    <2>2. /\ halted' /\ proc' \in [Process -> ProcessRecord]
          /\ \A p \in Process : proc'[p].restarts <= Attempts[p] /\ ~Live(proc'[p])
      BY <1>1, <2>1, HaltOK
    <2>3. halted' \in BOOLEAN
      BY <2>1 DEF Halt
    <2>4. TypeOK' /\ AnswerMatchesRequest'
      BY <1>1, <2>1, <2>2, <2>3 DEF TypeOK, AnswerMatchesRequest
    <2> QED BY <2>1, <2>2, <2>4 DEF IInv
  <1> QED BY <1>2, <1>3, <1>4, <1>5, <1>6

\* Initially no process has a child and no transition runs.
LEMMA InitOK == Init => IInv
  <1> SUFFICES ASSUME Init PROVE IInv
    OBVIOUS
  <1>1. IdleProcess \in ProcessRecord /\ ~Live(IdleProcess) /\ IdleProcess.config = "none"
        /\ IdleProcess.restarts = 0 /\ IdleProcess.state = "Idle"
    BY DEF IdleProcess, ProcessRecord, ProcessState, Cause, Configs, Live
  <1>2. proc \in [Process -> ProcessRecord] /\ \A p \in Process : proc[p] = IdleProcess
    BY <1>1 DEF Init
  <1>3. \A p \in Process : proc[p].restarts <= Attempts[p]
    <2>1. \A p \in Process : Attempts[p] \in Nat
      BY GroupAssumption
    <2> TAKE p \in Process
    <2>2. proc[p].restarts = 0 /\ Attempts[p] \in Nat
      BY <1>1, <1>2, <2>1
    <2> QED BY <2>2
  <1>4. TypeOK
    BY <1>2, <1>3, GroupAssumption DEF TypeOK, Init, FsmState
  <1>5. \A p \in Process : ChildOK(p, proc[p], active)
    BY <1>1, <1>2 DEF Init, ChildOK
  <1>6. ProcessOK(proc, active)
    BY <1>2, <1>3, <1>5 DEF ProcessOK, Init
  <1> QED BY <1>4, <1>6 DEF IInv, Init, AnswerMatchesRequest

\* Every step preserves the invariant.
LEMMA NextOK == IInv /\ [Next]_vars => IInv'
  <1> SUFFICES ASSUME IInv, [Next]_vars PROVE IInv'
    OBVIOUS
  <1>1. CASE UNCHANGED vars
    <2>1. /\ proc' = proc /\ fsm' = fsm /\ current' = current
          /\ next' = next /\ starting' = starting /\ ending' = ending
          /\ dependents' = dependents /\ active' = active /\ session' = session
          /\ halted' = halted /\ goal' = goal /\ fresh' = fresh /\ late' = late
      BY <1>1 DEF vars, listVars, histVars
    <2>2. TypeOK' /\ AnswerMatchesRequest'
      BY <2>1 DEF IInv, TypeOK, AnswerMatchesRequest
    <2> QED BY <2>1, <2>2 DEF IInv
  <1>2. CASE Next
    BY <1>2, ReapOK, RunningOK, OneProcessSteps, GroupStepsOK DEF Next, LoopStep
  <1> QED BY <1>1, <1>2

-----------------------------------------------------------------------------
(***************************************************************************)
(* The safety properties.                                                  *)
(***************************************************************************)

\* The inductive invariant holds in every reachable state.
THEOREM Invariance == Spec => []IInv
  BY InitOK, NextOK, PTL DEF Spec

\* The variables keep their types and no process is restarted more often than its
\* manifest allows.
THEOREM GroupTypeOK == Spec => []TypeOK
  <1>1. IInv => TypeOK
    BY DEF IInv
  <1> QED BY <1>1, Invariance, PTL

\* emd loses track of no child and creates no second one for a process.
THEOREM NoChildIsLost == Spec => []TrackedChildren
  <1>1. IInv => TrackedChildren
    BY DEF IInv, TrackedChildren, ProcessOK, ChildOK, Live
  <1> QED BY <1>1, Invariance, PTL

\* A request of SM is never answered for the transition to another state.
THEOREM AnswersMatch == Spec => []AnswerMatchesRequest
  <1>1. IInv => AnswerMatchesRequest
    BY DEF IInv
  <1> QED BY <1>1, Invariance, PTL

\* A group that has reached Off has no child left.
THEOREM OffIsEmpty == Spec => []OffMeansNoChild
  <1>1. IInv => OffMeansNoChild
    <2> SUFFICES ASSUME IInv, fsm = "Started", goal = Off, NEW p \in Process
                 PROVE  ~Live(proc[p])
      BY DEF OffMeansNoChild, Live
    <2>1. CASE halted
      BY <2>1 DEF IInv
    <2>2. CASE ~halted
      <3>1. StartedOK(proc, goal, fresh, late) /\ ProcessOK(proc, active)
        BY <2>2 DEF IInv
      <3>2. Config[p][Off] = "none"
        BY GroupAssumption
      <3> QED BY <3>1, <3>2 DEF StartedOK, OnlyOf, ProcessOK, ChildOK
    <2> QED BY <2>1, <2>2
  <1> QED BY <1>1, Invariance, PTL

\* A completed transition has started what it had to start.
THEOREM StartedIsUp == Spec => []StartedMeansUp
  <1>1. IInv => StartedMeansUp
    BY DEF IInv, StartedMeansUp, StartedOK, There, Live
  <1> QED BY <1>1, Invariance, PTL

-----------------------------------------------------------------------------
(***************************************************************************)
(* The order in which a transition ends the processes.                     *)
(***************************************************************************)

\* A process gets SIGTERM, in a step that began with the processes P, only when
\* nothing that has to end too depends on it.
OnlyFree(P, Q, T, D) ==
    \A p \in Process :
        /\ Q[p].fgState = P[p].fgState
        /\ P[p].signal # "term" /\ Q[p].signal = "term" => p \in T /\ D[p] = {}
Signalled(P) ==
    fsm' = "Terminating" /\ ~halted' => OnlyFree(P, proc', ending', dependents')

\* Terminating is entered by the beginning of a transition only.
LEMMA LeavesTerminating ==
    ASSUME NEW P, NEW A, NEW S, NEW s, NEW r, NEW H, NEW cur,
           EnterStarting(P, A, S, s, r, H, cur) \/ Scan(P, A, S, s, r, H, cur)
           \/ Final(P, A, s, r, H)
    PROVE  fsm' # "Terminating"
  <1>1. Final(P, A, s, r, H) => fsm' = "Started"
    BY DEF Final
  <1>2. ASSUME NEW Q, NEW B, OnError(Q, B, r, H)
        PROVE  fsm' = "Invalid"
    BY <1>2 DEF OnError
  <1>3. Scan(P, A, S, s, r, H, cur) => fsm' \in {"Starting", "Invalid"}
    BY <1>2 DEF Scan
  <1> QED BY <1>1, <1>3 DEF EnterStarting

\* _TerminatingAction signals what is free.
LEMMA TerminatingActionFree ==
    ASSUME NEW P, NEW T, NEW D, P \in [Process -> ProcessRecord]
    PROVE  OnlyFree(P, TerminatingAction(P, T, D), T, D)
  <1> DEFINE Q == TerminatingAction(P, T, D)
  <1>1. ASSUME NEW p \in Process
        PROVE  /\ Q[p].fgState = P[p].fgState
               /\ P[p].signal # "term" /\ Q[p].signal = "term" => p \in T /\ D[p] = {}
    <2>1. CASE Q[p] = P[p]
      BY <2>1
    <2>2. CASE Q[p] = Terminated(P[p]) /\ p \in T /\ D[p] = {}
      BY <2>2, TerminatedFacts
    <2> QED BY <2>1, <2>2 DEF TerminatingAction
  <1> QED BY <1>1 DEF OnlyFree

\* A transition begins.
LEMMA TransformSignals ==
    ASSUME NEW P, NEW A, NEW s, NEW r, NEW cur, ProcessOK(P, A),
           StartTransformState(P, A, s, r, cur)
    PROVE  Signalled(P)
  <1> DEFINE T == ToEnd(P, A, s)
             M == MadeIdle(P, ToStart(P, s))
             D == DependentsIn(P, T)
  <1>1. CASE T = {}
    <2>1. EnterStarting(Prepared(P, A, s), A, ToStart(P, s), s, r, NewHistory(P, s), cur)
      BY <1>1 DEF StartTransformState
    <2> QED BY <2>1, LeavesTerminating DEF Signalled
  <1>2. CASE T # {}
    <2>1. proc' = TerminatingAction(M, T, D) /\ ending' = T /\ dependents' = D
      BY <1>2 DEF StartTransformState, Prepared
    <2>2. P \in [Process -> ProcessRecord] /\ M \in [Process -> ProcessRecord]
      BY MadeIdleOK DEF ProcessOK
    <2>3. \A p \in Process : M[p].fgState = P[p].fgState /\ M[p].signal = P[p].signal
      BY <2>2 DEF MadeIdle, ProcessRecord
    <2> HIDE DEF M, T, D
    <2>4. OnlyFree(M, proc', T, D)
      BY <2>1, <2>2, TerminatingActionFree
    <2> QED BY <2>1, <2>3, <2>4 DEF Signalled, OnlyFree
  <1> QED BY <1>1, <1>2

\* Nobody is signalled in a step that only changes these processes.
Calm(P, Q) ==
    \A p \in Process : /\ Q[p].fgState = P[p].fgState
                       /\ P[p].signal # "term" => Q[p].signal # "term"

\* A step of one process sends no SIGTERM.
LEMMA KilledCalm ==
    ASSUME NEW r \in ProcessRecord, NEW c
    PROVE  /\ Killed(r, c).fgState = r.fgState
           /\ Killed(r, c).signal \in {r.signal, "kill"}
  BY DEF Killed, ProcessRecord

\* Every step respects the dependencies.
LEMMA StepSignals ==
    ASSUME IInv, ~halted, Next
    PROVE  Signalled(proc) \/ Calm(proc, proc')
  <1>1. ProcessOK(proc, active) /\ proc \in [Process -> ProcessRecord]
    BY DEF IInv, ProcessOK
  <1>2. ASSUME NEW p \in Process, NEW r, ProcessStep(p, r), r.fgState = proc[p].fgState,
               proc[p].signal # "term" => r.signal # "term"
        PROVE  Calm(proc, proc')
    BY <1>1, <1>2 DEF ProcessStep, Calm
  <1>3. ASSUME NEW p \in Process, QueuedKill(p)
        PROVE  Calm(proc, proc')
    <2> DEFINE k == Killed(proc[p], "InitFailure")
    <2>1. k.fgState = proc[p].fgState /\ k.signal \in {proc[p].signal, "kill"}
          /\ k \in ProcessRecord
      BY <1>1, KilledCalm, KilledFacts DEF Cause
    <2>2. ProcessStep(p, [k EXCEPT !.queued = @ \ {"kill"}])
      BY <1>3 DEF QueuedKill
    <2> HIDE DEF k
    <2>3. LET r == [k EXCEPT !.queued = @ \ {"kill"}]
          IN  r.fgState = k.fgState /\ r.signal = k.signal
      BY <2>1 DEF ProcessRecord
    <2> QED BY <1>2, <2>1, <2>2, <2>3
  <1>4. ASSUME NEW p \in Process, NEW r \in ProcessRecord, NEW c,
               r.fgState = proc[p].fgState, r.signal = proc[p].signal,
               ProcessStep(p, r) \/ ProcessStep(p, Killed(r, c))
        PROVE  Calm(proc, proc')
    <2>1. Killed(r, c).fgState = r.fgState /\ Killed(r, c).signal \in {r.signal, "kill"}
      BY KilledCalm
    <2> QED BY <1>2, <1>4, <2>1
  <1>5. ASSUME NEW p \in Process, EnterTimeout(p) \/ ExitTimeout(p)
        PROVE  Calm(proc, proc')
    <2> DEFINE e == [proc[p] EXCEPT !.enterTimer = FALSE]
               x == [proc[p] EXCEPT !.exitTimer = FALSE]
    <2>1. /\ e \in ProcessRecord /\ e.fgState = proc[p].fgState /\ e.signal = proc[p].signal
          /\ x \in ProcessRecord /\ x.fgState = proc[p].fgState /\ x.signal = proc[p].signal
      BY <1>1 DEF ProcessRecord
    <2>2. \/ ProcessStep(p, e) \/ ProcessStep(p, Killed(e, "EnterTimeout"))
          \/ ProcessStep(p, x) \/ ProcessStep(p, Killed(x, "ExitTimeout"))
      BY <1>5 DEF EnterTimeout, ExitTimeout
    <2> HIDE DEF e, x
    <2> QED BY <1>4, <2>1, <2>2
  <1>6. ASSUME NEW p \in Process, Report(p) \/ DieKilled(p) \/ Exit(p)
        PROVE  Calm(proc, proc')
    <2>1. \/ ProcessStep(p, [proc[p] EXCEPT !.report = "sent"])
          \/ ProcessStep(p, [proc[p] EXCEPT !.child = "ok"])
          \/ ProcessStep(p, [proc[p] EXCEPT !.child = "bad"])
      BY <1>6 DEF Report, DieKilled, Exit
    <2>2. proc[p] \in ProcessRecord
      BY <1>1
    <2>3. CASE ProcessStep(p, [proc[p] EXCEPT !.report = "sent"])
      BY <1>2, <2>2, <2>3 DEF ProcessRecord
    <2>4. CASE ProcessStep(p, [proc[p] EXCEPT !.child = "ok"])
      BY <1>2, <2>2, <2>4 DEF ProcessRecord
    <2>5. CASE ProcessStep(p, [proc[p] EXCEPT !.child = "bad"])
      BY <1>2, <2>2, <2>5 DEF ProcessRecord
    <2> QED BY <2>1, <2>3, <2>4, <2>5
  <1>7. ASSUME NEW P, NEW p, StartedEvent(P, p), Calm(proc, P)
        PROVE  Signalled(proc) \/ Calm(proc, proc')
    <2>1. CASE proc' = P
      BY <1>7, <2>1
    <2>2. CASE fsm' # "Terminating"
      BY <2>2 DEF Signalled
    <2> QED BY <1>7, <2>1, <2>2, LeavesTerminating DEF StartedEvent
  <1>8. ASSUME NEW p \in Process, HandleReport(p) \/ QueuedRunning(p)
        PROVE  Signalled(proc) \/ Calm(proc, proc')
    <2> DEFINE P == [proc EXCEPT ![p].report = "done", ![p].restarts = 0,
                                 ![p].enterTimer = FALSE, ![p].state = "Running"]
               Q == [proc EXCEPT ![p].queued = @ \ {"running"}, ![p].state = "Running"]
    <2>1. Calm(proc, P) /\ Calm(proc, Q)
      BY <1>1 DEF Calm, ProcessRecord
    <2>2. StartedEvent(P, p) \/ StartedEvent(Q, p)
      BY <1>8 DEF HandleReport, QueuedRunning
    <2> HIDE DEF P, Q
    <2> QED BY <1>7, <2>1, <2>2
  <1>9. ASSUME NEW s \in State, SetState(s)
        PROVE  Signalled(proc)
    BY <1>1, <1>9, TransformSignals DEF SetState
  <1>10. CASE Boot \/ SigTerm
    BY <1>1, <1>10, TransformSignals DEF Boot, SigTerm
  <1>11. CASE SigInt
    BY <1>11 DEF SigInt, Halt, Signalled
  <1>12. CASE Disconnect
    BY <1>12 DEF Disconnect, Calm
  <1>13. ASSUME NEW p \in Process, Reap(p)
         PROVE  Signalled(proc) \/ Calm(proc, proc')
    <2> DEFINE P == [proc EXCEPT ![p] = Reaped(@)]
               A == active \ {p}
    <2>0. Live(proc[p])
      BY <1>13 DEF Reap, Live
    <2>1. ProcessOK(P, A) /\ P[p] = Reaped(proc[p])
      BY <2>0, ReapedProcesses
    <2>2. P[p].fgState = proc[p].fgState /\ P[p].signal = "none"
          /\ \A q \in Process \ {p} : P[q] = proc[q]
      BY <1>1, <2>1 DEF Reaped, ProcessRecord
    <2>3. Calm(proc, P)
      BY <2>2 DEF Calm
    <2>4. ASSUME NEW Q, ProcessOK(Q, A), Calm(proc, Q), FallUndefined(Q, A)
          PROVE  Signalled(proc)
      <3>1. CASE fsm' = "Invalid"
        BY <3>1 DEF Signalled
      <3>2. CASE StartTransformState(Q, A, Off, session, Undefined)
        BY <2>4, <3>2, TransformSignals DEF Signalled, OnlyFree, Calm
      <3> QED BY <2>4, <3>1, <3>2 DEF FallUndefined
    <2>5. CASE proc' = P
      BY <2>3, <2>5
    <2>6. CASE TerminatedEvent(P, A, p)
      <3>1. CASE /\ proc' = TerminatingAction(P, ending \ {p},
                                              [q \in Process |-> dependents[q] \ {p}])
                 /\ ending' = ending \ {p}
                 /\ dependents' = [q \in Process |-> dependents[q] \ {p}]
        <4>1. OnlyFree(P, proc', ending', dependents')
          BY <2>1, <3>1, TerminatingActionFree DEF ProcessOK
        <4> QED BY <2>3, <4>1 DEF Signalled, OnlyFree, Calm
      <3>2. CASE fsm' # "Terminating"
        BY <3>2 DEF Signalled
      <3> HIDE DEF P, A
      <3> QED BY <2>5, <2>6, <3>1, <3>2, LeavesTerminating DEF TerminatedEvent
    <2>7. CASE FallUndefined(P, A)
      BY <2>1, <2>3, <2>4, <2>7
    <2>8. CASE fsm # "Terminating" /\ UNCHANGED fsm
      BY <2>8 DEF Signalled
    <2>9. CASE Restartable(p) /\ FallUndefined([P EXCEPT ![p].restarts = @ + 1], A)
      <3> DEFINE Q == [P EXCEPT ![p].restarts = @ + 1]
      <3>1. ProcessOK(Q, A) /\ LostOnly(p, proc, Q) /\ Q[p].signal = "none"
        BY <2>0, <2>9, FailedRestart
      <3> HIDE DEF Q
      <3>2. Calm(proc, Q)
        BY <3>1 DEF Calm, LostOnly
      <3> QED BY <2>4, <2>9, <3>1, <3>2 DEF Q
    <2>10. Restartable(p) => fsm = "Starting"
      BY DEF Restartable
    <2> HIDE DEF P, A
    <2> QED BY <1>13, <2>5, <2>6, <2>7, <2>8, <2>9, <2>10 DEF Reap, ProcessStep, P, A
  <1> QED
    BY <1>3, <1>5, <1>6, <1>8, <1>9, <1>10, <1>11, <1>12, <1>13 DEF Next, LoopStep

\* A process gets SIGTERM only after every process of the transition that needs
\* it has ended.
THEOREM ShutdownInOrder == Spec => OrderedShutdown
  <1>1. IInv /\ IInv' /\ [Next]_vars =>
          [\A p, q \in Process :
             /\ fsm' = "Terminating" /\ p \in ending' /\ q \in ending'
             /\ proc[p].signal = "none" /\ proc'[p].signal = "term"
             /\ proc[q].fgState # NoState /\ p \in RunDep[q][proc[q].fgState]
             => proc'[q].child = "none"]_vars
    <2> SUFFICES ASSUME IInv, IInv', Next, NEW p \in Process, NEW q \in Process,
                        fsm' = "Terminating", p \in ending', q \in ending',
                        proc[p].signal = "none", proc'[p].signal = "term",
                        p \in RunDep[q][proc[q].fgState]
                 PROVE  ~Live(proc'[q])
      BY DEF Live
    <2>1. CASE halted'
      BY <2>1 DEF IInv
    <2>2. CASE ~halted'
      <3>1. ~halted
        BY DEF Next, LoopStep, Reap, HandleReport, QueuedRunning, QueuedKill, EnterTimeout,
               ExitTimeout, Report, DieKilled, Exit, SetState, Disconnect, Boot, SigTerm, SigInt
      <3>2. ~Calm(proc, proc')
        BY DEF Calm
      <3>3. OnlyFree(proc, proc', ending', dependents')
        BY <2>2, <3>1, <3>2, StepSignals DEF Signalled
      <3>4. dependents'[p] = {} /\ proc'[q].fgState = proc[q].fgState
        BY <3>3 DEF OnlyFree
      <3>5. p \in RunDep[q][proc'[q].fgState] => q \in dependents'[p]
        BY <2>2 DEF IInv, TerminatingOK
      <3> QED BY <3>4, <3>5
    <2> QED BY <2>1, <2>2
  <1> QED BY <1>1, Invariance, PTL DEF Spec, OrderedShutdown

-----------------------------------------------------------------------------
(***************************************************************************)
(* The group implements ExecTransition.  Up(P) is what the processes P     *)
(* look like there.                                                        *)
(***************************************************************************)

Up(P) == [p \in Process |-> IF P[p].child = "none" THEN "none" ELSE P[p].config]

\* A transition to s that goes on with the children u: the outcomes the state
\* machine has for it.
Moves(u, s) ==
    \/ Abstract!Launch(u, s) /\ (Abstract!Continue(s) \/ Abstract!Complete(s) \/ Abstract!GiveUp)
    \/ Abstract!Halt

\* Equal children look equal.
LEMMA SameUp ==
    ASSUME NEW P, NEW Q, SameChildren(P, Q)
    PROVE  Up(Q) = Up(P)
  BY DEF SameChildren, Up

\* Children of s only look isolated.
LEMMA OnlyOfIsolated ==
    ASSUME NEW P, NEW s, OnlyOf(P, s)
    PROVE  Abstract!Isolated(Up(P), s)
  BY DEF OnlyOf, Up, Live, Abstract!Isolated

\* A step that keeps the children is a Launch.
LEMMA LaunchSame ==
    ASSUME NEW u, NEW s, Up(proc') = u
    PROVE  Abstract!Launch(u, s)
  BY DEF Abstract!Launch, Up

\* So is a step that starts children of s beside the ones there are.
LEMMA LaunchMore ==
    ASSUME NEW P, NEW s, OnlyOf(P, s), OnlyOf(proc', s),
           \A p \in Process : Live(P[p]) => Live(proc'[p])
    PROVE  Abstract!Launch(Up(P), s)
  <1>1. Abstract!Isolated(Up(P), s) /\ Abstract!Isolated(Up(proc'), s)
    BY OnlyOfIsolated
  <1>2. \A p \in Process : Up(P)[p] # "none" => Up(proc')[p] = Up(P)[p]
    BY DEF Up, OnlyOf, Live
  <1> QED BY <1>1, <1>2 DEF Abstract!Launch, Up

\* emd stops.
LEMMA HaltMoves ==
    ASSUME NEW P, NEW A, ProcessOK(P, A), Halt(P)
    PROVE  Abstract!Halt
  <1>1. halted' = TRUE /\ \A p \in Process : proc'[p].child = "none"
    BY HaltOK DEF Live, Halt
  <1> QED BY <1>1 DEF Abstract!Halt, Abstract!GiveUp

\* A transition is completed.
LEMMA FinalMoves ==
    ASSUME NEW P, NEW A, NEW s, NEW r, NEW g, NEW F, NEW L, ~halted,
           ProcessOK(P, A), OnlyOf(P, g), Final(P, A, s, r, <<g, F, L>>)
    PROVE  Abstract!Halt \/ (Up(proc') = Up(P) /\ Abstract!Complete(g))
  <1>1. CASE Halt(P)
    BY <1>1, HaltMoves
  <1>2. CASE proc' = P /\ UNCHANGED halted
    <2>1. fsm' = "Started" /\ goal' = g
      BY DEF Final, Recorded
    <2>2. Abstract!Isolated(Up(proc'), g)
      BY <1>2, OnlyOfIsolated
    <2> QED BY <1>2, <2>1, <2>2 DEF Abstract!Complete, Up
  <1> QED BY <1>1, <1>2 DEF Final

\* A transition is given up by the state machine.
LEMMA OnErrorMoves ==
    ASSUME NEW P, NEW A, NEW r, NEW H, ~halted, ProcessOK(P, A), OnError(P, A, r, H)
    PROVE  Abstract!Halt \/ (SameChildren(P, proc') /\ Abstract!GiveUp)
  <1>1. CASE Halt(P)
    BY <1>1, HaltMoves
  <1>2. Abstract!GiveUp
    BY DEF OnError, Abstract!GiveUp
  <1>3. CASE proc' = P
    BY <1>2, <1>3 DEF SameChildren
  <1>4. CASE proc' = Prepared(P, A, Off)
    BY <1>2, <1>4, PreparedOK
  <1> QED BY <1>1, <1>3, <1>4 DEF OnError

\* A scan starts children of the target only.
LEMMA ScanMoves ==
    ASSUME NEW P, NEW A, NEW S, NEW s \in State, NEW r, NEW F, NEW L, NEW cur,
           ~halted, ProcessOK(P, A), OnlyOf(P, s), Listed(S, s),
           Scan(P, A, S, s, r, <<s, F, L>>, cur)
    PROVE  Moves(Up(P), s)
  <1>0. StartingOK(P, S, s, {}, {})
    BY DEF StartingOK, Unasked
  <1>1. ASSUME NEW R \in SUBSET Startable(P, S, s), NEW U
        PROVE  LET Q == StartAll(P, R, s, U)
               IN  /\ ProcessOK(Q, A \cup R) /\ OnlyOf(Q, s)
                   /\ \A p \in Process : Live(P[p]) => Live(Q[p])
    <2>1. MayStart(P, R, s)
      BY DEF Startable, Listed, MayStart
    <2> DEFINE Q == StartAll(P, R, s, U)
    <2>2. ProcessOK(Q, A \cup R) /\ StartingOK(Q, S, s, {}, {})
      BY <1>0, StartAllStarting
    <2>3. Launched(P, Q, R, s)
      BY <2>1, StartAllOK
    <2> HIDE DEF Q
    <2>4. \A p \in Process : Live(P[p]) => Live(Q[p])
      BY <2>3 DEF Launched
    <2>5. OnlyOf(Q, s)
      BY <2>2 DEF StartingOK
    <2> QED BY <2>2, <2>4, <2>5 DEF Q
  <1>2. ASSUME NEW R \in Scans(P, S, s), NEW U, proc' = StartAll(P, R, s, U),
               fsm' = "Starting", next' = s, UNCHANGED halted
        PROVE  Moves(Up(P), s)
    <2>1. R \in SUBSET Startable(P, S, s)
      BY DEF Scans
    <2>2. Abstract!Launch(Up(P), s)
      BY <1>1, <1>2, <2>1, LaunchMore
    <2>3. Abstract!Continue(s)
      BY <1>2 DEF Abstract!Continue
    <2> QED BY <2>2, <2>3 DEF Moves
  <1>3. ASSUME NEW R \in SUBSET Startable(P, S, s), NEW U,
               OnError(StartAll(P, R, s, U), A \cup R, r, <<s, F, L>>)
        PROVE  Moves(Up(P), s)
    <2> DEFINE Q == StartAll(P, R, s, U)
    <2>1. /\ ProcessOK(Q, A \cup R) /\ OnlyOf(Q, s)
          /\ \A p \in Process : Live(P[p]) => Live(Q[p])
      BY <1>1
    <2>2. OnError(Q, A \cup R, r, <<s, F, L>>)
      BY <1>3
    <2> HIDE DEF Q
    <2>3. Abstract!Halt \/ (SameChildren(Q, proc') /\ Abstract!GiveUp)
      BY <2>1, <2>2, OnErrorMoves
    <2>4. ASSUME SameChildren(Q, proc')
          PROVE  Abstract!Launch(Up(P), s)
      <3>1. OnlyOf(proc', s) /\ \A p \in Process : Live(P[p]) => Live(proc'[p])
        BY <2>1, <2>4 DEF SameChildren, OnlyOf, Live
      <3> QED BY <3>1, LaunchMore
    <2> QED BY <2>3, <2>4 DEF Moves
  <1> QED BY <1>2, <1>3 DEF Scan

\* kStarting.
LEMMA EnterStartingMoves ==
    ASSUME NEW P, NEW A, NEW S, NEW s \in State, NEW r, NEW F, NEW L, NEW cur,
           ~halted, ProcessOK(P, A), OnlyOf(P, s), Listed(S, s),
           EnterStarting(P, A, S, s, r, <<s, F, L>>, cur)
    PROVE  Moves(Up(P), s)
  <1>1. CASE S = {}
    <2>1. Final(P, A, s, r, <<s, F, L>>)
      BY <1>1 DEF EnterStarting
    <2> QED BY <2>1, FinalMoves, LaunchSame DEF Moves
  <1>2. CASE S # {}
    BY <1>2, ScanMoves DEF EnterStarting
  <1> QED BY <1>1, <1>2

\* A transition begins.
LEMMA TransformMoves ==
    ASSUME NEW P, NEW A, NEW s \in State, NEW r, NEW cur, ~halted, late \subseteq Process,
           ProcessOK(P, A), StartTransformState(P, A, s, r, cur)
    PROVE  /\ Moves(Up(P), s)
           /\ s = Off /\ MachineFG =>
                Abstract!Halt \/ (Up(proc') = Up(P) /\ Abstract!Continue(Off))
  <1> DEFINE Q == Prepared(P, A, s)
             T == ToEnd(P, A, s)
             S == ToStart(P, s)
  <1>1. ProcessOK(Q, A) /\ SameChildren(P, Q)
    BY PreparedOK
  <1>2. Up(Q) = Up(P)
    BY <1>1, SameUp
  <1>3. T = {} => OnlyOf(Q, s) /\ Listed(S, s)
    BY InitLists DEF StartingOK
  <1>4. S \subseteq Process
    BY DEF ToStart
  <1>5. \/ T = {} /\ EnterStarting(Q, A, S, s, r, <<s, S, late>>, cur)
        \/ T # {} /\ fsm' = "Terminating" /\ next' = s /\ proc' = Q /\ UNCHANGED halted
    BY DEF StartTransformState, NewHistory
  <1>6. s = Off => S = {}
    BY GroupAssumption DEF ToStart
  <1> HIDE DEF Q, T, S
  <1>7. CASE T = {} /\ EnterStarting(Q, A, S, s, r, <<s, S, late>>, cur)
    <2>1. Moves(Up(P), s)
      BY <1>1, <1>2, <1>3, <1>4, <1>7, EnterStartingMoves
    <2>2. s = Off /\ MachineFG => Halt(Q)
      BY <1>6, <1>7 DEF EnterStarting, Final
    <2> QED BY <1>1, <2>1, <2>2, HaltMoves
  <1>8. CASE fsm' = "Terminating" /\ next' = s /\ proc' = Q /\ UNCHANGED halted
    <2>1. Abstract!Continue(s)
      BY <1>8 DEF Abstract!Continue
    <2>2. Up(proc') = Up(P)
      BY <1>2, <1>8
    <2> QED BY <2>1, <2>2, LaunchSame DEF Moves
  <1> QED BY <1>5, <1>7, <1>8

\* A step the abstract group does not see.
LEMMA Stutters ==
    ASSUME Up(proc') = Up(proc), fsm' = fsm, next' = next, halted' = halted, goal' = goal
    PROVE  UNCHANGED Abstract!transitionVars
  BY DEF Abstract!transitionVars, Up

\* A transition that goes on is one the abstract group can make.
LEMMA MovesNext ==
    ASSUME NEW s \in State, NEW u, u = Up(proc), Moves(u, s)
    PROVE  Abstract!Next
  BY DEF Moves, Abstract!Next, Abstract!Begin, Up

\* A process is set Running.
LEMMA RunningMoves ==
    ASSUME NEW P, NEW p \in Process, IInv, ~halted, ProcessOK(P, active),
           SameChildren(proc, P), StartedEvent(P, p)
    PROVE  Abstract!Next \/ UNCHANGED Abstract!transitionVars
  <1> DEFINE S == starting \ {p}
             L == IF Punctual(p) THEN late ELSE late \cup {p}
  <1>1. Up(P) = Up(proc)
    BY SameUp
  <1>2. PICK g \in State : goal = g
    BY DEF IInv, TypeOK
  <1> HIDE DEF L
  <1>3. CASE proc' = P /\ UNCHANGED <<fsm, next, halted>> /\ goal' = goal
    BY <1>1, <1>3, Stutters
  <1>4. CASE /\ fsm = "Starting" /\ p \in starting
             /\ EnterStarting(P, active, S, next, session, <<goal, fresh, L>>, current)
    <2>1. StartingOK(proc, starting, g, fresh, late) /\ next = g
      BY <1>2, <1>4 DEF IInv
    <2>2. OnlyOf(P, g) /\ Listed(S, g)
      BY <2>1 DEF StartingOK, SameChildren, OnlyOf, Live, Listed
    <2> HIDE DEF S
    <2>3. EnterStarting(P, active, S, g, session, <<g, fresh, L>>, current)
      BY <1>2, <1>4, <2>1
    <2>4. Moves(Up(P), g)
      BY <2>2, <2>3, EnterStartingMoves
    <2> QED BY <1>1, <2>4, MovesNext
  <1>5. CASE fsm = "Started" /\ Final(P, active, next, session, <<goal, fresh, L>>)
    <2>1. OnlyOf(proc, g)
      BY <1>2, <1>5 DEF IInv, StartedOK
    <2>2. OnlyOf(P, g)
      BY <2>1 DEF SameChildren, OnlyOf, Live
    <2>3. Final(P, active, next, session, <<g, fresh, L>>)
      BY <1>2, <1>5
    <2>4. Abstract!Halt \/ (Up(proc') = Up(P) /\ Abstract!Complete(g))
      BY <2>2, <2>3, FinalMoves
    <2>5. Moves(Up(P), g)
      BY <2>4, LaunchSame DEF Moves
    <2> QED BY <1>1, <2>5, MovesNext
  <1> QED BY <1>3, <1>4, <1>5 DEF StartedEvent, Recorded, L

\* The children that are left when p is reaped.
LEMMA LostUp ==
    ASSUME NEW p \in Process, NEW P, LostOnly(p, proc, P)
    PROVE  Up(P) = [Up(proc) EXCEPT ![p] = "none"]
  BY DEF LostOnly, Up, Live

\* What may follow the end of p, when u are left.
Left(p, u) == u = [Up(proc) EXCEPT ![p] = "none"]

\* The end of p is noticed and nothing is started.
LEMMA EndedQuietly ==
    ASSUME NEW p \in Process, NEW u, Left(p, u), Up(proc') = u,
           \/ fsm' = fsm /\ next' = next /\ halted' = halted /\ goal' = goal
           \/ Abstract!GiveUp
           \/ Abstract!Continue(Off)
    PROVE  Abstract!Ended(p)
  BY DEF Left, Abstract!Ended, Up

\* The transition under way goes on.
LEMMA EndedMoves ==
    ASSUME NEW p \in Process, NEW u, Left(p, u), NEW s, Moves(u, s),
           ~halted, s = next, s # "none", fsm \in {"Terminating", "Starting"}
    PROVE  Abstract!Ended(p) \/ Abstract!Halt
  <1>1. CASE Abstract!Halt
    BY <1>1
  <1>2. CASE /\ Abstract!Launch(u, s)
             /\ Abstract!Continue(s) \/ Abstract!Complete(s) \/ Abstract!GiveUp
    <2>1. s = IF fsm \in {"Terminating", "Starting"} /\ ~halted THEN next ELSE "none"
      OBVIOUS
    <2> QED
      BY <1>2, <2>1 DEF Left, Up, Abstract!Ended, Abstract!Advance, Abstract!Launch,
                        Abstract!Continue, Abstract!Complete, Abstract!GiveUp,
                        Abstract!Isolated
  <1> QED BY <1>1, <1>2 DEF Moves

\* The end of a process is noticed.
LEMMA TerminatedMoves ==
    ASSUME NEW P, NEW A, NEW p \in Process, IInv, ~halted, Live(proc[p]),
           fsm # "Invalid", p \in ending \/ TerminatedNormally(p, proc[p]),
           ProcessOK(P, A), LostOnly(p, proc, P), TerminatedEvent(P, A, p)
    PROVE  Abstract!Ended(p) \/ Abstract!Halt
  <1> DEFINE T == ending \ {p}
             D == [q \in Process |-> dependents[q] \ {p}]
             done == p \notin ending /\ IsSelfTerminate(p, P[p])
  <1>1. PICK g \in State : goal = g
    BY DEF IInv, TypeOK
  <1>2. g # "none" /\ Left(p, Up(P))
    BY GroupAssumption, LostUp DEF Left
  <1>3. \A q \in Process : Live(P[q]) => Live(proc[q]) /\ P[q] = proc[q] /\ q # p
    BY DEF LostOnly
  <1>4. histVars = <<g, fresh, late>>
    BY <1>1 DEF histVars
  <1>5. CASE /\ p \in ending /\ T = {}
             /\ EnterStarting(P, A, starting, next, session, histVars, current)
    <2>1. /\ fsm = "Terminating" /\ next = g
          /\ TerminatingOK(proc, starting, ending, dependents, g, fresh, late)
      BY <1>1, <1>5 DEF IInv
    <2>2. OnlyOf(P, g) /\ Listed(starting, g)
      BY <1>3, <1>5, <2>1 DEF TerminatingOK, OnlyOf
    <2>3. EnterStarting(P, A, starting, g, session, <<g, fresh, late>>, current)
      BY <1>4, <1>5, <2>1
    <2>4. Moves(Up(P), g)
      BY <2>2, <2>3, EnterStartingMoves
    <2> QED BY <1>2, <2>1, <2>4, EndedMoves
  <1>6. CASE /\ p \in ending /\ T # {}
             /\ proc' = TerminatingAction(P, T, D)
             /\ UNCHANGED <<fsm, current, next, starting, session, halted, histVars>>
    <2>1. TerminatingOK(proc, starting, ending, dependents, goal, fresh, late)
          /\ ending \subseteq Process
      BY <1>6 DEF IInv, TypeOK
    <2>2. \A q \in T : Live(P[q])
      BY <2>1 DEF TerminatingOK, LostOnly
    <2>3. T \subseteq A
      BY <2>1, <2>2 DEF ProcessOK, ChildOK
    <2> HIDE DEF T, D
    <2>4. SameChildren(P, proc')
      BY <1>6, <2>3, TerminatingActionOK
    <2>5. Up(proc') = Up(P)
      BY <2>4, SameUp
    <2>6. fsm' = fsm /\ next' = next /\ halted' = halted /\ goal' = goal
      BY <1>6 DEF histVars
    <2> QED BY <1>2, <2>5, <2>6, EndedQuietly
  <1>7. CASE /\ done /\ fsm = "Starting"
             /\ Scan(P, A, starting, next, session, histVars, current)
    <2>1. StartingOK(proc, starting, g, fresh, late) /\ next = g
      BY <1>1, <1>7 DEF IInv
    <2>2. OnlyOf(P, g) /\ Listed(starting, g)
      BY <1>3, <2>1 DEF StartingOK, OnlyOf
    <2>3. Scan(P, A, starting, g, session, <<g, fresh, late>>, current)
      BY <1>4, <1>7, <2>1
    <2>4. Moves(Up(P), g)
      BY <2>2, <2>3, ScanMoves
    <2> QED BY <1>2, <1>7, <2>1, <2>4, EndedMoves
  <1>8. CASE done /\ fsm = "Started" /\ Final(P, A, next, session, histVars)
    <2>1. OnlyOf(P, g)
      BY <1>1, <1>3, <1>8 DEF IInv, StartedOK, OnlyOf
    <2>2. Final(P, A, next, session, <<g, fresh, late>>)
      BY <1>4, <1>8
    <2>3. CASE Halt(P)
      BY <2>3, HaltMoves
    <2>4. CASE ~Halt(P)
      <3>1. proc' = P /\ fsm' = fsm /\ halted' = halted /\ goal' = goal
        BY <1>1, <1>8, <2>2, <2>4 DEF Final, Recorded
      <3> QED BY <1>2, <1>8, <3>1 DEF Left, Abstract!Ended, Up
    <2> QED BY <2>3, <2>4
  <1>9. CASE /\ p \notin ending /\ (~done \/ fsm = "Terminating")
             /\ proc' = P
             /\ UNCHANGED <<fsm, current, next, starting, ending, session, halted, histVars>>
    <2>1. fsm' = fsm /\ next' = next /\ halted' = halted /\ goal' = goal /\ Up(proc') = Up(P)
      BY <1>9 DEF histVars
    <2> QED BY <1>2, <2>1, EndedQuietly
  <1> QED BY <1>5, <1>6, <1>7, <1>8, <1>9 DEF TerminatedEvent

\* The state is given up after the end of p.
LEMMA FallMoves ==
    ASSUME NEW P, NEW A, NEW p \in Process, ~halted, late \subseteq Process, Left(p, Up(P)),
           ProcessOK(P, A), FallUndefined(P, A)
    PROVE  Abstract!Ended(p) \/ Abstract!Halt
  <1>1. CASE Manageable(P)
    <2>1. fsm' = "Invalid" /\ proc' = P
      BY <1>1 DEF FallUndefined
    <2>2. Abstract!GiveUp
      BY <2>1 DEF Abstract!GiveUp
    <2> QED BY <2>1, <2>2, EndedQuietly
  <1>2. CASE ~Manageable(P)
    <2>1. MachineFG /\ Off \in State
      BY <1>2, GroupAssumption DEF Manageable
    <2>2. StartTransformState(P, A, Off, session, Undefined)
      BY <1>2 DEF FallUndefined
    <2>3. Abstract!Halt \/ (Up(proc') = Up(P) /\ Abstract!Continue(Off))
      BY <2>1, <2>2, TransformMoves
    <2> QED BY <2>3, EndedQuietly
  <1> QED BY <1>1, <1>2

\* A step of one process is not seen.
LEMMA ProcessStepStutters ==
    ASSUME NEW p \in Process, NEW r, proc \in [Process -> ProcessRecord], ProcessStep(p, r),
           r.config = proc[p].config, Live(r) <=> Live(proc[p])
    PROVE  UNCHANGED Abstract!transitionVars
  <1>1. Up(proc') = Up(proc)
    BY DEF ProcessStep, Up, Live
  <1> QED BY <1>1, Stutters DEF ProcessStep, histVars

\* Kill included.
LEMMA KillStutters ==
    ASSUME NEW p \in Process, NEW r \in ProcessRecord, NEW c \in Cause,
           proc \in [Process -> ProcessRecord],
           ProcessStep(p, Killed(r, c)) \/ ProcessStep(p, r),
           r.config = proc[p].config, Live(r) <=> Live(proc[p])
    PROVE  UNCHANGED Abstract!transitionVars
  <1>1. Killed(r, c).config = r.config /\ (Live(Killed(r, c)) <=> Live(r))
    BY KilledFacts DEF Live
  <1> QED BY <1>1, ProcessStepStutters

\* SIGCHLD.
LEMMA ReapMoves ==
    ASSUME NEW p \in Process, IInv, Reap(p)
    PROVE  Abstract!Next \/ UNCHANGED Abstract!transitionVars
  <1> DEFINE P == [proc EXCEPT ![p] = Reaped(@)]
             A == active \ {p}
             normal == TerminatedNormally(p, proc[p])
  <1>0. ~halted /\ Live(proc[p])
    BY DEF Reap, Live
  <1>1. /\ ProcessOK(proc, active) /\ late \subseteq Process
        /\ proc \in [Process -> ProcessRecord] /\ proc[p] \in ProcessRecord
    BY <1>0 DEF IInv, TypeOK
  <1>2. /\ ProcessOK(P, A) /\ LostOnly(p, proc, P)
        /\ P[p] = Reaped(proc[p]) /\ P \in [Process -> ProcessRecord]
    BY <1>0, ReapedProcesses
  <1>3. Left(p, Up(P))
    BY <1>2, LostUp DEF Left
  <1>4. Abstract!Ended(p) \/ Abstract!Halt => Abstract!Next
    BY DEF Abstract!Next
  <1>5. CASE /\ fsm = "Invalid"
             /\ proc' = P
             /\ UNCHANGED <<fsm, current, next, listVars, session, halted, histVars>>
    <2>1. Up(proc') = Up(P) /\ fsm' = fsm /\ next' = next /\ halted' = halted /\ goal' = goal
      BY <1>5 DEF histVars
    <2> HIDE DEF P
    <2> QED BY <1>3, <1>4, <2>1, EndedQuietly
  <1>6. CASE /\ fsm # "Invalid"
             /\ normal \/ (fsm = "Terminating" /\ p \in ending)
             /\ TerminatedEvent(P, A, p)
    <2> HIDE DEF P, A
    <2> QED BY <1>0, <1>2, <1>4, <1>6, TerminatedMoves
  <1>7. ASSUME NEW b \in BOOLEAN,
               ProcessStep(p, [StartedFor(p, Reaped(proc[p]), proc[p].fgState, b)
                                 EXCEPT !.restarts = @ + 1])
        PROVE  UNCHANGED Abstract!transitionVars
    <2> DEFINE q == StartedFor(p, Reaped(proc[p]), proc[p].fgState, b)
               r == [q EXCEPT !.restarts = @ + 1]
    <2>1. /\ proc[p].fgState \in State /\ proc[p].config = Config[p][proc[p].fgState]
      BY <1>0, <1>1 DEF ProcessOK, ChildOK
    <2>2. Reaped(proc[p]) \in ProcessRecord
      BY <1>1, ReapedFacts
    <2>3. q \in ProcessRecord /\ q.child = "live" /\ q.config = proc[p].config
      BY <2>1, <2>2, StartedForFacts
    <2> HIDE DEF q
    <2>4. r.config = proc[p].config /\ Live(r)
      BY <2>3 DEF ProcessRecord, Live
    <2>5. ProcessStep(p, r)
      BY <1>7 DEF q
    <2> HIDE DEF r
    <2> QED BY <1>0, <1>1, <2>4, <2>5, ProcessStepStutters
  <1>8. CASE FallUndefined(P, A)
    <2> HIDE DEF P, A
    <2> QED BY <1>0, <1>1, <1>2, <1>3, <1>4, <1>8, FallMoves
  <1>9. CASE Restartable(p) /\ FallUndefined([P EXCEPT ![p].restarts = @ + 1], A)
    <2> DEFINE Q == [P EXCEPT ![p].restarts = @ + 1]
    <2>1. ProcessOK(Q, A) /\ LostOnly(p, proc, Q)
      BY <1>0, <1>9, FailedRestart
    <2> HIDE DEF Q
    <2>2. Left(p, Up(Q))
      BY <2>1, LostUp DEF Left
    <2> QED BY <1>0, <1>1, <1>4, <1>9, <2>1, <2>2, FallMoves DEF Q
  <1>10. CASE \E b \in IF p \in MayNotAttach THEN BOOLEAN ELSE {TRUE} :
                ProcessStep(p, [StartedFor(p, Reaped(proc[p]), proc[p].fgState, b)
                                  EXCEPT !.restarts = @ + 1])
    BY <1>7, <1>10
  <1> QED BY <1>5, <1>6, <1>8, <1>9, <1>10 DEF Reap

\* Every step of the group is a step of ExecTransition, or is not seen there.
LEMMA StepSimulation ==
    IInv /\ [Next]_vars => [Abstract!Next]_(Abstract!transitionVars)
  <1> SUFFICES ASSUME IInv, [Next]_vars
               PROVE  Abstract!Next \/ UNCHANGED Abstract!transitionVars
    OBVIOUS
  <1>1. proc \in [Process -> ProcessRecord] /\ late \subseteq Process
        /\ (~halted => ProcessOK(proc, active)) /\ Off \in State /\ Startup \in State
    BY GroupAssumption DEF IInv, TypeOK
  <1>2. CASE UNCHANGED vars
    BY <1>2, Stutters DEF vars, histVars
  <1>3. CASE Disconnect
    BY <1>3, Stutters DEF Disconnect, histVars
  <1>4. ASSUME NEW s \in State, NEW r, NEW cur, ~halted,
               StartTransformState(proc, active, s, r, cur)
        PROVE  Abstract!Next
    <2>1. PICK P : P = proc
      OBVIOUS
    <2>2. PICK A : A = active
      OBVIOUS
    <2>3. StartTransformState(P, A, s, r, cur) /\ ProcessOK(P, A)
      BY <1>1, <1>4, <2>1, <2>2
    <2>4. Moves(Up(P), s)
      BY <1>1, <1>4, <2>3, TransformMoves
    <2> QED BY <2>1, <2>4, MovesNext
  <1>5. CASE \E s \in State : SetState(s)
    BY <1>4, <1>5 DEF SetState
  <1>6. CASE Boot \/ SigTerm
    BY <1>1, <1>4, <1>6 DEF Boot, SigTerm
  <1>7. CASE SigInt
    BY <1>1, <1>7, HaltMoves DEF SigInt, Abstract!Next
  <1>8. ASSUME NEW p \in Process, QueuedKill(p)
        PROVE  UNCHANGED Abstract!transitionVars
    <2> DEFINE k == Killed(proc[p], "InitFailure")
    <2>1. k \in ProcessRecord /\ k.config = proc[p].config /\ k.child = proc[p].child
      BY <1>1, KilledFacts DEF Cause
    <2>2. ProcessStep(p, [k EXCEPT !.queued = @ \ {"kill"}])
      BY <1>8 DEF QueuedKill
    <2> HIDE DEF k
    <2>3. LET r == [k EXCEPT !.queued = @ \ {"kill"}]
          IN  r.config = k.config /\ r.child = k.child
      BY <2>1 DEF ProcessRecord
    <2> QED BY <1>1, <2>1, <2>2, <2>3, ProcessStepStutters DEF Live
  <1>9. ASSUME NEW p \in Process, EnterTimeout(p) \/ ExitTimeout(p)
        PROVE  UNCHANGED Abstract!transitionVars
    <2> DEFINE e == [proc[p] EXCEPT !.enterTimer = FALSE]
               x == [proc[p] EXCEPT !.exitTimer = FALSE]
    <2>1. /\ e \in ProcessRecord /\ e.config = proc[p].config /\ e.child = proc[p].child
          /\ x \in ProcessRecord /\ x.config = proc[p].config /\ x.child = proc[p].child
      BY <1>1 DEF ProcessRecord
    <2>2. \/ ProcessStep(p, e) \/ ProcessStep(p, Killed(e, "EnterTimeout"))
          \/ ProcessStep(p, x) \/ ProcessStep(p, Killed(x, "ExitTimeout"))
      BY <1>9 DEF EnterTimeout, ExitTimeout
    <2>3. "EnterTimeout" \in Cause /\ "ExitTimeout" \in Cause
      BY DEF Cause
    <2>4. (Live(e) <=> Live(proc[p])) /\ (Live(x) <=> Live(proc[p]))
      BY <2>1 DEF Live
    <2> HIDE DEF e, x
    <2> QED BY <1>1, <2>1, <2>2, <2>3, <2>4, KillStutters
  <1>10. ASSUME NEW p \in Process, Report(p) \/ DieKilled(p) \/ Exit(p)
         PROVE  UNCHANGED Abstract!transitionVars
    <2>1. \/ ProcessStep(p, [proc[p] EXCEPT !.report = "sent"])
          \/ \E c \in {"ok", "bad"} :
               ProcessStep(p, [proc[p] EXCEPT !.child = c]) /\ proc[p].child = "live"
      BY <1>10 DEF Report, DieKilled, Exit
    <2>2. proc[p] \in ProcessRecord
      BY <1>1
    <2>3. CASE ProcessStep(p, [proc[p] EXCEPT !.report = "sent"])
      BY <1>1, <2>2, <2>3, ProcessStepStutters DEF ProcessRecord, Live
    <2>4. ASSUME NEW c \in {"ok", "bad"}, proc[p].child = "live",
                 ProcessStep(p, [proc[p] EXCEPT !.child = c])
          PROVE  UNCHANGED Abstract!transitionVars
      <3>1. LET r == [proc[p] EXCEPT !.child = c]
            IN  r.config = proc[p].config /\ Live(r) /\ Live(proc[p])
        BY <2>2, <2>4 DEF ProcessRecord, Live
      <3> QED BY <1>1, <2>4, <3>1, ProcessStepStutters
    <2> QED BY <2>1, <2>3, <2>4
  <1>11. ASSUME NEW p \in Process, HandleReport(p) \/ QueuedRunning(p)
         PROVE  Abstract!Next \/ UNCHANGED Abstract!transitionVars
    BY <1>11, RunningEvent, RunningMoves
  <1> QED
    BY <1>2, <1>3, <1>5, <1>6, <1>7, <1>8, <1>9, <1>10, <1>11, ReapMoves DEF Next, LoopStep

\* The execution manager implements the abstract group.
THEOREM ImplementsTransition == Spec => Refinement
  <1>1. Init => Abstract!Init
    BY DEF Init, Abstract!Init, IdleProcess
  <1> QED BY <1>1, StepSimulation, Invariance, PTL DEF Spec, Refinement, Abstract!Spec

\* So a settled group has no child of another state.
THEOREM SettledGroupIsIsolated == Spec => []Abstract!SettledIsIsolated
  <1>1. IInv => Abstract!SettledIsIsolated
    <2> SUFFICES ASSUME IInv, fsm = "Started", ~halted
                 PROVE  Abstract!SettledIsIsolated
      BY DEF Abstract!SettledIsIsolated
    <2>1. OnlyOf(proc, goal)
      BY DEF IInv, StartedOK
    <2> QED BY <2>1 DEF Abstract!SettledIsIsolated, Abstract!Isolated, OnlyOf, Live
  <1> QED BY <1>1, Invariance, PTL

=============================================================================
