--------------------------- MODULE ExecTransition ---------------------------
(***************************************************************************)
(* What State Management may rely on when it changes the state of a        *)
(* function group, without the lists, timers and process states the        *)
(* execution manager keeps to achieve it:                                  *)
(*   - a process has at most one child, and a child is only created by a   *)
(*     transition under way, with the startup configuration of its target; *)
(*   - no child of the target is created while a child with the            *)
(*     configuration of another state is left;                             *)
(*   - the group settles in a state only when no such child is left, and   *)
(*     a settled group creates none.                                       *)
(***************************************************************************)
CONSTANTS
    Process,   \* the processes of the function group
    State,     \* its states
    Off,       \* the state no process belongs to
    Config     \* Config[p][s]: startup configuration of p in s, or "none"

VARIABLES
    up,        \* configuration the child of a process was started with
    request,   \* target of the transition under way
    settled    \* the state the group is settled in

transitionVars == <<up, request, settled>>

Isolated(u, s) == \A p \in Process : u[p] \in {"none", Config[p][s]}

\* The children of a transition to s: u are the ones left, up' the new ones.
Launch(u, s) ==
    \/ up' = u
    \/ /\ Isolated(u, s)
       /\ Isolated(up', s)
       /\ \A p \in Process : u[p] # "none" => up'[p] = u[p]

\* A transition to s goes on, is completed, or is given up.
Continue(s) == request' = s /\ settled' = "none"
Complete(s) == request' = "none" /\ settled' = s /\ Isolated(up', s)
GiveUp      == request' = "none" /\ settled' = "none"

Init == up = [p \in Process |-> "none"] /\ request = "none" /\ settled = "none"

\* A transition begins, in place of the one under way if there is one.
Begin(s) == Launch(up, s) /\ (Continue(s) \/ Complete(s) \/ GiveUp)

\* The transition makes progress.
Advance(u) ==
    /\ request # "none"
    /\ Launch(u, request)
    /\ Continue(request) \/ Complete(request) \/ GiveUp

\* The end of the child of p is noticed.  A settled group may be given up for it;
\* a machine that cannot be recovered begins to shut down.
Ended(p) ==
    LET left == [up EXCEPT ![p] = "none"]
    IN  \/ Advance(left)
        \/ up' = left /\ UNCHANGED <<request, settled>>
        \/ up' = left /\ GiveUp
        \/ up' = left /\ Continue(Off)

\* The execution manager stops and takes every child with it.
Halt == up' = [p \in Process |-> "none"] /\ GiveUp

Next ==
    \/ \E s \in State : Begin(s)
    \/ Advance(up)
    \/ \E p \in Process : Ended(p)
    \/ Halt

Spec == Init /\ [][Next]_transitionVars

-----------------------------------------------------------------------------
(***************************************************************************)
(* The abstract promise in one formula: a settled group has no child of    *)
(* another state.                                                          *)
(***************************************************************************)
SettledIsIsolated == settled # "none" => Isolated(up, settled)
=============================================================================
