------------------------------- MODULE MCExec -------------------------------
(***************************************************************************)
(* Instances of ExecFunctionGroup.                                         *)
(***************************************************************************)
EXTENDS ExecFunctionGroup

\* An application group: a server with the same configuration in both states,
\* and a worker that needs it by day.  At night the worker runs to its end, and
\* a server that is not there yet waits for that.
GroupProcess == {"server", "worker"}
GroupState   == {"Off", "Day", "Night"}
GroupConfig  ==
    [p \in GroupProcess |-> [s \in GroupState |->
        CASE s = "Off" -> "none"
          [] p = "server" /\ s # "Off" -> "serverAlways"
          [] p = "worker" /\ s = "Day" -> "workerDay"
          [] p = "worker" /\ s = "Night" -> "workerNight"]]
GroupRunDep ==
    [p \in GroupProcess |-> [s \in GroupState |->
        IF p = "worker" /\ s = "Day" THEN {"server"} ELSE {}]]
GroupTermDep ==
    [p \in GroupProcess |-> [s \in GroupState |->
        IF p = "server" /\ s = "Night" THEN {"worker"} ELSE {}]]
GroupAttempts == [p \in GroupProcess |-> 1]

\* The machine: State Management and an application that depends on it.
MachineProcess == {"sm", "app"}
MachineState   == {"Off", "Startup", "Run"}
MachineConfig  ==
    [p \in MachineProcess |-> [s \in MachineState |->
        CASE s = "Off" -> "none"
          [] p = "sm" /\ s # "Off" -> "smAlways"
          [] p = "app" /\ s = "Run" -> "appRun"
          [] p = "app" /\ s = "Startup" -> "appStartup"]]
MachineRunDep ==
    [p \in MachineProcess |-> [s \in MachineState |->
        IF p = "app" /\ s # "Off" THEN {"sm"} ELSE {}]]
MachineNoDep == [p \in MachineProcess |-> [s \in MachineState |-> {}]]
MachineAttempts == [p \in MachineProcess |-> IF p = "sm" THEN 1 ELSE 0]
=============================================================================
