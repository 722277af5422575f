------------------------- MODULE UcmPackageManager -------------------------
(***************************************************************************)
(* The package manager of UCM (pkgmgr): its state machine, the executors   *)
(* that do the work of a state, the A/B files they switch, and the way it  *)
(* finds its state again after a restart; with the choice ara-loader makes *)
(* between the A and the B files at boot.                                  *)
(*                                                                         *)
(* Two software clusters stand for the two categories the code treats      *)
(* differently: core (platform, chosen at boot by a boot option file) and  *)
(* app (chosen by the software cluster list the running core is linked     *)
(* to).  Every write to the disk that a restart can tell apart is a step,  *)
(* and the machine may go down between any two of them.  Single files are  *)
(* written and removed atomically, and the file system reports no errors;  *)
(* ucm_status.json and the md5 that makes it valid are written in one      *)
(* step, since a restart treats the one without the other like neither.    *)
(*                                                                         *)
(* An executor is one thread, pc.  A second one exists only after a        *)
(* reboot (verifier) and while a cancelled processing answers (failing).   *)
(* The client waits for the answers of its calls, but may revert while a   *)
(* package is processed and roll back while the update is verified.  The   *)
(* switch the verifier makes without the lock is taken to be one step,     *)
(* which does not fall into the switch and saving of a Rollback.           *)
(* Assertions are compiled out, as in a release build.                     *)
(***************************************************************************)
EXTENDS Integers, FiniteSets, FiniteSetsExt

CONSTANTS
    MaxVersion,   \* newest version of a software cluster
    Option,       \* activation option in the manifest of a package
    MaxCrashes    \* bound on the restarts nobody asked for

ASSUME UcmAssumption ==
    /\ MaxVersion \in Nat \ {0}
    /\ MaxCrashes \in Nat

ASSUME OptionAssumption ==
    Option \in [{"core", "app"} \X (1 .. MaxVersion) ->
                  {"kReboot", "kRestartApplication", "kWaitForReboot"}]

Cluster == {"core", "app"}
Version == 1 .. MaxVersion

VARIABLES
    \* on the disk
    status, md5,     \* ucm_status.json, and whether ucm_status.md5 agrees with it
    boot,            \* ara_verX.json, the boot option files: core version by X
    list,            \* application_swcl_list_verY.json: app version by Y
    link,            \* run_time_application_swcl_list.cfg: list Y by core version
    dirs,            \* installed versions of a cluster
    swcl,            \* status file of a cluster: cur and, when kUpdated, new
    \* in memory
    st, final,       \* the state and its FinalActionType
    saving,          \* the state has been switched but not yet saved
    acts, changed,   \* actions_; whether swclChangeInfo_ is not empty
    lastBoot, lastList,
    pc,              \* where the executor is
    verifier,        \* RunInThreadAfterReboot is under way
    failing, revert, \* a failed processing, and a revert, that wait for the lock
    pkg,             \* the package processed
    \* around it
    run,             \* the core, the list and the app that run
    session,         \* SM's update session
    resetting,       \* ResetMachine has been accepted
    crashes,         \* restarts nobody asked for
    bundle, denied   \* history: actions last activated; SM refused to roll back

statusVars == <<status, md5, st, final, saving>>
diskVars   == <<boot, list, link, dirs, swcl>>
memVars    == <<acts, changed, lastBoot, lastList>>
threadVars == <<pc, verifier, failing, revert, pkg>>
envVars    == <<run, session, resetting, crashes>>
histVars   == <<bundle, denied>>
vars == <<statusVars, diskVars, memVars, threadVars, envVars, histVars>>

States == {"Idle", "Ready", "Processing", "Activating", "Verifying", "Activated",
           "RollingBack", "RolledBack", "CleaningUp",
           "ExceptionRollingBack", "ExceptionCleaningUp"}

\* A file f[k] is written, or removed.
With(f, k, v) == [i \in DOMAIN f \cup {k} |-> IF i = k THEN v ELSE f[i]]
Without(f, k) == [i \in DOMAIN f \ {k} |-> f[i]]

Init ==
    /\ status = [st |-> "Idle", final |-> "Revert", acts |-> {}] /\ md5 = TRUE
    /\ boot = [i \in {1} |-> 1]
    /\ list = [i \in {1} |-> 1] /\ link = [v \in {1} |-> 1]
    /\ dirs = [c \in Cluster |-> {1}]
    /\ swcl = [c \in Cluster |-> [cur |-> 1, new |-> 0]]
    /\ st = "Idle" /\ final = "Revert" /\ saving = FALSE
    /\ acts = {} /\ changed = FALSE /\ lastBoot = 1 /\ lastList = 1
    /\ pc = "none" /\ verifier = FALSE /\ failing = FALSE /\ revert = "none"
    /\ pkg = <<"core", 1>>
    /\ run = [core |-> 1, list |-> 1, app |-> 1]
    /\ session = FALSE /\ resetting = FALSE /\ crashes = 0
    /\ bundle = {} /\ denied = FALSE

-----------------------------------------------------------------------------
(***************************************************************************)
(* Switching and saving the state.                                         *)
(***************************************************************************)

\* FsmManager::Switch and the first half of _onSwitchNewState: the md5 is removed
\* before ucm_status.json is written.
Switch(s, f) ==
    /\ st' = s /\ final' = f
    /\ saving' = TRUE /\ md5' = FALSE
    /\ UNCHANGED status

\* Seeded fault: CleaningUp is not among the states that are committed.
CommittedButCleaningUp ==
    {"Idle", "Ready", "Activated", "RolledBack", "ExceptionCleaningUp"}

\* Seeded fault: every state is committed.
CommittedAlways == States

\* The states whose saving is committed at once.
Committed == {"Idle", "Ready", "Activated", "RolledBack", "CleaningUp", "ExceptionCleaningUp"}

\* The second half: SaveCurrentStatus, and CommitSaveTransaction in these states.
SaveCurrentStatus ==
    /\ saving
    /\ status' = [st |-> st, final |-> final, acts |-> acts]
    /\ md5' = (st \in Committed)
    /\ saving' = FALSE
    /\ UNCHANGED <<st, final, diskVars, memVars, threadVars, envVars, histVars>>

At(p) == pc = p /\ ~saving
Goto(p) == pc' = p /\ UNCHANGED <<verifier, failing, revert, pkg>>

\* The executor writes to the disk and goes on to step p.
Wrote(p) ==
    /\ Goto(p)
    /\ UNCHANGED <<statusVars, memVars, envVars, histVars>>

Updated(c) == swcl[c].new # 0
Target(c)  == IF Updated(c) THEN swcl[c].new ELSE swcl[c].cur

\* Seeded fault: an id is left out.
IdTwoAhead(last) == last + 2

\* The id of the B file, next to the last used one.
NextId(last) == last + 1

\* GetStrongestActivationOption is kReboot, or else kRestartApplication; when it is
\* neither it is kWaitForReboot, which restarts nothing.
NeedsReboot  == \E a \in acts : Option[a] = "kReboot"
NeedsRestart == ~NeedsReboot /\ \E a \in acts : Option[a] = "kRestartApplication"

\* _swclFGMatch: SM is asked to verify, and to prepare the rollback, of a cluster.
AsksSM == \E a \in acts : Updated(a[1]) /\ Option[a] # "kWaitForReboot"

\* The calls of a client that waits for its answers.
Calls == ~saving /\ pc = "none" /\ ~failing /\ revert = "none"

-----------------------------------------------------------------------------
(***************************************************************************)
(* ProcessSwPackage.                                                       *)
(***************************************************************************)
ProcessSwPackage(c, v) ==
    /\ Calls /\ st \in {"Idle", "Ready"}
    /\ Switch("Processing", "Revert")
    /\ pc' = "process" /\ pkg' = <<c, v>>
    /\ UNCHANGED <<verifier, failing, revert, diskVars, memVars, envVars, histVars>>

\* ExistsInActions and the version test of UpdateAction::Execute.
Acceptable(c, v) ==
    /\ <<c, v>> \notin acts
    /\ IF Updated(c) THEN v = swcl[c].new ELSE v > swcl[c].cur

\* UpdateAction::Execute: the new version is put in place of what may be there ...
Place ==
    /\ At("process") /\ Acceptable(pkg[1], pkg[2])
    /\ dirs' = [dirs EXCEPT ![pkg[1]] = @ \cup {pkg[2]}]
    /\ link' = IF pkg[1] = "core" THEN Without(link, pkg[2]) ELSE link
    /\ Wrote("placed")
    /\ UNCHANGED <<boot, list, swcl>>

\* ... and announced in the status of the cluster; the action is kept.
Execute ==
    /\ At("placed")
    /\ swcl' = [swcl EXCEPT ![pkg[1]].new = pkg[2]]
    /\ acts' = acts \cup {pkg}
    /\ changed' = TRUE
    /\ Goto("processed")
    /\ UNCHANGED <<statusVars, boot, list, link, dirs, lastBoot, lastList,
                   envVars, histVars>>

OnProcessSwPackageSucceeded ==
    /\ At("processed")
    /\ Switch("Ready", "Revert")
    /\ Goto("none")
    /\ UNCHANGED <<diskVars, memVars, envVars, histVars>>

\* The package cannot be used, or is cancelled at one of the two checks; the last
\* check finds it inconsistent and removes it.
ProcessFails ==
    /\ \/ At("process") /\ UNCHANGED <<dirs, link>>
       \/ /\ At("placed")
          /\ dirs' = [dirs EXCEPT ![pkg[1]] = @ \ {pkg[2]}]
          /\ link' = IF pkg[1] = "core" THEN Without(link, pkg[2]) ELSE link
    /\ failing' = TRUE /\ pc' = "none"
    /\ revert' = IF revert = "asked" /\ pc = "process" THEN "granted" ELSE revert
    /\ UNCHANGED <<verifier, pkg, statusVars, boot, list, swcl, memVars,
                   envVars, histVars>>

\* ProcessingState::OnProcessSwPackageFailed; in other states nothing is done.
OnProcessSwPackageFailed ==
    /\ failing /\ ~saving
    /\ failing' = FALSE
    /\ IF st = "Processing"
       THEN Switch(IF changed THEN "Ready" ELSE "Idle", "Revert")
       ELSE UNCHANGED statusVars
    /\ UNCHANGED <<pc, verifier, revert, pkg, diskVars, memVars, envVars, histVars>>

\* ProcessingState::RevertProcessedSwPackages: the processing is cancelled, or
\* comes to its end first; in the first case the packages are reverted.
RevertProcessing ==
    /\ st = "Processing" /\ pc = "process" /\ revert = "none" /\ ~saving
    /\ revert' = "asked"
    /\ UNCHANGED <<pc, verifier, failing, pkg, statusVars, diskVars, memVars, envVars, histVars>>

NotCancelled ==
    /\ revert = "asked"
    /\ revert' = "none"
    /\ UNCHANGED <<pc, verifier, failing, pkg, statusVars, diskVars, memVars, envVars, histVars>>

RevertSwitch ==
    /\ revert = "granted" /\ ~saving
    /\ Switch("CleaningUp", "Revert")
    /\ revert' = "none" /\ pc' = "cleanup"
    /\ UNCHANGED <<verifier, failing, pkg, diskVars, memVars, envVars, histVars>>

-----------------------------------------------------------------------------
(***************************************************************************)
(* Activate and Verify.                                                    *)
(***************************************************************************)
Activate ==
    /\ Calls /\ st = "Ready"
    /\ Switch("Activating", "Revert")
    /\ Goto("activate")
    /\ bundle' = acts
    /\ UNCHANGED <<diskVars, memVars, envVars, denied>>

\* The dependency check fails, or SM does not open a session.
ActivateRefused ==
    /\ At("activate")
    /\ Switch("Ready", "Revert")
    /\ Goto("none")
    /\ UNCHANGED <<diskVars, memVars, envVars, histVars>>

StartUpdateSession ==
    /\ At("activate") /\ ~session
    /\ session' = TRUE
    /\ Goto("prepare")
    /\ UNCHANGED <<statusVars, diskVars, memVars, run, resetting, crashes, histVars>>

\* PrepareUpdate or MergeVars fails.
PrepareRefused ==
    /\ At("prepare") /\ acts # {}
    /\ session' = FALSE
    /\ Switch("Ready", "Revert")
    /\ Goto("none")
    /\ UNCHANGED <<diskVars, memVars, run, resetting, crashes, histVars>>

\* The lock is kept from here until the verification is over or the machine resets.
PrepareUpdate ==
    /\ At("prepare")
    /\ Switch("Verifying", "Revert")
    /\ Goto("list")
    /\ UNCHANGED <<diskVars, memVars, envVars, histVars>>

\* Seeded fault: the boot option is made before the list is linked.
LinkAfterBoot(step) ==
    CASE step = "list" -> IF Updated("core") THEN "boot" ELSE "link"
      [] step = "link" -> "restart"
      [] step = "boot" -> "link"

\* _verifyBeforeRestart: the order of SwclListFileLinkToB and BootOptionFileLinkToB.
AfterStep(step) ==
    CASE step = "list" -> "link"
      [] step = "link" -> IF Updated("core") THEN "boot" ELSE "restart"
      [] step = "boot" -> "restart"

SwclListFileLinkToB ==
    \/ /\ At("list")
       /\ list' = IF Updated("app") THEN With(list, NextId(lastList), Target("app")) ELSE list
       /\ Wrote(AfterStep("list"))
       /\ UNCHANGED <<boot, link, dirs, swcl>>
    \/ /\ At("link")
       /\ link' = With(link, Target("core"),
                       IF Updated("app") THEN NextId(lastList) ELSE lastList)
       /\ Wrote(AfterStep("link"))
       /\ UNCHANGED <<boot, list, dirs, swcl>>

BootOptionFileLinkToB ==
    /\ At("boot")
    /\ boot' = With(boot, NextId(lastBoot), Target("core"))
    /\ Wrote(AfterStep("boot"))
    /\ UNCHANGED <<list, link, dirs, swcl>>

\* RebootOrReparse with a reboot: the state is committed, then SM is asked.
CommitSaveTransaction ==
    /\ pc \in {"restart", "rbRestart"} /\ ~saving /\ NeedsReboot
    /\ md5' = TRUE
    /\ Goto(IF pc = "restart" THEN "reset" ELSE "rbReset")
    /\ UNCHANGED <<status, st, final, saving, diskVars, memVars, envVars, histVars>>

ResetAccepted ==
    /\ pc \in {"reset", "rbReset", "exReset"} /\ ~saving
    /\ resetting' = TRUE
    /\ Goto("none")
    /\ UNCHANGED <<statusVars, diskVars, memVars, run, session, crashes, histVars>>

\* An executor gives up: SM or EM refused; the state waits for the next restart.
GivesUp ==
    /\ Goto("none")
    /\ denied' = TRUE
    /\ UNCHANGED <<statusVars, diskVars, memVars, envVars, bundle>>

\* A verification that fails, here or below, is followed by the rollback.
VerifyingFails ==
    /\ Switch("RollingBack", "Revert")
    /\ Goto("rollback")
    /\ UNCHANGED <<diskVars, memVars, envVars, histVars>>

ResetRefused ==
    \/ At("reset") /\ VerifyingFails
    \/ pc \in {"rbReset", "exReset"} /\ ~saving /\ GivesUp

\* emd of core v needs the list that core is linked to, and its application.
CanLoad(v) ==
    v \in DOMAIN link /\ link[v] \in DOMAIN list /\ list[link[v]] \in dirs["app"]

\* RebootOrReparse without a reboot.  EM looks up every cluster of the actions in the
\* list of the running core, which names applications only, and restarts them; for
\* kWaitForReboot there is nothing to do and what runs goes on.
ReparseProcessList ==
    IF NeedsRestart
    THEN /\ CanLoad(run.core) /\ \A a \in acts : a[1] # "core"
         /\ run' = [run EXCEPT !.app = list[link[run.core]]]
    ELSE UNCHANGED run

Reparse ==
    /\ At("restart") /\ ~NeedsReboot
    /\ ReparseProcessList
    /\ Goto("verify")
    /\ UNCHANGED <<statusVars, diskVars, memVars, session, resetting, crashes, histVars>>

ReparseFails == At("restart") /\ NeedsRestart /\ VerifyingFails

\* _verifyAfterRestart in the same thread.
VerifyUpdate ==
    /\ At("verify")
    /\ Switch("Activated", "Revert")
    /\ Goto("none")
    /\ UNCHANGED <<diskVars, memVars, envVars, histVars>>

VerifyRefused == At("verify") /\ AsksSM /\ VerifyingFails

\* Seeded fault: the versions that came up are not compared with the new ones.
NothingToCheck == TRUE

\* CheckCoreVersionAfterReboot and CheckSwclListVersionAfterReboot.
RunsNewVersions ==
    /\ Updated("core") => run.core = Target("core")
    /\ Updated("app") => run.list = NextId(lastList)

\* RunInThreadAfterReboot.  When the client has rolled back meanwhile the state
\* does not take the result.
VerifiedAfterReboot ==
    /\ verifier /\ ~saving /\ RunsNewVersions
    /\ verifier' = FALSE
    /\ IF st = "Verifying" THEN Switch("Activated", "Revert") ELSE UNCHANGED statusVars
    /\ UNCHANGED <<pc, failing, revert, pkg, diskVars, memVars, envVars, histVars>>

FailedAfterReboot ==
    /\ verifier /\ ~saving
    /\ verifier' = FALSE
    /\ IF st = "Verifying"
       THEN Switch("RollingBack", "Revert") /\ pc' = "rollback"
       ELSE UNCHANGED <<statusVars, pc>>
    /\ UNCHANGED <<failing, revert, pkg, diskVars, memVars, envVars, histVars>>

-----------------------------------------------------------------------------
(***************************************************************************)
(* Rollback.                                                               *)
(***************************************************************************)
Rollback ==
    /\ Calls /\ st \in {"Activated", "Verifying"}
    /\ Switch("RollingBack", "Revert")
    /\ Goto("rollback")
    /\ UNCHANGED <<diskVars, memVars, envVars, histVars>>

RollbackRefused == At("rollback") /\ AsksSM /\ GivesUp

\* Seeded fault: the boot option file of the new core is left behind.
BootOptionFileKept ==
    /\ At("rollback")
    /\ Wrote("rbLink")
    /\ UNCHANGED diskVars

BootOptionFileRollbackToA ==
    /\ At("rollback")
    /\ boot' = IF Updated("core") THEN Without(boot, NextId(lastBoot)) ELSE boot
    /\ Wrote("rbLink")
    /\ UNCHANGED <<list, link, dirs, swcl>>

\* SwclListFileRollbackToA: the old list is linked before the new one is deleted.
SwclListFileRollbackToA ==
    \/ /\ At("rbLink")
       /\ link' = With(link, swcl["core"].cur, lastList)
       /\ Wrote("rbList")
       /\ UNCHANGED <<boot, list, dirs, swcl>>
    \/ /\ At("rbList")
       /\ list' = IF Updated("app") THEN Without(list, NextId(lastList)) ELSE list
       /\ Wrote("rbRestart")
       /\ UNCHANGED <<boot, link, dirs, swcl>>

\* Without a reboot EM goes back to the old applications, or nothing is restarted,
\* and the rollback is done.
ReparseOld ==
    /\ At("rbRestart") /\ ~NeedsReboot
    /\ ReparseProcessList
    /\ Switch("RolledBack", "Revert")
    /\ Goto("none")
    /\ UNCHANGED <<diskVars, memVars, session, resetting, crashes, histVars>>

ReparseOldFails == At("rbRestart") /\ NeedsRestart /\ GivesUp

\* ContinueIfNecessary calls Done in RollingBack.
RollbackDone ==
    /\ At("rolledBack")
    /\ Switch("RolledBack", "Revert")
    /\ Goto("none")
    /\ UNCHANGED <<diskVars, memVars, envVars, histVars>>

-----------------------------------------------------------------------------
(***************************************************************************)
(* Finish, RevertProcessedSwPackages and the cleaning up.                  *)
(***************************************************************************)
Finish ==
    /\ Calls /\ st \in {"Activated", "RolledBack"}
    /\ Switch("CleaningUp", IF st = "Activated" THEN "Commit" ELSE "Revert")
    /\ Goto("cleanup")
    /\ UNCHANGED <<diskVars, memVars, envVars, histVars>>

RevertProcessedSwPackages ==
    /\ Calls /\ st = "Ready"
    /\ Switch("CleaningUp", "Revert")
    /\ Goto("cleanup")
    /\ UNCHANGED <<diskVars, memVars, envVars, histVars>>

\* Seeded fault: the file is deleted and the last used id forgotten.
LastUsedIsKept(files, last) == last

\* The last used id after a cleanup: the file that remains.
LastUsedAfter(files, last) == Max(DOMAIN files)

BootOptionFileCleanupA ==
    /\ At("cleanup") /\ final = "Commit"
    /\ IF Updated("core") /\ Cardinality(DOMAIN boot) = 2
       THEN boot' = Without(boot, Min(DOMAIN boot)) /\ lastBoot' = LastUsedAfter(boot, lastBoot)
       ELSE UNCHANGED <<boot, lastBoot>>
    /\ Goto("clList")
    /\ UNCHANGED <<list, link, dirs, swcl, acts, changed, lastList, statusVars, envVars, histVars>>

SwclListFileCleanupA ==
    /\ At("clList")
    /\ IF Updated("app") /\ Cardinality(DOMAIN list) = 2
       THEN list' = Without(list, Min(DOMAIN list)) /\ lastList' = LastUsedAfter(list, lastList)
       ELSE UNCHANGED <<list, lastList>>
    /\ Goto("commit")
    /\ UNCHANGED <<boot, link, dirs, swcl, acts, changed, lastBoot, statusVars, envVars, histVars>>

Only(c, v) == [dirs EXCEPT ![c] = @ \cap {v}]
LinkOnly(c, v) == IF c = "core" THEN [i \in DOMAIN link \cap {v} |-> link[i]] ELSE link

\* UpdateAction::CommitChanges: the other versions are removed, then the status is
\* set; both are done again after a restart.
CommitChanges(a) ==
    /\ At("commit") /\ a[2] \in dirs[a[1]]
    /\ \/ /\ dirs[a[1]] # {a[2]}
          /\ dirs' = Only(a[1], a[2]) /\ link' = LinkOnly(a[1], a[2])
          /\ UNCHANGED swcl
       \/ /\ dirs[a[1]] = {a[2]} /\ Updated(a[1])
          /\ swcl' = [swcl EXCEPT ![a[1]] = [cur |-> a[2], new |-> 0]]
          /\ UNCHANGED <<dirs, link>>
    /\ Wrote("commit")
    /\ UNCHANGED <<boot, list>>

CommitDone ==
    /\ At("commit") /\ \A a \in acts : dirs[a[1]] = {a[2]} /\ ~Updated(a[1])
    /\ acts' = {} /\ changed' = FALSE
    /\ session' = FALSE
    /\ Switch("Idle", "Revert")
    /\ Goto("none")
    /\ UNCHANGED <<diskVars, lastBoot, lastList, run, resetting, crashes, histVars>>

\* UpdateAction::RevertChanges: the new version is removed, then the status is set.
RevertChanges(a) ==
    /\ At("cleanup") /\ final = "Revert"
    /\ \/ /\ a[2] \in dirs[a[1]]
          /\ dirs' = [dirs EXCEPT ![a[1]] = @ \ {a[2]}]
          /\ link' = IF a[1] = "core" THEN Without(link, a[2]) ELSE link
          /\ UNCHANGED swcl
       \/ /\ a[2] \notin dirs[a[1]] /\ Updated(a[1])
          /\ swcl' = [swcl EXCEPT ![a[1]].new = 0]
          /\ UNCHANGED <<dirs, link>>
    /\ Wrote("cleanup")
    /\ UNCHANGED <<boot, list>>

\* Neither the change information nor the update session is given up here.
RevertDone ==
    /\ At("cleanup") /\ final = "Revert"
    /\ \A a \in acts : a[2] \notin dirs[a[1]] /\ ~Updated(a[1])
    /\ acts' = {}
    /\ Switch("Idle", "Revert")
    /\ Goto("none")
    /\ UNCHANGED <<diskVars, changed, lastBoot, lastList, envVars, histVars>>

-----------------------------------------------------------------------------
(***************************************************************************)
(* The way back to Idle when ucm_status.json cannot be trusted.            *)
(***************************************************************************)

\* SM's session is wanted, but not insisted upon.
ExceptionPrepared ==
    /\ At("excRollback")
    /\ session' = TRUE
    /\ Goto("exBoot")
    /\ UNCHANGED <<statusVars, diskVars, memVars, run, resetting, crashes, histVars>>

ExceptionRefused == At("excRollback") /\ GivesUp

BootOptionFileExceptionRollbackToA ==
    /\ At("exBoot")
    /\ boot' = Without(boot, NextId(lastBoot))
    /\ Wrote("exLink")
    /\ UNCHANGED <<list, link, dirs, swcl>>

SwclListFileExceptionRollbackToA ==
    \/ /\ At("exLink")
       /\ link' = With(link, boot[lastBoot], lastList)
       /\ Wrote("exList")
       /\ UNCHANGED <<boot, list, dirs, swcl>>
    \/ /\ At("exList")
       /\ list' = Without(list, NextId(lastList))
       /\ Wrote("exDone")
       /\ UNCHANGED <<boot, link, dirs, swcl>>

\* The executor ends with ResetMachine, and the restart goes on.
ExceptionRolledBack ==
    /\ At("exDone")
    /\ Switch("ExceptionCleaningUp", "Revert")
    /\ Goto("exReset")
    /\ UNCHANGED <<diskVars, memVars, envVars, histVars>>

\* Seeded fault: only the status is cleaned.
CleanStatusOnly(c, v, next) ==
    /\ swcl' = [swcl EXCEPT ![c] = [cur |-> v, new |-> 0]]
    /\ Wrote(next)
    /\ UNCHANGED <<boot, list, link, dirs>>

\* CleanSwcl of c, with version v retained: the directories, then the status.
CleanSwcl(c, v, next) ==
    \/ /\ dirs[c] # {v}
       /\ dirs' = Only(c, v) /\ link' = LinkOnly(c, v)
       /\ Wrote(pc)
       /\ UNCHANGED <<boot, list, swcl>>
    \/ /\ dirs[c] = {v}
       /\ swcl' = [swcl EXCEPT ![c] = [cur |-> v, new |-> 0]]
       /\ Wrote(next)
       /\ UNCHANGED <<boot, list, link, dirs>>

BootOptionFileExceptionCleanupB ==
    At("exCore") /\ CleanSwcl("core", boot[lastBoot], "exApp")

SwclListFileExceptionCleanupB ==
    At("exApp") /\ CleanSwcl("app", list[lastList], "exEnd")

ExceptionCleanedUp ==
    /\ At("exEnd")
    /\ session' = FALSE
    /\ Switch("Idle", "Revert")
    /\ Goto("none")
    /\ UNCHANGED <<diskVars, memVars, run, resetting, crashes, histVars>>

-----------------------------------------------------------------------------
(***************************************************************************)
(* Restarts.                                                               *)
(***************************************************************************)

\* The boot option files ara-loader may start from: the largest one or, when its emd
\* does not come up, the smallest.
LoaderChoices == {Max(DOMAIN boot), Min(DOMAIN boot)}

\* The software that comes up with file i.
CanStart(i) == boot[i] \in dirs["core"] /\ CanLoad(boot[i])
Started(i) ==
    [core |-> boot[i], list |-> link[boot[i]], app |-> list[link[boot[i]]]]

\* _recoverState, when there is a status file: the first boot without any is over.
Recovered ==
    IF md5 THEN status ELSE [st |-> "ExceptionRollingBack", final |-> "Revert", acts |-> {}]

\* Seeded fault: a recovered cleaning up is not continued.
CleanupNotContinued(s) ==
    CASE s = "RollingBack"          -> "rolledBack"
      [] s = "ExceptionRollingBack" -> "excRollback"
      [] s = "ExceptionCleaningUp"  -> "exCore"
      [] OTHER                      -> "none"

ContinueIfNecessary(s) ==
    CASE s = "RollingBack"          -> "rolledBack"
      [] s = "CleaningUp"           -> "cleanup"
      [] s = "ExceptionRollingBack" -> "excRollback"
      [] s = "ExceptionCleaningUp"  -> "exCore"
      [] OTHER                      -> "none"

\* Power goes and comes, or ResetMachine is carried out: what is in memory is lost,
\* ara-loader starts the machine, and _initState finds the state.  The constructor
\* of the state's wrapper switches to it, which removes the md5.
Reboot ==
    \E i \in LoaderChoices :
      /\ resetting \/ crashes < MaxCrashes
      /\ CanStart(i)
      /\ run' = Started(i)
      /\ lastBoot' = Min(DOMAIN boot) /\ lastList' = Min(DOMAIN list)
      /\ acts' = Recovered.acts /\ changed' = (Recovered.acts # {})
      /\ Switch(Recovered.st, Recovered.final)
      /\ pc' = ContinueIfNecessary(Recovered.st)
      /\ verifier' = (Recovered.st = "Verifying")
      /\ failing' = FALSE /\ revert' = "none" /\ pkg' = <<"core", 1>>
      /\ session' = FALSE /\ resetting' = FALSE /\ denied' = FALSE
      /\ crashes' = IF resetting THEN crashes ELSE crashes + 1
      /\ UNCHANGED <<diskVars, bundle>>

-----------------------------------------------------------------------------
Client ==
    \/ \E c \in Cluster, v \in Version : ProcessSwPackage(c, v)
    \/ RevertProcessing
    \/ Activate
    \/ Rollback
    \/ Finish
    \/ RevertProcessedSwPackages

Processing ==
    \/ Place
    \/ Execute
    \/ OnProcessSwPackageSucceeded
    \/ ProcessFails

Activation ==
    \/ ActivateRefused
    \/ StartUpdateSession
    \/ PrepareRefused
    \/ PrepareUpdate
    \/ SwclListFileLinkToB
    \/ BootOptionFileLinkToB
    \/ CommitSaveTransaction
    \/ ResetAccepted
    \/ ResetRefused
    \/ Reparse
    \/ ReparseFails
    \/ VerifyUpdate
    \/ VerifyRefused

RollingBack ==
    \/ RollbackRefused
    \/ BootOptionFileRollbackToA
    \/ SwclListFileRollbackToA
    \/ ReparseOld
    \/ ReparseOldFails
    \/ RollbackDone

CleaningUp ==
    \/ BootOptionFileCleanupA
    \/ SwclListFileCleanupA
    \/ \E a \in acts : CommitChanges(a) \/ RevertChanges(a)
    \/ CommitDone
    \/ RevertDone

Exception ==
    \/ ExceptionPrepared
    \/ ExceptionRefused
    \/ BootOptionFileExceptionRollbackToA
    \/ SwclListFileExceptionRollbackToA
    \/ ExceptionRolledBack
    \/ BootOptionFileExceptionCleanupB
    \/ SwclListFileExceptionCleanupB
    \/ ExceptionCleanedUp

\* The thread of the executor.
Executor == Processing \/ Activation \/ RollingBack \/ CleaningUp \/ Exception

\* The thread that verifies after a reboot, and those that wait for the lock.
Verifier == VerifiedAfterReboot \/ FailedAfterReboot
Waiting  == OnProcessSwPackageFailed \/ NotCancelled \/ RevertSwitch

Next ==
    \/ Client
    \/ SaveCurrentStatus
    \/ Executor
    \/ Verifier
    \/ Waiting
    \/ Reboot

Spec == Init /\ [][Next]_vars

\* Threads run, and a machine that has accepted the reset restarts.  Nothing is
\* assumed of the client, of SM's and EM's answers and of the power.
Fairness ==
    /\ WF_vars(SaveCurrentStatus)
    /\ WF_vars(Executor)
    /\ WF_vars(Verifier)
    /\ WF_vars(Waiting)
    /\ WF_vars(resetting /\ Reboot)

FairSpec == Spec /\ Fairness

-----------------------------------------------------------------------------
(***************************************************************************)
(* Properties.                                                             *)
(***************************************************************************)
Ids == 1 .. MaxVersion + 1
Steps == {"none", "process", "placed", "processed", "activate", "prepare", "list", "link",
          "boot", "restart", "reset", "verify", "rollback", "rbLink", "rbList", "rbRestart",
          "rbReset", "rolledBack", "cleanup", "clList", "commit", "excRollback", "exBoot",
          "exLink", "exList", "exDone", "exReset", "exCore", "exApp", "exEnd"}

\* The state and the files of the package manager keep their types; of the state
\* files there are never more than the A and the B one (ABPartition).
TypeOK ==
    /\ status \in [st : States, final : {"Commit", "Revert"}, acts : SUBSET (Cluster \X Version)]
    /\ st \in States /\ final \in {"Commit", "Revert"}
    /\ acts \subseteq Cluster \X Version /\ bundle \subseteq Cluster \X Version
    /\ <<md5, saving, changed, verifier, failing, session, resetting, denied>>
         \in BOOLEAN \X BOOLEAN \X BOOLEAN \X BOOLEAN \X BOOLEAN \X BOOLEAN \X BOOLEAN \X BOOLEAN
    /\ DOMAIN boot \subseteq Ids /\ \A i \in DOMAIN boot : boot[i] \in Version
    /\ DOMAIN list \subseteq Ids /\ \A i \in DOMAIN list : list[i] \in Version
    /\ DOMAIN link \subseteq Version /\ \A v \in DOMAIN link : link[v] \in Ids
    /\ dirs \in [Cluster -> SUBSET Version]
    /\ swcl \in [Cluster -> [cur : Version, new : 0 .. MaxVersion]]
    /\ lastBoot \in Ids /\ lastList \in Ids
    /\ run \in [core : Version, list : Ids, app : Version]
    /\ pc \in Steps /\ revert \in {"none", "asked", "granted"}
    /\ pkg \in Cluster \X Version /\ crashes \in 0 .. MaxCrashes

\* Whatever write the power fails after, ara-loader finds a boot option file whose
\* core is installed and linked to a list that is there and names an installed
\* application, and so it does with the old file when the new core does not come up.
Bootable == \A i \in LoaderChoices : CanStart(i)

\* The ids kept in memory and the files on the disk agree: between one and two
\* files each (asserted by GetMinMaxFileNameId), the last used one is the smallest
\* of them, and the files a rollback deletes are there (asserted by
\* DeleteBootOptionFile and DeleteSWCLListFile).
ABFiles ==
    /\ Cardinality(DOMAIN boot) \in 1 .. 2 /\ lastBoot = Min(DOMAIN boot)
    /\ Cardinality(DOMAIN list) \in 1 .. 2 /\ lastList = Min(DOMAIN list)
    /\ At("rollback") /\ Updated("core") => NextId(lastBoot) \in DOMAIN boot
    /\ At("rbList") /\ Updated("app") => NextId(lastList) \in DOMAIN list

\* After any history of updates, failures, rollbacks and power losses an idle
\* package manager has cleaned up: one version of each cluster is installed and
\* present, and boot option, list and link say so.
IdleIsClean ==
    st = "Idle" /\ pc = "none" /\ ~failing /\ revert = "none" =>
        /\ \A c \in Cluster : dirs[c] = {swcl[c].cur} /\ ~Updated(c)
        /\ boot = [i \in {lastBoot} |-> swcl["core"].cur]
        /\ list = [i \in {lastList} |-> swcl["app"].cur]
        /\ link = [v \in {swcl["core"].cur} |-> lastList]
        /\ acts = {}

\* The clusters of an activation are updated together or not at all, if the power
\* fails at most once on the way (CLEANING_UP is saved so that it can be redone).
AtomicUpdate ==
    st = "Idle" /\ crashes <= 1 =>
        \/ \A a \in bundle : swcl[a[1]].cur = a[2]
        \/ \A a \in bundle : swcl[a[1]].cur # a[2]

\* Unless the packages wait for the next reboot, Activated is not reported before the
\* updated clusters run in their new version, although the restart may have been
\* interrupted or ara-loader may have gone back to the old core unnoticed
\* (RebootOrReparse, CheckCoreVersionAfterReboot, CheckSwclListVersionAfterReboot).
ActivatedRunsUpdate ==
    [][st # "Activated" /\ st' = "Activated" /\ (NeedsReboot \/ NeedsRestart) =>
         \A c \in Cluster : Updated(c) => run[c] = swcl[c].new]_vars

\* Nor is RolledBack reported before they run in the old version again, wherever the
\* restart of the rollback was interrupted: Finish removes the new one next
\* (BootOptionFileRollbackToA, SwclListFileRollbackToA, ContinueIfNecessary).
RolledBackRunsOld ==
    [][st # "RolledBack" /\ st' = "RolledBack" /\ (NeedsReboot \/ NeedsRestart) =>
         \A c \in Cluster : Updated(c) => run'[c] = swcl[c].cur]_vars

\* A valid ucm_status.json never holds a state nobody can go on from (asserted by
\* _recoverState).
RecoverableStatus ==
    md5 => status.st \notin {"Processing", "Activating", "ExceptionRollingBack"}

\* The states in which the package manager, and not its client, has to go on.
Working == st \notin {"Idle", "Ready", "Activated", "RolledBack"}

\* A state with work to do is left, through failures and restarts, unless SM or EM
\* refused what it needs (ContinueIfNecessary and the executors).
WorkEnds == Working ~> (~Working \/ denied)

\* A cleaning up that has been saved is redone after a restart, as the comment in
\* FsmManager::_onSwitchNewState has it, and does not end in the exception states.
CleanupIsRedone ==
    [][st = "CleaningUp" /\ status.st = "CleaningUp" => st' \in {"CleaningUp", "Idle"}]_vars

=============================================================================
