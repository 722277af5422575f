---------------------- MODULE UcmPackageManagerProofs ----------------------
(***************************************************************************)
(* The state, the threads and the status file of the package manager, for  *)
(* every number of versions and restarts: which steps belong to which      *)
(* state, who may be under way at the same time, and that what is on the   *)
(* disk together with its md5 is a state a restart can go on from.         *)
(*                                                                         *)
(* The argument: the md5 is missing from the moment the state changes      *)
(* until the new state has been written, and from then on the file holds   *)
(* the state in memory.  So the md5 of a file comes with the saving of one *)
(* of the states in Committed, or later with the restart an executor asks  *)
(* for, which is then in one of the steps of Verifying or RollingBack.     *)
(***************************************************************************)
EXTENDS UcmPackageManager, TLAPS

\* The types of the state and of the threads.
ControlTypes ==
    /\ status \in [st : States, final : {"Commit", "Revert"}, acts : SUBSET (Cluster \X Version)]
    /\ st \in States /\ final \in {"Commit", "Revert"}
    /\ acts \subseteq Cluster \X Version /\ bundle \subseteq Cluster \X Version
    /\ pc \in Steps /\ revert \in {"none", "asked", "granted"}
    /\ pkg \in Cluster \X Version /\ crashes \in 0 .. MaxCrashes

Flags ==
    /\ md5 \in BOOLEAN /\ saving \in BOOLEAN /\ changed \in BOOLEAN /\ verifier \in BOOLEAN
    /\ failing \in BOOLEAN /\ session \in BOOLEAN /\ resetting \in BOOLEAN /\ denied \in BOOLEAN

\* The md5 and the file follow the state in memory.
Saved ==
    /\ saving => ~md5
    /\ ~saving => status.st = st
    /\ ~saving /\ st # "Processing" => status = [st |-> st, final |-> final, acts |-> acts]
    /\ ~saving /\ st \in Committed => md5

\* The steps of the executor that belong to a state.
StepsBelong ==
    /\ st \in {"Idle", "Ready", "Activated", "RolledBack"} => pc = "none"
    /\ st = "Processing" => pc \in {"process", "placed", "processed", "none"}
    /\ st = "Activating" => pc \in {"activate", "prepare"}
    /\ st = "Verifying" =>
         pc \in {"list", "link", "boot", "restart", "reset", "verify", "none"}
    /\ st = "RollingBack" =>
         pc \in {"rollback", "rbLink", "rbList", "rbRestart", "rbReset", "rolledBack", "none"}
    /\ st = "CleaningUp" => pc \in {"cleanup", "clList", "commit"}
    /\ st = "ExceptionRollingBack" =>
         pc \in {"excRollback", "exBoot", "exLink", "exList", "exDone", "none"}
    /\ st = "ExceptionCleaningUp" => pc \in {"exReset", "exCore", "exApp", "exEnd", "none"}

\* Only a cleaning up can be a commit, and its later steps are.
CommitBelongs ==
    /\ final = "Commit" => st = "CleaningUp"
    /\ pc \in {"clList", "commit"} => final = "Commit"

\* The threads that wait for the lock: a processing that failed, and a revert.
WaitingBelongs ==
    /\ revert # "none" => st \in {"Processing", "Ready", "Idle"}
    /\ revert = "granted" => pc = "none"
    /\ failing => \/ st = "Processing" /\ pc = "none"
                  \/ st = "CleaningUp" /\ final = "Revert"
                  \/ st = "Idle"

\* The verifier and a reset that has been accepted: both only where a cluster
\* needs the reboot, and a verifier that is late finds no later verification.
RestartBelongs ==
    /\ verifier => NeedsReboot /\ st \in {"Verifying", "RollingBack"}
    /\ verifier /\ st = "Verifying" => pc = "none" /\ ~resetting
    /\ resetting => \/ NeedsReboot /\ st = "RollingBack"
                    \/ NeedsReboot /\ st = "Verifying" /\ pc = "none"
                    \/ st = "ExceptionCleaningUp" /\ pc = "none"
    /\ pc = "rolledBack" => ~verifier /\ ~resetting
    /\ pc \in {"reset", "rbReset"} => NeedsReboot

\* The file is valid in Verifying and RollingBack only for the restart.
RestartCommitted ==
    /\ md5 /\ st = "Verifying" => NeedsReboot /\ pc \in {"reset", "none"}
    /\ md5 /\ st = "RollingBack" => NeedsReboot /\ pc \in {"rbReset", "none"}

\* The inductive invariant.
ControlInv ==
    /\ ControlTypes /\ Flags /\ Saved /\ StepsBelong /\ CommitBelongs /\ WaitingBelongs
    /\ RestartBelongs /\ RestartCommitted /\ RecoverableStatus

USE DEF At, Goto, Wrote, Switch, Calls, GivesUp, VerifyingFails, statusVars, memVars,
        threadVars, envVars, histVars
USE UcmAssumption

LEMMA InitControl == Init => ControlInv
<1> SUFFICES ASSUME Init
             PROVE  ControlInv
  OBVIOUS
<1>1. 1 \in Version
  BY DEF Version
<1>2. ControlTypes
  BY <1>1 DEF Init, ControlTypes, Cluster, States, Steps
<1>3. Flags
  BY DEF Init, Flags
<1>4. Saved /\ StepsBelong /\ CommitBelongs /\ WaitingBelongs
  BY DEF Init, Saved, StepsBelong, CommitBelongs, WaitingBelongs
<1>5. RestartBelongs /\ RestartCommitted /\ RecoverableStatus
  BY DEF Init, RestartBelongs, RestartCommitted, RecoverableStatus
<1> QED
  BY <1>2, <1>3, <1>4, <1>5 DEF ControlInv

LEMMA ClientControl == ControlInv /\ Client => ControlInv'
<1> SUFFICES ASSUME ControlInv, Client
             PROVE  ControlInv'
  OBVIOUS
<1> USE DEF ControlInv, Client, ProcessSwPackage, RevertProcessing, Activate, Rollback, Finish,
            RevertProcessedSwPackages
<1>2. ControlTypes'
  BY DEF ControlTypes, States, Steps
<1>3. Flags'
  BY DEF Flags
<1>4. Saved' /\ RecoverableStatus'
  BY DEF Saved, RecoverableStatus
<1>5. StepsBelong' /\ CommitBelongs' /\ WaitingBelongs'
  BY DEF StepsBelong, CommitBelongs, WaitingBelongs, ControlTypes, States
<1>6. RestartBelongs' /\ RestartCommitted'
  BY DEF RestartBelongs, RestartCommitted, NeedsReboot
<1> QED
  BY <1>2, <1>3, <1>4, <1>5, <1>6

\* What SaveCurrentStatus commits is one of the states in Committed.
LEMMA SaveControl == ControlInv /\ SaveCurrentStatus => ControlInv'
<1> SUFFICES ASSUME ControlInv, SaveCurrentStatus
             PROVE  ControlInv'
  OBVIOUS
<1>1. /\ status' = [st |-> st, final |-> final, acts |-> acts]
      /\ saving' = FALSE
      /\ UNCHANGED <<st, final, memVars, threadVars, envVars, histVars>>
  BY DEF SaveCurrentStatus
<1>2. md5' \in BOOLEAN /\ (md5' <=> st \in Committed)
  <2>1. md5' = (st \in Committed)
    BY DEF SaveCurrentStatus
  <2>2. md5' \in BOOLEAN
    BY <2>1
  <2>3. md5' => st \in Committed
    BY Zenon, <2>1
  <2>4. st \in Committed => md5'
    BY <2>1
  <2> QED
    BY <2>2, <2>3, <2>4
<1>3. ControlTypes'
  BY <1>1 DEF ControlInv, ControlTypes
<1>4. Flags'
  BY <1>1, <1>2 DEF ControlInv, Flags
<1>5. Saved' /\ RecoverableStatus'
  BY <1>1, <1>2 DEF Saved, RecoverableStatus, Committed
<1>6. StepsBelong' /\ CommitBelongs' /\ WaitingBelongs'
  BY <1>1 DEF ControlInv, StepsBelong, CommitBelongs, WaitingBelongs
<1>7. RestartBelongs' /\ RestartCommitted'
  BY <1>1, <1>2 DEF ControlInv, RestartBelongs, RestartCommitted, NeedsReboot, Committed
<1> QED
  BY <1>3, <1>4, <1>5, <1>6, <1>7 DEF ControlInv

LEMMA ProcessingControl == ControlInv /\ Processing => ControlInv'
<1> SUFFICES ASSUME ControlInv, Processing
             PROVE  ControlInv'
  OBVIOUS
<1> USE DEF ControlInv, Processing, Place, Execute, OnProcessSwPackageSucceeded,
            ProcessFails
<1>1. ControlTypes'
  BY DEF ControlTypes, States, Steps
<1>2. Flags'
  BY DEF Flags
<1>3. Saved' /\ RecoverableStatus'
  BY DEF Saved, RecoverableStatus, StepsBelong, ControlTypes, States
<1>4. StepsBelong' /\ CommitBelongs' /\ WaitingBelongs'
  BY DEF StepsBelong, CommitBelongs, WaitingBelongs, ControlTypes, States
<1>5. RestartBelongs' /\ RestartCommitted'
  BY DEF RestartBelongs, RestartCommitted, StepsBelong, ControlTypes, States, NeedsReboot
<1> QED
  BY <1>1, <1>2, <1>3, <1>4, <1>5

LEMMA ActivationControl == ControlInv /\ Activation => ControlInv'
<1> SUFFICES ASSUME ControlInv, Activation
             PROVE  ControlInv'
  OBVIOUS
<1> USE DEF ControlInv, Activation, ActivateRefused, StartUpdateSession, PrepareRefused,
            PrepareUpdate, SwclListFileLinkToB, BootOptionFileLinkToB, CommitSaveTransaction,
            ResetAccepted, ResetRefused, Reparse, ReparseFails, VerifyUpdate, VerifyRefused,
            AfterStep
<1>1. ControlTypes'
  BY DEF ControlTypes, States, Steps
<1>2. Flags'
  BY DEF Flags
<1>3. Saved' /\ RecoverableStatus'
  BY DEF Saved, RecoverableStatus, StepsBelong, ControlTypes, States
<1>4. StepsBelong' /\ CommitBelongs' /\ WaitingBelongs'
  BY DEF StepsBelong, CommitBelongs, WaitingBelongs, ControlTypes, States
<1>5. RestartBelongs' /\ RestartCommitted'
  BY DEF RestartBelongs, RestartCommitted, StepsBelong, ControlTypes, States, NeedsReboot
<1> QED
  BY <1>1, <1>2, <1>3, <1>4, <1>5

LEMMA RollingBackControl == ControlInv /\ RollingBack => ControlInv'
<1> SUFFICES ASSUME ControlInv, RollingBack
             PROVE  ControlInv'
  OBVIOUS
<1> USE DEF ControlInv, RollingBack, RollbackRefused, BootOptionFileRollbackToA,
            SwclListFileRollbackToA, ReparseOld, ReparseOldFails, RollbackDone
<1>1. ControlTypes'
  BY DEF ControlTypes, States, Steps
<1>2. Flags'
  BY DEF Flags
<1>3. Saved' /\ RecoverableStatus'
  BY DEF Saved, RecoverableStatus, StepsBelong, ControlTypes, States
<1>4. StepsBelong' /\ CommitBelongs' /\ WaitingBelongs'
  BY DEF StepsBelong, CommitBelongs, WaitingBelongs, ControlTypes, States
<1>5. RestartBelongs' /\ RestartCommitted'
  BY DEF RestartBelongs, RestartCommitted, StepsBelong, ControlTypes, States, NeedsReboot
<1> QED
  BY <1>1, <1>2, <1>3, <1>4, <1>5

\* The executor writes to the disk and goes on in the same state.
LEMMA WroteControl ==
  ASSUME ControlInv, UNCHANGED <<statusVars, acts, changed, verifier, failing, revert, pkg,
                                 envVars, histVars>>,
         \/ pc = "cleanup" /\ final = "Commit" /\ pc' = "clList"
         \/ pc = "clList" /\ pc' = "commit"
         \/ pc \in {"cleanup", "commit"} /\ pc' = pc
  PROVE  ControlInv'
<1> USE DEF ControlInv
<1>1. ControlTypes' /\ Flags'
  BY DEF ControlTypes, Flags, Steps
<1>2. Saved' /\ RecoverableStatus'
  BY DEF Saved, RecoverableStatus
<1>3. StepsBelong' /\ CommitBelongs' /\ WaitingBelongs'
  BY DEF StepsBelong, CommitBelongs, WaitingBelongs, ControlTypes, States
<1>4. RestartBelongs' /\ RestartCommitted'
  BY DEF RestartBelongs, RestartCommitted, StepsBelong, ControlTypes, States, NeedsReboot
<1> QED
  BY <1>1, <1>2, <1>3, <1>4

LEMMA CleaningUpControl == ControlInv /\ CleaningUp => ControlInv'
<1> SUFFICES ASSUME ControlInv, CleaningUp
             PROVE  ControlInv'
  OBVIOUS
<1>1. CASE BootOptionFileCleanupA
  <2>1. /\ UNCHANGED <<statusVars, acts, changed, verifier, failing, revert, pkg, envVars, histVars>>
        /\ pc = "cleanup" /\ final = "Commit" /\ pc' = "clList"
    BY <1>1 DEF BootOptionFileCleanupA
  <2> QED
    BY <2>1, WroteControl
<1>2. CASE SwclListFileCleanupA
  <2>1. /\ UNCHANGED <<statusVars, acts, changed, verifier, failing, revert, pkg, envVars, histVars>>
        /\ pc = "clList" /\ pc' = "commit"
    BY <1>2 DEF SwclListFileCleanupA
  <2> QED
    BY <2>1, WroteControl
<1>3. CASE \E a \in acts : CommitChanges(a) \/ RevertChanges(a)
  BY <1>3, WroteControl DEF CommitChanges, RevertChanges
<1>4. CASE CommitDone \/ RevertDone
  <2>1. /\ st' = "Idle" /\ final' = "Revert" /\ saving' = TRUE /\ md5' = FALSE
        /\ pc' = "none" /\ acts' = {} /\ UNCHANGED <<status, pkg, revert, bundle, crashes>>
        /\ UNCHANGED <<verifier, failing, resetting, denied>>
        /\ changed' \in {FALSE, changed} /\ session' \in {FALSE, session}
        /\ st = "CleaningUp"
    BY <1>4 DEF CommitDone, RevertDone, ControlInv, StepsBelong, ControlTypes, States
  <2>2. ControlTypes'
    BY <2>1 DEF ControlInv, ControlTypes, States, Steps
  <2>3. Flags'
    BY <2>1 DEF ControlInv, Flags
  <2>4. Saved' /\ RecoverableStatus' /\ StepsBelong' /\ CommitBelongs' /\ WaitingBelongs'
    BY <2>1 DEF ControlInv, Saved, RecoverableStatus, StepsBelong, CommitBelongs, WaitingBelongs
  <2>5. RestartBelongs' /\ RestartCommitted'
    BY <2>1 DEF ControlInv, RestartBelongs, RestartCommitted
  <2> QED
    BY <2>2, <2>3, <2>4, <2>5 DEF ControlInv
<1> QED
  BY <1>1, <1>2, <1>3, <1>4 DEF CleaningUp

LEMMA ExceptionControl == ControlInv /\ Exception => ControlInv'
<1> SUFFICES ASSUME ControlInv, Exception
             PROVE  ControlInv'
  OBVIOUS
<1> USE DEF ControlInv, Exception, ExceptionPrepared, ExceptionRefused,
            BootOptionFileExceptionRollbackToA, SwclListFileExceptionRollbackToA,
            ExceptionRolledBack, CleanSwcl, BootOptionFileExceptionCleanupB,
            SwclListFileExceptionCleanupB, ExceptionCleanedUp
<1>1. ControlTypes'
  BY DEF ControlTypes, States, Steps
<1>2. Flags'
  BY DEF Flags
<1>3. Saved' /\ RecoverableStatus'
  BY DEF Saved, RecoverableStatus, StepsBelong, ControlTypes, States
<1>4. StepsBelong' /\ CommitBelongs' /\ WaitingBelongs'
  BY DEF StepsBelong, CommitBelongs, WaitingBelongs, ControlTypes, States
<1>5. RestartBelongs' /\ RestartCommitted'
  BY DEF RestartBelongs, RestartCommitted, StepsBelong, ControlTypes, States, NeedsReboot
<1> QED
  BY <1>1, <1>2, <1>3, <1>4, <1>5

LEMMA VerifierControl == ControlInv /\ Verifier => ControlInv'
<1> SUFFICES ASSUME ControlInv, Verifier
             PROVE  ControlInv'
  OBVIOUS
<1> USE DEF ControlInv, Verifier, VerifiedAfterReboot, FailedAfterReboot
<1>1. ControlTypes'
  BY DEF ControlTypes, States, Steps
<1>2. Flags'
  BY DEF Flags
<1>3. Saved' /\ RecoverableStatus'
  BY DEF Saved, RecoverableStatus, StepsBelong, ControlTypes, States
<1>4. StepsBelong' /\ CommitBelongs' /\ WaitingBelongs'
  BY DEF StepsBelong, CommitBelongs, WaitingBelongs, RestartBelongs
<1>5. RestartBelongs' /\ RestartCommitted'
  BY DEF RestartBelongs, RestartCommitted, StepsBelong, ControlTypes, States, NeedsReboot
<1> QED
  BY <1>1, <1>2, <1>3, <1>4, <1>5

LEMMA WaitingControl == ControlInv /\ Waiting => ControlInv'
<1> SUFFICES ASSUME ControlInv, Waiting
             PROVE  ControlInv'
  OBVIOUS
<1> USE DEF ControlInv, Waiting, OnProcessSwPackageFailed, NotCancelled, RevertSwitch
<1>1. ControlTypes'
  BY DEF ControlTypes, States, Steps
<1>2. Flags'
  BY DEF Flags
<1>3. Saved' /\ RecoverableStatus'
  BY DEF Saved, RecoverableStatus, StepsBelong, ControlTypes, States
<1>4. StepsBelong' /\ CommitBelongs' /\ WaitingBelongs'
  BY DEF StepsBelong, CommitBelongs, WaitingBelongs, ControlTypes, States
<1>5. RestartBelongs' /\ RestartCommitted'
  BY DEF RestartBelongs, RestartCommitted, WaitingBelongs, StepsBelong, NeedsReboot
<1> QED
  BY <1>1, <1>2, <1>3, <1>4, <1>5

LEMMA RebootControl == ControlInv /\ Reboot => ControlInv'
<1> SUFFICES ASSUME ControlInv, Reboot
             PROVE  ControlInv'
  OBVIOUS
<1>1. /\ st' = Recovered.st /\ final' = Recovered.final /\ acts' = Recovered.acts
      /\ saving' = TRUE /\ md5' = FALSE /\ failing' = FALSE /\ revert' = "none"
      /\ pkg' = <<"core", 1>> /\ session' = FALSE /\ resetting' = FALSE /\ denied' = FALSE
      /\ pc' = ContinueIfNecessary(Recovered.st)
      /\ crashes' = (IF resetting THEN crashes ELSE crashes + 1)
      /\ (resetting \/ crashes < MaxCrashes) /\ UNCHANGED <<status, bundle>>
  BY DEF Reboot
<1>2. /\ verifier' \in BOOLEAN /\ (verifier' <=> Recovered.st = "Verifying")
      /\ changed' \in BOOLEAN
  BY Zenon DEF Reboot
<1>3. Recovered.st \in States \ {"Processing", "Activating"}
      /\ Recovered.final \in {"Commit", "Revert"}
      /\ Recovered.acts \subseteq Cluster \X Version
  BY DEF Recovered, ControlInv, ControlTypes, RecoverableStatus, States
<1>4. /\ Recovered.final = "Commit" => Recovered.st = "CleaningUp"
      /\ Recovered.st = "Verifying" => \E a \in Recovered.acts : Option[a] = "kReboot"
  BY DEF Recovered, ControlInv, Saved, CommitBelongs, RestartCommitted, RecoverableStatus,
         NeedsReboot
<1>5. /\ st' \in States \ {"Processing", "Activating"} /\ final' \in {"Commit", "Revert"}
      /\ acts' \subseteq Cluster \X Version
      /\ final' = "Commit" => st' = "CleaningUp"
      /\ verifier' => st' = "Verifying" /\ NeedsReboot'
      /\ pc' = ContinueIfNecessary(st')
  BY <1>1, <1>2, <1>3, <1>4 DEF NeedsReboot
<1>6. /\ StepsBelong' /\ pc' \in Steps /\ pc' \notin {"clList", "commit", "reset", "rbReset"}
      /\ st' = "Verifying" => pc' = "none"
  BY <1>5 DEF ContinueIfNecessary, States, StepsBelong, Steps
<1>7. ControlTypes'
  <2>1. 1 \in Version /\ "core" \in Cluster
    BY DEF Version, Cluster
  <2>2. crashes' \in 0 .. MaxCrashes
    BY <1>1 DEF ControlInv, ControlTypes
  <2> QED
    BY <1>1, <1>5, <1>6, <2>1, <2>2 DEF ControlInv, ControlTypes
<1>8. Flags'
  BY <1>1, <1>2 DEF Flags
<1>9. Saved' /\ RecoverableStatus' /\ CommitBelongs' /\ WaitingBelongs'
  BY <1>1, <1>5, <1>6 DEF Saved, RecoverableStatus, CommitBelongs, WaitingBelongs
<1>10. RestartBelongs' /\ RestartCommitted'
  BY <1>1, <1>5, <1>6 DEF RestartBelongs, RestartCommitted, StepsBelong
<1> QED
  BY <1>6, <1>7, <1>8, <1>9, <1>10 DEF ControlInv

\* The state, the steps and the status file agree in every reachable state.
THEOREM ControlIsInvariant == Spec => []ControlInv
<1>1. ControlInv /\ [Next]_vars => ControlInv'
  <2>1. ControlInv /\ UNCHANGED vars => ControlInv'
    BY DEF vars, ControlInv, ControlTypes, Flags, Saved, StepsBelong, CommitBelongs,
           WaitingBelongs, RestartBelongs, RestartCommitted, RecoverableStatus, NeedsReboot
  <2> QED
    BY <2>1, ClientControl, SaveControl, ProcessingControl, ActivationControl,
       RollingBackControl, CleaningUpControl, ExceptionControl, VerifierControl, WaitingControl, RebootControl
       DEF Next, Executor
<1> QED
  BY <1>1, InitControl, PTL DEF Spec

\* RecoverableStatus is an invariant: _recoverState never finds a state it
\* asserts not to find.
THEOREM StatusIsRecoverable == Spec => []RecoverableStatus
<1>1. ControlInv => RecoverableStatus
  BY DEF ControlInv
<1> QED
  BY <1>1, ControlIsInvariant, PTL

\* A state with work to do has a thread that goes on with it, or waits for the
\* restart SM has accepted, or SM or EM refused what it needs: no interleaving of
\* the executors, the verifier and the client's calls drops the work.  (WorkEnds
\* says that it comes to its end; this is the part of it that needs no fairness.)
WorkIsHeld == Working => pc # "none" \/ verifier \/ failing \/ resetting \/ denied

\* The inductive form: who holds the work of a state when its executor is gone.
HeldBy ==
    Working /\ pc = "none" =>
        \/ st = "Processing" /\ failing
        \/ st = "Verifying" /\ (verifier \/ resetting)
        \/ st \in {"RollingBack", "ExceptionRollingBack", "ExceptionCleaningUp"}
             /\ (resetting \/ denied)

\* WorkIsHeld is an invariant of the package manager.
THEOREM WorkIsNeverDropped == Spec => []WorkIsHeld
<1>1. Init => HeldBy
  BY DEF Init, HeldBy, Working
<1>2. ControlInv /\ HeldBy /\ [Next]_vars => HeldBy'
  <2> SUFFICES ASSUME ControlInv, HeldBy, [Next]_vars
               PROVE  HeldBy'
    OBVIOUS
  <2> USE DEF HeldBy, Working
  <2>1. CASE UNCHANGED vars
    BY <2>1 DEF vars
  <2>2. CASE Client \/ SaveCurrentStatus
    BY <2>2 DEF Client, ProcessSwPackage, RevertProcessing, Activate, Rollback, Finish,
                RevertProcessedSwPackages, SaveCurrentStatus
  <2>3. CASE Processing
    <3>1. st = "Processing"
      BY <2>3 DEF Processing, Place, Execute, OnProcessSwPackageSucceeded, ProcessFails,
                  ControlInv, ControlTypes, StepsBelong, States
    <3> QED
      BY <2>3, <3>1 DEF Processing, Place, Execute, OnProcessSwPackageSucceeded, ProcessFails
  <2>4. CASE Activation
    <3> USE DEF Activation, ActivateRefused, StartUpdateSession, PrepareRefused, PrepareUpdate,
                SwclListFileLinkToB, BootOptionFileLinkToB, CommitSaveTransaction, ResetAccepted,
                ResetRefused, Reparse, ReparseFails, VerifyUpdate, VerifyRefused, AfterStep
    <3>1. \/ pc' # "none" \/ st' \in {"Ready", "Activated"}
          \/ /\ pc \in {"reset", "rbReset", "exReset"} /\ st' = st /\ (resetting' \/ denied')
             /\ pc = "reset" => resetting'
      BY <2>4
    <3>2. /\ pc = "reset" => st = "Verifying"
          /\ pc \in {"rbReset", "exReset"} => st \in {"RollingBack", "ExceptionCleaningUp"}
      BY DEF ControlInv, ControlTypes, StepsBelong, States
    <3> HIDE DEF Activation
    <3> QED
      BY <3>1, <3>2
  <2>5. CASE RollingBack
    <3>1. st = "RollingBack"
      BY <2>5 DEF RollingBack, RollbackRefused, BootOptionFileRollbackToA, SwclListFileRollbackToA,
                  ReparseOld, ReparseOldFails, RollbackDone,
                  ControlInv, ControlTypes, StepsBelong, States
    <3> QED
      BY <2>5, <3>1 DEF RollingBack, RollbackRefused, BootOptionFileRollbackToA,
                        SwclListFileRollbackToA, ReparseOld, ReparseOldFails, RollbackDone
  <2>6. CASE CleaningUp
    BY <2>6 DEF CleaningUp, BootOptionFileCleanupA, SwclListFileCleanupA, CommitChanges,
                RevertChanges, CommitDone, RevertDone
  <2>7. CASE Exception
    <3> USE DEF Exception, ExceptionPrepared, ExceptionRefused, BootOptionFileExceptionRollbackToA,
                SwclListFileExceptionRollbackToA, ExceptionRolledBack,
                BootOptionFileExceptionCleanupB, SwclListFileExceptionCleanupB,
                ExceptionCleanedUp, CleanSwcl
    <3>1. st \in {"ExceptionRollingBack", "ExceptionCleaningUp"}
      BY <2>7 DEF ControlInv, ControlTypes, StepsBelong, States
    <3>2. pc' # "none" \/ st' = "Idle" \/ (st' = st /\ denied')
      BY <2>7
    <3> HIDE DEF Exception
    <3> QED
      BY <3>1, <3>2
  \* A verifier or a failed processing that ends finds its own state, or one whose
  \* work another thread has taken over.
  <2>8. CASE Verifier
    BY <2>8 DEF Verifier, VerifiedAfterReboot, FailedAfterReboot
  <2>9. CASE Waiting
    BY <2>9 DEF Waiting, OnProcessSwPackageFailed, NotCancelled, RevertSwitch
  <2>10. CASE Reboot
    <3>1. /\ verifier' <=> Recovered.st = "Verifying"
          /\ st' = Recovered.st /\ pc' = ContinueIfNecessary(Recovered.st)
      BY <2>10, Zenon DEF Reboot
    <3>2. Recovered.st \in States \ {"Processing", "Activating"}
      BY DEF Recovered, ControlInv, ControlTypes, RecoverableStatus, States
    <3> QED
      BY <3>1, <3>2 DEF ContinueIfNecessary, States
  <2> QED
    BY <2>1, <2>2, <2>3, <2>4, <2>5, <2>6, <2>7, <2>8, <2>9, <2>10 DEF Next, Executor
<1>3. HeldBy => WorkIsHeld
  BY DEF HeldBy, WorkIsHeld
<1> QED
  BY <1>1, <1>2, <1>3, ControlIsInvariant, PTL DEF Spec
=============================================================================
