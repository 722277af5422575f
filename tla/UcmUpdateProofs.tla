-------------------------- MODULE UcmUpdateProofs --------------------------
(***************************************************************************)
(* The A and B files of the package manager, for every number of versions  *)
(* and restarts and every choice of activation options: the machine can    *)
(* always be started, an idle package manager has cleaned up, Activated    *)
(* and RolledBack are reported when the new and the old versions run, and  *)
(* a bundle is updated as a whole or not at all.                           *)
(*                                                                         *)
(* The argument has two parts.  Files holds whatever the power loss        *)
(* interrupts: of the boot options and of the lists there is an A file or  *)
(* an A and a B file, the B file holds the announced version, all of them  *)
(* name installed versions, and every boot option can be started.  It is   *)
(* all the exception states need to find the way back to A.  Phase adds    *)
(* what the steps of a state have done so far; a status file with its md5  *)
(* stands for the state in memory (ControlInv), so a restart goes on with  *)
(* the same phase or falls back on Files.                                  *)
(***************************************************************************)
EXTENDS UcmPackageManagerProofs, FiniteSetTheorems

SwclStatus == [cur : Version, new : 0 .. MaxVersion]

DiskTypes ==
    /\ dirs \in [Cluster -> SUBSET Version]
    /\ swcl \in [Cluster -> SwclStatus]
    /\ run \in [core : Version, list : Ids, app : Version]

\* The A file, or the A and the B file, of a cluster with status s and installed
\* versions d.  The id of the A file never overtakes its version.
AB(f, last, s, d) ==
    /\ f \in [DOMAIN f -> Version]
    /\ last \in Nat \ {0} /\ last <= f[last]
    /\ \/ DOMAIN f = {last} /\ f[last] \in {s.cur, s.new}
       \/ DOMAIN f = {last, last + 1} /\ f[last] = s.cur /\ f[last + 1] = s.new
    /\ s.new = 0 \/ s.new > s.cur
    /\ \A i \in DOMAIN f : f[i] \in d

\* Every boot option names a core that is linked to a list.
Links ==
    /\ link \in [DOMAIN link -> Ids] /\ DOMAIN link \subseteq dirs["core"]
    /\ \A i \in DOMAIN boot : boot[i] \in DOMAIN link /\ link[boot[i]] \in DOMAIN list

\* What no power loss can break.
Files ==
    /\ AB(boot, lastBoot, swcl["core"], dirs["core"])
    /\ AB(list, lastList, swcl["app"], dirs["app"])
    /\ Links

\* The A files are in use ...
BootA == DOMAIN boot = {lastBoot}
ListA == DOMAIN list = {lastList}
LinkA == link[boot[lastBoot]] = lastList
OnA == BootA /\ ListA /\ LinkA
BaseIsCur == boot[lastBoot] = swcl["core"].cur /\ list[lastList] = swcl["app"].cur
RunsA == run.core = boot[lastBoot] /\ run.app = list[lastList]

\* ... or the B files of the clusters that are updated.
BootB == Updated("core") => DOMAIN boot = {lastBoot, lastBoot + 1}
ListB == Updated("app") => DOMAIN list = {lastList, lastList + 1}
LinkB == link[Target("core")] = IF Updated("app") THEN lastList + 1 ELSE lastList
OnB == BootB /\ ListB /\ LinkB
RunsB == run.core = Target("core") /\ run.app = Target("app")

\* The actions are the announced versions.
Announced == \A c \in Cluster : Updated(c) => <<c, swcl[c].new>> \in acts
Pending == Announced /\ \A a \in acts : swcl[a[1]].new = a[2]

Present(c) == {swcl[c].cur, swcl[c].new} \cap Version
AllPresent == \A c \in Cluster : dirs[c] = Present(c)
NoOther == \A c \in Cluster : dirs[c] \subseteq {swcl[c].cur, swcl[c].new}

\* A package has been put in place and is not announced yet.
Placed ==
    /\ ~Updated(pkg[1]) /\ pkg[2] > swcl[pkg[1]].cur
    /\ \A c \in Cluster : dirs[c] = IF c = pkg[1] THEN {swcl[c].cur, pkg[2]} ELSE Present(c)

\* Outside of the cleaning up and of the exception states.
Ordinary ==
    /\ Pending /\ BaseIsCur
    /\ IF pc = "placed" THEN Placed ELSE AllPresent

\* A cleaning up that commits: a cluster is on B, or its B file is the A file now.
OnTheWayToB ==
    /\ Announced /\ \A a \in acts : a[2] = Target(a[1])
    /\ NoOther
    /\ \A c \in Cluster : (\A a \in acts : a[1] # c) => dirs[c] = {swcl[c].cur}
    /\ BootA => boot[lastBoot] = Target("core")
    /\ ListA => list[lastList] = Target("app")
    /\ link[Target("core")] = IF ListA THEN lastList ELSE lastList + 1

Committing ==
    /\ OnTheWayToB
    /\ pc \in {"clList", "commit"} => BootA
    /\ pc = "commit" => ListA

\* A cleaning up that reverts.
Reverting ==
    /\ Announced
    /\ \A a \in acts : swcl[a[1]].new \in {0, a[2]} /\ a[2] > swcl[a[1]].cur
    /\ NoOther
    /\ OnA /\ BaseIsCur

Cleaned(c, v) == dirs[c] = {v} /\ swcl[c] = [cur |-> v, new |-> 0]

\* The way back to A when the status file could not be trusted.
Excepted ==
    /\ acts = {}
    /\ pc \in {"exLink", "exList", "exDone"} => BootA
    /\ pc \in {"exList", "exDone"} => LinkA
    /\ pc = "exDone" \/ st = "ExceptionCleaningUp" => OnA
    /\ pc \in {"exApp", "exEnd"} => Cleaned("core", boot[lastBoot])
    /\ pc = "exEnd" => Cleaned("app", list[lastList])

\* What came up after the reboot into a verification.
CameUp ==
    /\ \E i \in DOMAIN boot : run.core = boot[i]
    /\ run.list \in DOMAIN list /\ run.app = list[run.list]

\* What EM has restarted runs in its new version.
Restarted ==
    /\ ~NeedsReboot
    /\ NeedsRestart => \A c \in Cluster : Updated(c) => run[c] = swcl[c].new

\* The phase of a state ...
PhaseOfState ==
    /\ st \in {"ExceptionRollingBack", "ExceptionCleaningUp"} => Excepted
    /\ st = "CleaningUp" /\ final = "Commit" => Committing
    /\ st = "CleaningUp" /\ final = "Revert" => Reverting
    /\ st \in {"Idle", "Ready", "Processing", "Activating", "Verifying", "Activated",
               "RollingBack", "RolledBack"} => Ordinary
    /\ st = "Idle" \/ ~changed => acts = {}
    /\ st \in {"Idle", "Ready", "Processing", "Activating", "RolledBack"} => OnA
    /\ st = "Activated" => OnB
    /\ md5 /\ st = "RollingBack" => OnA

\* ... and of a step of Verifying and RollingBack.
PhaseOfStep ==
    /\ pc = "list" => OnA
    /\ pc = "rolledBack" => OnA /\ RunsA
    /\ pc = "link" => BootA /\ LinkA /\ ListB
    /\ pc = "boot" => /\ BootA /\ LinkB /\ ListB
                      /\ Updated("core") /\ Target("core") \in DOMAIN link
    /\ pc \in {"restart", "reset"} => OnB
    /\ st = "Verifying" /\ pc = "none" => OnB
    /\ pc = "verify" => OnB /\ Restarted
    /\ verifier /\ st = "Verifying" => CameUp
    /\ pc = "rollback" => OnB
    /\ pc \in {"rbLink", "rbList"} => BootA /\ ListB
    /\ pc = "rbList" => LinkA
    /\ pc \in {"rbRestart", "rbReset"} => OnA

\* The inductive invariant, given ControlInv.
DiskInv == DiskTypes /\ Files /\ PhaseOfState /\ PhaseOfStep

-----------------------------------------------------------------------------
(***************************************************************************)
(* The A and B files of a cluster.                                         *)
(***************************************************************************)
LEMMA ABIds ==
  ASSUME NEW f, NEW last, NEW s \in SwclStatus, NEW d, AB(f, last, s, d)
  PROVE  /\ last \in Ids /\ NextId(last) \in Ids /\ last \in Nat \ {0}
         /\ last \in DOMAIN f /\ DOMAIN f \subseteq Ids /\ f[last] \in Version
         /\ \A i \in DOMAIN f : f[i] \in Version /\ f[i] \in d
<1>1. last \in Nat \ {0} /\ last \in DOMAIN f /\ DOMAIN f \subseteq {last, last + 1}
  BY DEF AB
<1>2. \A i \in DOMAIN f : f[i] \in Version /\ f[i] \in d
  BY DEF AB
<1>3. last <= MaxVersion
  BY <1>1, <1>2, UcmAssumption DEF AB, Version
<1> QED
  BY <1>1, <1>2, <1>3, UcmAssumption DEF Ids, NextId

LEMMA ABMinMax ==
  ASSUME NEW f, NEW last, NEW s \in SwclStatus, NEW d, AB(f, last, s, d)
  PROVE  /\ Min(DOMAIN f) = last
         /\ Max(DOMAIN f) = IF DOMAIN f = {last} THEN last ELSE last + 1
         /\ Cardinality(DOMAIN f) = IF DOMAIN f = {last} THEN 1 ELSE 2
         /\ DOMAIN f # {last} => /\ DOMAIN f = {last, last + 1} /\ f[last] = s.cur
                                 /\ f[last + 1] = s.new /\ s.new \in Version
<1>1. last \in Nat /\ (DOMAIN f = {last} \/ DOMAIN f = {last, last + 1})
  BY DEF AB
<1>2. CASE DOMAIN f = {last}
  <2>1. Min({last}) = last /\ Max({last}) = last
    BY <1>1 DEF Min, Max
  <2>2. Cardinality({last}) = 1
    BY FS_Singleton
  <2> QED
    BY <1>2, <2>1, <2>2
<1>3. CASE DOMAIN f = {last, last + 1}
  <2>0. DOMAIN f # {last}
    BY <1>1, <1>3
  <2>1. Min({last, last + 1}) = last
    BY <1>1 DEF Min
  <2>2. Max({last, last + 1}) = last + 1
    BY <1>1 DEF Max
  <2>3. Cardinality({last, last + 1}) = 2
    <3>1. {last, last + 1} = {last} \cup {last + 1} /\ last + 1 \notin {last}
      BY <1>1
    <3>2. IsFiniteSet({last}) /\ Cardinality({last}) = 1
      BY FS_Singleton
    <3> QED
      BY <3>1, <3>2, FS_AddElement
  <2>4. f[last] = s.cur /\ f[last + 1] = s.new /\ s.new \in Version
    BY <1>3, <2>0 DEF AB
  <2> QED
    BY <1>3, <2>0, <2>1, <2>2, <2>3, <2>4
<1> QED
  BY <1>1, <1>2, <1>3

\* Two files are an A and a B file.
LEMMA ABTwo ==
  ASSUME NEW f, NEW last, NEW s \in SwclStatus, NEW d, AB(f, last, s, d),
         Cardinality(DOMAIN f) = 2
  PROVE  /\ DOMAIN f = {last, last + 1} /\ DOMAIN f # {last} /\ f[last + 1] = s.new
         /\ Min(DOMAIN f) = last /\ Max(DOMAIN f) = last + 1
<1>1. DOMAIN f # {last}
  <2>1. Cardinality(DOMAIN f) = IF DOMAIN f = {last} THEN 1 ELSE 2
    BY ABMinMax
  <2> QED
    BY <2>1
<1> QED
  BY <1>1, ABMinMax

USE DEF At, Goto, Wrote, Switch, Calls, GivesUp, VerifyingFails, statusVars, memVars,
        threadVars, envVars, histVars
USE UcmAssumption

\* Without an announced version there is no B file.
LEMMA ABOnlyA ==
  ASSUME NEW f, NEW last, NEW s, NEW d, AB(f, last, s, d), s.new = 0
  PROVE  DOMAIN f = {last}
BY DEF AB, Version

\* Next to the A file in f, the B file with the announced version is written.
AddsB(f, last, s, d, g) ==
    /\ s \in SwclStatus /\ AB(f, last, s, d)
    /\ DOMAIN f = {last} /\ f[last] = s.cur
    /\ s.new # 0 /\ s.new \in d
    /\ g = With(f, NextId(last), s.new)

\* The A file is still there, and the B file has the announced version.
BothFiles(f, last, s, d, g) ==
    /\ AB(g, last, s, d) /\ DOMAIN g = {last, last + 1}
    /\ g[last] = f[last] /\ g[last + 1] = s.new

\* Writing the B file.
LEMMA ABAddB ==
  ASSUME NEW f, NEW last, NEW s, NEW d, NEW g, AddsB(f, last, s, d, g)
  PROVE  BothFiles(f, last, s, d, g)
BY DEF AddsB, BothFiles, AB, With, NextId, SwclStatus, Version

\* Removing the B file, if there is one.
LEMMA ABDropB ==
  ASSUME NEW f, NEW last, NEW s \in SwclStatus, NEW d, AB(f, last, s, d)
  PROVE  LET g == Without(f, NextId(last))
         IN  AB(g, last, s, d) /\ DOMAIN g = {last} /\ g[last] = f[last]
BY DEF AB, Without, NextId, SwclStatus, Version

\* Removing the A file: the B file is the last used one then.
LEMMA ABDropA ==
  ASSUME NEW f, NEW last, NEW s \in SwclStatus, NEW d, AB(f, last, s, d),
         DOMAIN f = {last, last + 1}
  PROVE  LET g == Without(f, last)
         IN  AB(g, last + 1, s, d) /\ DOMAIN g = {last + 1} /\ g[last + 1] = s.new
BY DEF AB, Without, SwclStatus, Version

\* Other versions are installed or removed.
LEMMA ABDirs ==
  ASSUME NEW f, NEW last, NEW s, NEW d, NEW e, AB(f, last, s, d),
         \A i \in DOMAIN f : f[i] \in e
  PROVE  AB(f, last, s, e)
BY DEF AB

\* The status of the cluster is written while there is only the A file.
LEMMA ABStatus ==
  ASSUME NEW f, NEW last, NEW s, NEW d, NEW t, AB(f, last, s, d), DOMAIN f = {last},
         f[last] \in {t.cur, t.new}, t.new = 0 \/ t.new > t.cur
  PROVE  AB(f, last, t, d)
BY DEF AB

\* Both clusters at once.
LEMMA FilesAB ==
  ASSUME DiskTypes, Files
  PROVE  /\ AB(boot, lastBoot, swcl["core"], dirs["core"]) /\ swcl["core"] \in SwclStatus
         /\ AB(list, lastList, swcl["app"], dirs["app"]) /\ swcl["app"] \in SwclStatus
         /\ lastBoot \in DOMAIN boot /\ lastBoot \in Ids /\ lastBoot \in Nat
         /\ lastList \in DOMAIN list /\ lastList \in Ids /\ lastList \in Nat
         /\ NextId(lastBoot) \in Ids /\ NextId(lastList) \in Ids
         /\ \A i \in DOMAIN boot : boot[i] \in Version /\ boot[i] \in dirs["core"]
         /\ \A i \in DOMAIN list : list[i] \in Version /\ list[i] \in dirs["app"]
<1>1. /\ AB(boot, lastBoot, swcl["core"], dirs["core"]) /\ swcl["core"] \in SwclStatus
      /\ AB(list, lastList, swcl["app"], dirs["app"]) /\ swcl["app"] \in SwclStatus
  BY DEF Files, DiskTypes, Cluster
<1> QED
  BY <1>1, ABIds

-----------------------------------------------------------------------------
(***************************************************************************)
(* Steps that leave the files alone.                                       *)
(***************************************************************************)
LEMMA SameFiles ==
  ASSUME UNCHANGED <<diskVars, lastBoot, lastList, run>>
  PROVE  /\ DiskTypes => DiskTypes'
         /\ Files => Files'
         /\ (BootA' <=> BootA) /\ (ListA' <=> ListA) /\ (LinkA' <=> LinkA) /\ (OnA' <=> OnA)
         /\ (BootB' <=> BootB) /\ (ListB' <=> ListB) /\ (LinkB' <=> LinkB) /\ (OnB' <=> OnB)
         /\ (RunsA' <=> RunsA) /\ (RunsB' <=> RunsB) /\ (BaseIsCur' <=> BaseIsCur)
         /\ (AllPresent' <=> AllPresent) /\ (NoOther' <=> NoOther) /\ (CameUp' <=> CameUp)
<1> USE DEF diskVars
<1>1. DiskTypes => DiskTypes'
  BY DEF DiskTypes
<1>2. Files => Files'
  BY DEF Files, AB, Links
<1>3. (BootA' <=> BootA) /\ (ListA' <=> ListA) /\ (LinkA' <=> LinkA) /\ (OnA' <=> OnA)
  BY DEF BootA, ListA, LinkA, OnA
<1>4. (BootB' <=> BootB) /\ (ListB' <=> ListB) /\ (LinkB' <=> LinkB) /\ (OnB' <=> OnB)
  BY DEF BootB, ListB, LinkB, OnB, Updated, Target
<1>5. (RunsA' <=> RunsA) /\ (RunsB' <=> RunsB) /\ (BaseIsCur' <=> BaseIsCur)
  BY DEF RunsA, RunsB, BaseIsCur, Target, Updated
<1>6. (AllPresent' <=> AllPresent) /\ (NoOther' <=> NoOther) /\ (CameUp' <=> CameUp)
  BY DEF AllPresent, Present, NoOther, CameUp
<1> QED
  BY <1>1, <1>2, <1>3, <1>4, <1>5, <1>6

LEMMA SameActs ==
  ASSUME UNCHANGED <<diskVars, lastBoot, lastList, run, acts>>
  PROVE  /\ (Announced' <=> Announced) /\ (Pending' <=> Pending)
         /\ (OnTheWayToB' <=> OnTheWayToB) /\ (Reverting' <=> Reverting)
         /\ (Restarted' <=> Restarted)
<1> USE DEF diskVars
<1>1. (Announced' <=> Announced) /\ (Pending' <=> Pending)
  BY DEF Announced, Pending, Updated
<1>2. OnTheWayToB' <=> OnTheWayToB
  BY <1>1, SameFiles DEF OnTheWayToB, Target, Updated
<1>3. Reverting' <=> Reverting
  BY <1>1, SameFiles DEF Reverting
<1>4. Restarted' <=> Restarted
  BY DEF Restarted, NeedsReboot, NeedsRestart, Updated
<1> QED
  BY <1>1, <1>2, <1>3, <1>4

\* What is pending can be committed when it is on B and runs ...
LEMMA CanCommit ==
  ASSUME DiskTypes, Files, Pending, BaseIsCur, AllPresent, OnB,
         acts \subseteq Cluster \X Version
  PROVE  OnTheWayToB
<1>1. Announced /\ \A a \in acts : a[2] = Target(a[1])
  BY DEF Pending, Target, Updated, Version
<1>2. NoOther
  BY DEF AllPresent, NoOther, Present
<1>3. ASSUME NEW c \in Cluster, \A a \in acts : a[1] # c
      PROVE  dirs[c] = {swcl[c].cur}
  <2>1. ~Updated(c)
    BY <1>3 DEF Pending, Announced
  <2> QED
    BY <2>1 DEF AllPresent, Present, Updated, DiskTypes, SwclStatus, Version
<1>4. BootA => boot[lastBoot] = Target("core")
  BY FilesAB DEF BootA, BaseIsCur, Target, OnB, BootB
<1>5. ListA => list[lastList] = Target("app")
  BY FilesAB DEF ListA, BaseIsCur, Target, OnB, ListB
<1>6. ListA <=> ~Updated("app")
  <2>1. ListA => ~Updated("app")
    BY FilesAB DEF ListA, OnB, ListB
  <2>2. ~ListA => swcl["app"].new \in Version
    BY FilesAB, ABMinMax DEF ListA
  <2> QED
    BY <2>1, <2>2 DEF Updated, Version
<1>7. link[Target("core")] = IF ListA THEN lastList ELSE lastList + 1
  BY <1>6 DEF OnB, LinkB
<1> QED
  BY <1>1, <1>2, <1>3, <1>4, <1>5, <1>7 DEF OnTheWayToB

\* ... and reverted when it is on A.
LEMMA CanRevert ==
  ASSUME DiskTypes, Files, Pending, BaseIsCur, AllPresent, OnA,
         acts \subseteq Cluster \X Version
  PROVE  Reverting
<1>1. Announced /\ \A a \in acts : swcl[a[1]].new \in {0, a[2]}
  BY DEF Pending
<1>2. ASSUME NEW a \in acts
      PROVE  a[2] > swcl[a[1]].cur
  <2>1. a[1] \in Cluster /\ swcl[a[1]].new = a[2] /\ a[2] \in Version
    BY DEF Pending
  <2> QED
    BY <2>1, FilesAB DEF AB, Cluster, Version
<1>3. NoOther
  BY DEF AllPresent, NoOther, Present
<1> QED
  BY <1>1, <1>2, <1>3 DEF Reverting

-----------------------------------------------------------------------------
(***************************************************************************)
(* Steps that only change the state or the threads.                        *)
(***************************************************************************)
LEMMA InitDisk == Init => DiskInv
<1> SUFFICES ASSUME Init
             PROVE  DiskInv
  OBVIOUS
<1>1. 1 \in Version /\ 1 \in Ids /\ 0 \in 0 .. MaxVersion
  BY DEF Version, Ids
<1>2. DiskTypes
  BY <1>1 DEF Init, DiskTypes, SwclStatus, Cluster
<1>3. Files
  BY <1>1 DEF Init, Files, AB, Links, Cluster
<1>4. OnA /\ BaseIsCur
  BY DEF Init, OnA, BootA, ListA, LinkA, BaseIsCur, Cluster
<1>5. Pending /\ AllPresent
  BY <1>1 DEF Init, Pending, Announced, AllPresent, Present, Updated, Version
<1>6. PhaseOfState
  BY <1>4, <1>5 DEF Init, PhaseOfState, Ordinary
<1>7. PhaseOfStep
  BY DEF Init, PhaseOfStep
<1> QED
  BY <1>2, <1>3, <1>6, <1>7 DEF DiskInv

LEMMA ClientDisk == ControlInv /\ DiskInv /\ Client => DiskInv'
<1> SUFFICES ASSUME ControlInv, DiskInv, Client
             PROVE  DiskInv'
  OBVIOUS
<1>1. UNCHANGED <<diskVars, lastBoot, lastList, run, acts, changed>>
  BY DEF Client, ProcessSwPackage, RevertProcessing, Activate, Rollback, Finish,
         RevertProcessedSwPackages
<1>2. DiskTypes /\ Files /\ DiskTypes' /\ Files' /\ acts \subseteq Cluster \X Version
  BY <1>1, SameFiles DEF DiskInv, ControlInv, ControlTypes
<1> USE <1>1, <1>2, SameFiles, SameActs
<1>3. CASE \E c \in Cluster, v \in Version : ProcessSwPackage(c, v)
  BY <1>3 DEF ProcessSwPackage, DiskInv, PhaseOfState, PhaseOfStep, Ordinary
<1>4. CASE RevertProcessing
  BY <1>4 DEF RevertProcessing, DiskInv, PhaseOfState, PhaseOfStep, Ordinary
<1>5. CASE Activate
  BY <1>5 DEF Activate, DiskInv, PhaseOfState, PhaseOfStep, Ordinary
<1>6. CASE Rollback
  BY <1>6 DEF Rollback, DiskInv, PhaseOfState, PhaseOfStep, Ordinary
<1>7. CASE Finish
  BY <1>7, CanCommit, CanRevert
     DEF Finish, DiskInv, PhaseOfState, PhaseOfStep, Ordinary, Committing
<1>8. CASE RevertProcessedSwPackages
  BY <1>8, CanRevert DEF RevertProcessedSwPackages, DiskInv, PhaseOfState, PhaseOfStep, Ordinary
<1> QED
  BY <1>3, <1>4, <1>5, <1>6, <1>7, <1>8 DEF Client

\* The phase does not depend on anything else.
LEMMA SamePhase ==
  ASSUME DiskInv,
         UNCHANGED <<diskVars, lastBoot, lastList, run, acts, changed, st, final, pc, pkg>>,
         verifier' => verifier, md5' /\ st = "RollingBack" => OnA
  PROVE  DiskInv'
<1>1. DiskTypes' /\ Files'
  BY SameFiles DEF DiskInv
<1>2. PhaseOfState'
  <2>1. Excepted' <=> Excepted
    BY SameFiles DEF Excepted, Cleaned, diskVars
  <2>2. Ordinary' <=> Ordinary
    BY SameFiles, SameActs DEF Ordinary, Placed, Present, Updated, diskVars
  <2>3. (Committing' <=> Committing) /\ (Reverting' <=> Reverting)
    BY SameFiles, SameActs DEF Committing
  <2> QED
    BY <2>1, <2>2, <2>3, SameFiles DEF DiskInv, PhaseOfState
<1>3. PhaseOfStep'
  BY SameFiles, SameActs DEF DiskInv, PhaseOfStep, Updated, Target, diskVars
<1> QED
  BY <1>1, <1>2, <1>3 DEF DiskInv

LEMMA SaveDisk == DiskInv /\ SaveCurrentStatus => DiskInv'
<1> SUFFICES ASSUME DiskInv, SaveCurrentStatus
             PROVE  DiskInv'
  OBVIOUS
<1>1. UNCHANGED <<diskVars, lastBoot, lastList, run, acts, changed, st, final, pc, pkg, verifier>>
  BY DEF SaveCurrentStatus
<1>2. md5' => st # "RollingBack"
  <2>1. md5' => st \in Committed
    BY Zenon DEF SaveCurrentStatus
  <2> QED
    BY <2>1 DEF Committed
<1> QED
  BY <1>1, <1>2, SamePhase

-----------------------------------------------------------------------------
(***************************************************************************)
(* Processing a package.                                                   *)
(***************************************************************************)

\* A package that is taken updates a cluster that is not being updated.
LEMMA PlaceDisk == ControlInv /\ DiskInv /\ Place => DiskInv'
<1> SUFFICES ASSUME ControlInv, DiskInv, Place
             PROVE  DiskInv'
  OBVIOUS
<1> DEFINE c == pkg[1]
           v == pkg[2]
<1>1. /\ st = "Processing" /\ pc = "process" /\ pkg \in Cluster \X Version
      /\ c \in Cluster /\ v \in Version /\ pkg = <<c, v>>
  BY DEF Place, ControlInv, StepsBelong, ControlTypes, States
<1>2. DiskTypes /\ Files /\ Ordinary /\ Pending /\ BaseIsCur /\ AllPresent /\ OnA
  BY <1>1 DEF DiskInv, PhaseOfState, Ordinary
<1>3. ~Updated(c) /\ v > swcl[c].cur
  BY <1>1, <1>2 DEF Place, Acceptable, Pending, Announced
<1>4. /\ dirs' = [dirs EXCEPT ![c] = @ \cup {v}]
      /\ link' = (IF c = "core" THEN Without(link, v) ELSE link)
      /\ UNCHANGED <<boot, list, swcl, lastBoot, lastList, run, acts, changed, st, final, pkg,
                     verifier, md5>>
      /\ pc' = "placed"
  BY DEF Place
<1>5. /\ dirs'["core"] = dirs["core"] \cup (IF c = "core" THEN {v} ELSE {})
      /\ dirs'["app"] = dirs["app"] \cup (IF c = "app" THEN {v} ELSE {})
  BY <1>1, <1>2, <1>4 DEF DiskTypes, Cluster
<1>6. DiskTypes'
  BY <1>1, <1>2, <1>4 DEF DiskTypes
<1>7. BootA' /\ ListA' /\ BaseIsCur'
  BY <1>2, <1>4 DEF OnA, BootA, ListA, BaseIsCur
<1>8. c = "core" => boot[lastBoot] # v /\ boot[lastBoot] \in DOMAIN link
  BY <1>2, <1>3, FilesAB DEF BaseIsCur, Files, Links, Version
<1>9. Links' /\ LinkA'
  <2>1. CASE c = "core"
    BY <1>2, <1>4, <1>5, <1>8, <2>1 DEF Files, Links, LinkA, OnA, BootA, Without
  <2>2. CASE c # "core"
    BY <1>2, <1>4, <1>5, <2>2 DEF Files, Links, LinkA, OnA, BootA
  <2> QED
    BY <2>1, <2>2
<1>10. Files'
  <2>1. AB(boot, lastBoot, swcl["core"], dirs'["core"]) /\ AB(list, lastList, swcl["app"], dirs'["app"])
    BY <1>2, <1>5, FilesAB, ABDirs
  <2> QED
    BY <1>4, <1>9, <2>1 DEF Files
<1>11. Ordinary'
  <2>1. Pending'
    BY <1>2, <1>4 DEF Pending, Announced, Updated
  <2>2. Placed'
    <3>1. dirs[c] = {swcl[c].cur}
      BY <1>1, <1>2, <1>3 DEF AllPresent, Present, Updated, DiskTypes, SwclStatus, Version
    <3>2. \A k \in Cluster : dirs'[k] = IF k = c THEN {swcl[c].cur, v} ELSE Present(k)
      BY <1>1, <1>2, <1>4, <3>1 DEF AllPresent, DiskTypes
    <3> QED
      BY <1>3, <1>4, <3>2 DEF Placed, Updated, Present
  <2> QED
    BY <1>4, <1>7, <2>1, <2>2 DEF Ordinary
<1>12. PhaseOfState'
  BY <1>1, <1>4, <1>7, <1>9, <1>11 DEF DiskInv, PhaseOfState, OnA
<1>13. PhaseOfStep'
  BY <1>1, <1>4 DEF PhaseOfStep
<1> QED
  BY <1>6, <1>10, <1>12, <1>13 DEF DiskInv

LEMMA ExecuteDisk == ControlInv /\ DiskInv /\ Execute => DiskInv'
<1> SUFFICES ASSUME ControlInv, DiskInv, Execute
             PROVE  DiskInv'
  OBVIOUS
<1> DEFINE c == pkg[1]
           v == pkg[2]
<1>1. /\ st = "Processing" /\ pc = "placed" /\ pkg \in Cluster \X Version
      /\ c \in Cluster /\ v \in Version /\ pkg = <<c, v>> /\ acts \subseteq Cluster \X Version
  BY DEF Execute, ControlInv, StepsBelong, ControlTypes, States
<1>2. DiskTypes /\ Files /\ Ordinary /\ Pending /\ BaseIsCur /\ Placed /\ OnA
  BY <1>1 DEF DiskInv, PhaseOfState, Ordinary
<1>3. ~Updated(c) /\ v > swcl[c].cur
  BY <1>2 DEF Placed
<1>4. /\ swcl' = [swcl EXCEPT ![c].new = v] /\ acts' = acts \cup {<<c, v>>} /\ changed' = TRUE
      /\ UNCHANGED <<boot, list, link, dirs, lastBoot, lastList, run, st, final, pkg, verifier, md5>>
      /\ pc' = "processed"
  BY <1>1 DEF Execute
<1>5. DiskTypes'
  BY <1>1, <1>2, <1>4 DEF DiskTypes, SwclStatus, Version
<1>6. /\ swcl'[c] = [cur |-> swcl[c].cur, new |-> v]
      /\ \A k \in Cluster : k # c => swcl'[k] = swcl[k]
  BY <1>1, <1>2, <1>4 DEF DiskTypes, SwclStatus
<1>7. BootA' /\ ListA' /\ LinkA' /\ BaseIsCur'
  BY <1>1, <1>2, <1>4, <1>6 DEF OnA, BootA, ListA, LinkA, BaseIsCur, Cluster
<1>8. Files'
  <2>1. AB(boot, lastBoot, swcl'["core"], dirs["core"])
    BY <1>1, <1>2, <1>3, <1>6, FilesAB, ABStatus DEF OnA, BootA, BaseIsCur, Cluster
  <2>2. AB(list, lastList, swcl'["app"], dirs["app"])
    BY <1>1, <1>2, <1>3, <1>6, FilesAB, ABStatus DEF OnA, ListA, BaseIsCur, Cluster
  <2>3. Links'
    BY <1>2, <1>4 DEF Files, Links
  <2> QED
    BY <1>4, <2>1, <2>2, <2>3 DEF Files
<1>9. Ordinary'
  <2>1. \A a \in acts : a[1] # c
    BY <1>1, <1>2, <1>3 DEF Pending, Updated, Version
  <2>2. Pending'
    BY <1>1, <1>2, <1>4, <1>6, <2>1 DEF Pending, Announced, Updated
  <2>3. AllPresent'
    BY <1>1, <1>2, <1>4, <1>6 DEF Placed, AllPresent, Present, DiskTypes, SwclStatus
  <2> QED
    BY <1>4, <1>7, <2>2, <2>3 DEF Ordinary
<1>10. PhaseOfState'
  BY <1>1, <1>4, <1>7, <1>9 DEF DiskInv, PhaseOfState, OnA
<1>11. PhaseOfStep'
  BY <1>1, <1>4 DEF PhaseOfStep
<1> QED
  BY <1>5, <1>8, <1>10, <1>11 DEF DiskInv

\* A package that turns out to be inconsistent is removed again.
LEMMA ProcessFailsDisk == ControlInv /\ DiskInv /\ ProcessFails => DiskInv'
<1> SUFFICES ASSUME ControlInv, DiskInv, ProcessFails
             PROVE  DiskInv'
  OBVIOUS
<1> DEFINE c == pkg[1]
           v == pkg[2]
<1>1. /\ st = "Processing" /\ pc \in {"process", "placed"} /\ pkg \in Cluster \X Version
      /\ c \in Cluster /\ v \in Version /\ pkg = <<c, v>>
  BY DEF ProcessFails, ControlInv, StepsBelong, ControlTypes, States
<1>2. DiskTypes /\ Files /\ Ordinary /\ Pending /\ BaseIsCur /\ OnA
  BY <1>1 DEF DiskInv, PhaseOfState, Ordinary
<1>3. /\ UNCHANGED <<boot, list, swcl, lastBoot, lastList, run, acts, changed, st, final, pkg,
                     verifier, md5>>
      /\ pc' = "none"
  BY DEF ProcessFails
<1>4. CASE pc = "process"
  <2>1. UNCHANGED <<dirs, link>>
    BY <1>4 DEF ProcessFails
  <2>2. UNCHANGED <<diskVars, lastBoot, lastList, run, acts>>
    BY <1>3, <2>1 DEF diskVars
  <2>3. Ordinary'
    BY <1>2, <1>3, <1>4, <2>2, SameFiles, SameActs DEF Ordinary
  <2> QED
    BY <1>1, <1>2, <1>3, <2>2, <2>3, SameFiles DEF DiskInv, PhaseOfState, PhaseOfStep
<1>5. CASE pc = "placed"
  <2>1. /\ dirs' = [dirs EXCEPT ![c] = @ \ {v}]
        /\ link' = (IF c = "core" THEN Without(link, v) ELSE link)
    BY <1>5 DEF ProcessFails
  <2>2. ~Updated(c) /\ v > swcl[c].cur /\ Placed
    BY <1>2, <1>5 DEF Ordinary, Placed
  <2>3. /\ dirs'["core"] = dirs["core"] \ (IF c = "core" THEN {v} ELSE {})
        /\ dirs'["app"] = dirs["app"] \ (IF c = "app" THEN {v} ELSE {})
    BY <1>1, <1>2, <2>1 DEF DiskTypes, Cluster
  <2>4. DiskTypes'
    BY <1>1, <1>2, <1>3, <2>1 DEF DiskTypes
  <2>5. BootA' /\ ListA' /\ BaseIsCur'
    BY <1>2, <1>3 DEF OnA, BootA, ListA, BaseIsCur
  <2>6. /\ c = "core" => boot[lastBoot] # v /\ boot[lastBoot] \in DOMAIN link
        /\ c = "app" => list[lastList] # v
    BY <1>2, <2>2, FilesAB DEF BaseIsCur, Files, Links, Version
  <2>7. Links' /\ LinkA'
    <3>1. CASE c = "core"
      BY <1>2, <1>3, <2>1, <2>3, <2>6, <3>1 DEF Files, Links, LinkA, OnA, BootA, Without
    <3>2. CASE c # "core"
      BY <1>2, <1>3, <2>1, <2>3, <3>2 DEF Files, Links, LinkA, OnA, BootA
    <3> QED
      BY <3>1, <3>2
  <2>8. Files'
    <3>1. /\ AB(boot, lastBoot, swcl["core"], dirs'["core"])
          /\ AB(list, lastList, swcl["app"], dirs'["app"])
      BY <1>2, <2>3, <2>6, FilesAB, ABDirs DEF OnA, BootA, ListA
    <3> QED
      BY <1>3, <2>7, <3>1 DEF Files
  <2>9. Ordinary'
    <3>1. Pending'
      BY <1>2, <1>3 DEF Pending, Announced, Updated
    <3>2. AllPresent'
      BY <1>1, <1>2, <1>3, <2>1, <2>2
         DEF Placed, AllPresent, Present, Updated, DiskTypes, SwclStatus, Version
    <3> QED
      BY <1>3, <2>5, <3>1, <3>2 DEF Ordinary
  <2> QED
    BY <1>1, <1>3, <2>4, <2>5, <2>7, <2>8, <2>9 DEF DiskInv, PhaseOfState, PhaseOfStep, OnA
<1> QED
  BY <1>1, <1>4, <1>5

LEMMA ProcessingDisk == ControlInv /\ DiskInv /\ Processing => DiskInv'
<1> SUFFICES ASSUME ControlInv, DiskInv, OnProcessSwPackageSucceeded
             PROVE  DiskInv'
  BY PlaceDisk, ExecuteDisk, ProcessFailsDisk DEF Processing
<1>1. /\ UNCHANGED <<diskVars, lastBoot, lastList, run, acts, changed, verifier>>
      /\ st = "Processing" /\ pc = "processed" /\ st' = "Ready" /\ pc' = "none"
  BY DEF OnProcessSwPackageSucceeded, ControlInv, StepsBelong, ControlTypes, States
<1> QED
  BY <1>1, SameFiles, SameActs DEF DiskInv, PhaseOfState, PhaseOfStep, Ordinary

-----------------------------------------------------------------------------
(***************************************************************************)
(* Activating and verifying.                                               *)
(***************************************************************************)
LEMMA ListWritten == ControlInv /\ DiskInv /\ At("list") /\ SwclListFileLinkToB => DiskInv'
<1> SUFFICES ASSUME ControlInv, DiskInv, At("list"), SwclListFileLinkToB
             PROVE  DiskInv'
  OBVIOUS
<1>1. st = "Verifying" /\ pc = "list"
  BY DEF ControlInv, StepsBelong, ControlTypes, States
<1>2. DiskTypes /\ Files /\ Pending /\ BaseIsCur /\ AllPresent /\ OnA
  BY <1>1 DEF DiskInv, PhaseOfState, PhaseOfStep, Ordinary
<1>3. /\ list' = (IF Updated("app") THEN With(list, NextId(lastList), Target("app")) ELSE list)
      /\ UNCHANGED <<boot, link, dirs, swcl, lastBoot, lastList, run, acts, changed, st, final,
                     pkg, verifier, md5>>
      /\ pc' = "link"
  BY DEF SwclListFileLinkToB, AfterStep
<1>4. /\ AB(list', lastList, swcl["app"], dirs["app"])
      /\ list'[lastList] = list[lastList] /\ DOMAIN list \subseteq DOMAIN list'
      /\ Updated("app") => DOMAIN list' = {lastList, lastList + 1}
  <2>1. CASE Updated("app")
    <3>1. swcl["app"].new # 0 /\ swcl["app"].new \in dirs["app"] /\ Target("app") = swcl["app"].new
      BY <1>2, <2>1 DEF AllPresent, Present, Updated, Target, DiskTypes, SwclStatus, Cluster, Version
    <3> QED
      <4>1. /\ AB(list, lastList, swcl["app"], dirs["app"]) /\ swcl["app"] \in SwclStatus
            /\ DOMAIN list = {lastList} /\ list[lastList] = swcl["app"].cur
            /\ swcl["app"].new # 0 /\ swcl["app"].new \in dirs["app"]
        BY <1>2, <3>1, FilesAB DEF OnA, ListA, BaseIsCur
      <4>2. AddsB(list, lastList, swcl["app"], dirs["app"], list')
        BY <1>3, <2>1, <3>1, <4>1 DEF AddsB
      <4>3. BothFiles(list, lastList, swcl["app"], dirs["app"], list')
        BY <4>2, ABAddB
      <4> QED
        BY <4>1, <4>3 DEF BothFiles
  <2>2. CASE ~Updated("app")
    BY <1>2, <1>3, <2>2, FilesAB
  <2> QED
    BY <2>1, <2>2
<1>5. DiskTypes'
  BY <1>2, <1>3 DEF DiskTypes
<1>6. Files'
  BY <1>2, <1>3, <1>4 DEF Files, Links
<1>7. Ordinary'
  BY <1>2, <1>3, <1>4
     DEF Ordinary, Pending, Announced, Updated, BaseIsCur, AllPresent, Present
<1>8. BootA' /\ LinkA' /\ ListB'
  BY <1>2, <1>3, <1>4 DEF OnA, BootA, LinkA, ListB, Updated
<1>9. PhaseOfState'
  BY <1>1, <1>3, <1>7 DEF DiskInv, PhaseOfState
<1>10. PhaseOfStep'
  BY <1>1, <1>3, <1>8 DEF PhaseOfStep, ControlInv, RestartBelongs
<1> QED
  BY <1>5, <1>6, <1>9, <1>10 DEF DiskInv

LEMMA ListLinked == ControlInv /\ DiskInv /\ At("link") /\ SwclListFileLinkToB => DiskInv'
<1> SUFFICES ASSUME ControlInv, DiskInv, At("link"), SwclListFileLinkToB
             PROVE  DiskInv'
  OBVIOUS
<1> DEFINE t == Target("core")
           y == IF Updated("app") THEN NextId(lastList) ELSE lastList
<1>1. st = "Verifying" /\ pc = "link"
  BY DEF ControlInv, StepsBelong, ControlTypes, States
<1>2. /\ DiskTypes /\ Files /\ Pending /\ BaseIsCur /\ AllPresent
      /\ BootA /\ LinkA /\ ListB
  BY <1>1 DEF DiskInv, PhaseOfState, PhaseOfStep, Ordinary
<1>3. /\ link' = With(link, t, y)
      /\ UNCHANGED <<boot, list, dirs, swcl, lastBoot, lastList, run, acts, changed, st, final,
                     pkg, verifier, md5>>
      /\ pc' = (IF Updated("core") THEN "boot" ELSE "restart")
  BY DEF SwclListFileLinkToB, AfterStep
<1>4. /\ t \in dirs["core"] /\ y \in Ids /\ y \in DOMAIN list
      /\ y = (IF Updated("app") THEN lastList + 1 ELSE lastList)
  <2>1. t \in dirs["core"]
    BY <1>2 DEF Target, Updated, AllPresent, Present, DiskTypes, SwclStatus, Cluster, Version
  <2>2. y = (IF Updated("app") THEN lastList + 1 ELSE lastList)
    BY DEF NextId
  <2>3. y \in Ids /\ y \in DOMAIN list
    BY <1>2, <2>2, FilesAB DEF ListB, NextId
  <2> QED
    BY <2>1, <2>2, <2>3
<1>5. DiskTypes'
  BY <1>2, <1>3 DEF DiskTypes
<1>6. /\ DOMAIN link' = DOMAIN link \cup {t} /\ link'[t] = y
      /\ \A k \in DOMAIN link : k # t => link'[k] = link[k]
      /\ link' \in [DOMAIN link' -> Ids]
  BY <1>2, <1>3, <1>4 DEF With, Files, Links
<1>7. Links'
  BY <1>2, <1>3, <1>4, <1>6 DEF Files, Links
<1>8. Files'
  BY <1>2, <1>3, <1>7 DEF Files
<1>9. Ordinary'
  BY <1>1, <1>2, <1>3 DEF Ordinary, Pending, Announced, Updated, BaseIsCur, AllPresent, Present
<1>10. BootA' /\ ListB' /\ (Updated("core")' <=> Updated("core"))
  BY <1>2, <1>3 DEF BootA, ListB, Updated
<1>11. LinkB' /\ Target("core")' \in DOMAIN link'
  BY <1>3, <1>4, <1>6 DEF LinkB, Target, Updated
<1>12. ~Updated("core") => OnB'
  BY <1>10, <1>11 DEF OnB, BootB
<1>13. PhaseOfState'
  BY <1>1, <1>3, <1>9 DEF DiskInv, PhaseOfState
<1>14. PhaseOfStep'
  BY <1>1, <1>3, <1>10, <1>11, <1>12 DEF PhaseOfStep, ControlInv, RestartBelongs
<1> QED
  BY <1>5, <1>8, <1>13, <1>14 DEF DiskInv

\* The boot option of the new core is written when the core has its list.
LEMMA BootWritten == ControlInv /\ DiskInv /\ BootOptionFileLinkToB => DiskInv'
<1> SUFFICES ASSUME ControlInv, DiskInv, BootOptionFileLinkToB
             PROVE  DiskInv'
  OBVIOUS
<1> DEFINE t == Target("core")
<1>1. st = "Verifying" /\ pc = "boot"
  BY DEF BootOptionFileLinkToB, ControlInv, StepsBelong, ControlTypes, States
<1>2. /\ DiskTypes /\ Files /\ Pending /\ BaseIsCur /\ AllPresent
      /\ BootA /\ LinkB /\ ListB /\ Updated("core")
  BY <1>1 DEF DiskInv, PhaseOfState, PhaseOfStep, Ordinary
<1>3. /\ boot' = With(boot, NextId(lastBoot), t)
      /\ UNCHANGED <<list, link, dirs, swcl, lastBoot, lastList, run, acts, changed, st, final,
                     pkg, verifier, md5>>
      /\ pc' = "restart"
  BY DEF BootOptionFileLinkToB, AfterStep
<1>4. t = swcl["core"].new /\ t # 0 /\ t \in dirs["core"]
  BY <1>2 DEF Target, Updated, AllPresent, Present, DiskTypes, SwclStatus, Cluster, Version
<1>5. /\ AB(boot', lastBoot, swcl["core"], dirs["core"])
      /\ DOMAIN boot' = {lastBoot, lastBoot + 1}
      /\ boot'[lastBoot] = boot[lastBoot] /\ boot'[lastBoot + 1] = t
  <2>1. /\ AB(boot, lastBoot, swcl["core"], dirs["core"]) /\ swcl["core"] \in SwclStatus
        /\ DOMAIN boot = {lastBoot} /\ boot[lastBoot] = swcl["core"].cur
        /\ swcl["core"].new # 0 /\ swcl["core"].new \in dirs["core"]
    BY <1>2, <1>4, FilesAB DEF BootA, BaseIsCur
  <2>2. AddsB(boot, lastBoot, swcl["core"], dirs["core"], boot')
    BY <1>3, <1>4, <2>1 DEF AddsB
  <2>3. BothFiles(boot, lastBoot, swcl["core"], dirs["core"], boot')
    BY <2>2, ABAddB
  <2> QED
    BY <1>4, <2>3 DEF BothFiles
<1>6. DiskTypes'
  BY <1>2, <1>3 DEF DiskTypes
<1>7. t \in DOMAIN link /\ link[t] \in DOMAIN list
  <2>1. link[t] \in DOMAIN list /\ link[t] = (IF Updated("app") THEN lastList + 1 ELSE lastList)
    BY <1>2, FilesAB DEF LinkB, ListB
  <2>2. t \in DOMAIN link
    BY <1>1 DEF DiskInv, PhaseOfStep
  <2> QED
    BY <2>1, <2>2
<1>8. Links'
  BY <1>2, <1>3, <1>5, <1>7, FilesAB DEF Files, Links
<1>9. Files'
  BY <1>2, <1>3, <1>5, <1>8 DEF Files
<1>10. Ordinary'
  BY <1>2, <1>3, <1>5 DEF Ordinary, Pending, Announced, Updated, BaseIsCur, AllPresent, Present
<1>11. OnB'
  BY <1>2, <1>3, <1>5 DEF OnB, BootB, ListB, LinkB, Updated, Target
<1>12. PhaseOfState'
  BY <1>1, <1>3, <1>10 DEF DiskInv, PhaseOfState
<1>13. PhaseOfStep'
  BY <1>1, <1>3, <1>11 DEF PhaseOfStep, ControlInv, RestartBelongs
<1> QED
  BY <1>6, <1>9, <1>12, <1>13 DEF DiskInv

\* ara-loader finds the A file and, if there is one, the B file.
LEMMA LoaderFinds ==
  ASSUME DiskTypes, Files
  PROVE  /\ LoaderChoices \subseteq DOMAIN boot
         /\ Min(DOMAIN boot) = lastBoot /\ Min(DOMAIN list) = lastList
         /\ Max(DOMAIN boot) = (IF BootA THEN lastBoot ELSE lastBoot + 1)
         /\ ~BootA => /\ DOMAIN boot = {lastBoot, lastBoot + 1}
                      /\ boot[lastBoot + 1] = swcl["core"].new /\ swcl["core"].new \in Version
         /\ ~ListA => /\ DOMAIN list = {lastList, lastList + 1}
                      /\ list[lastList + 1] = swcl["app"].new /\ swcl["app"].new \in Version
<1>1. /\ AB(boot, lastBoot, swcl["core"], dirs["core"]) /\ swcl["core"] \in SwclStatus
      /\ AB(list, lastList, swcl["app"], dirs["app"]) /\ swcl["app"] \in SwclStatus
      /\ lastBoot \in DOMAIN boot
  BY FilesAB
<1>2. /\ Min(DOMAIN boot) = lastBoot
      /\ Max(DOMAIN boot) = (IF BootA THEN lastBoot ELSE lastBoot + 1)
      /\ ~BootA => /\ DOMAIN boot = {lastBoot, lastBoot + 1}
                   /\ boot[lastBoot + 1] = swcl["core"].new /\ swcl["core"].new \in Version
  BY <1>1, ABMinMax DEF BootA
<1>3. /\ Min(DOMAIN list) = lastList
      /\ ~ListA => /\ DOMAIN list = {lastList, lastList + 1}
                   /\ list[lastList + 1] = swcl["app"].new /\ swcl["app"].new \in Version
  BY <1>1, ABMinMax DEF ListA
<1>4. LoaderChoices \subseteq DOMAIN boot
  BY <1>1, <1>2 DEF LoaderChoices
<1> QED
  BY <1>2, <1>3, <1>4

\* EM takes the applications from the list of a core: what it restarts is of the
\* right type, ...
LEMMA ReparsedTypes ==
  ASSUME DiskTypes, Files, ReparseProcessList, UNCHANGED diskVars
  PROVE  DiskTypes'
<1>1. \A j \in DOMAIN list : list[j] \in Version
  BY FilesAB
<1>2. CASE NeedsRestart
  BY <1>1, <1>2 DEF ReparseProcessList, CanLoad, DiskTypes, diskVars
<1>3. CASE ~NeedsRestart
  BY <1>3 DEF ReparseProcessList, DiskTypes, diskVars
<1> QED
  BY <1>2, <1>3

\* ... and the core is not updated then, so that only its old version can run.
LEMMA ReparsedOnCur ==
  ASSUME DiskTypes, Files, Pending, BaseIsCur, AllPresent, ReparseProcessList, NeedsRestart
  PROVE  /\ ~Updated("core") /\ run.core = boot[lastBoot]
         /\ link[run.core] \in DOMAIN list /\ run'.app = list[link[run.core]]
         /\ run'.core = run.core
<1>1. /\ run.core \in DOMAIN link /\ link[run.core] \in DOMAIN list
      /\ \A a \in acts : a[1] # "core"
      /\ run' = [run EXCEPT !.app = list[link[run.core]]]
  BY DEF ReparseProcessList, CanLoad
<1>2. ~Updated("core")
  BY <1>1 DEF Pending, Announced, Cluster
<1>3. dirs["core"] = {swcl["core"].cur}
  BY <1>2 DEF AllPresent, Present, Updated, DiskTypes, SwclStatus, Cluster, Version
<1>4. run.core = boot[lastBoot]
  BY <1>1, <1>3 DEF Files, Links, BaseIsCur
<1> QED
  BY <1>1, <1>2, <1>4 DEF DiskTypes

\* EM restarts the applications in their new version.
LEMMA ReparseDisk == ControlInv /\ DiskInv /\ Reparse => DiskInv'
<1> SUFFICES ASSUME ControlInv, DiskInv, Reparse
             PROVE  DiskInv'
  OBVIOUS
<1>1. st = "Verifying" /\ pc = "restart" /\ ~NeedsReboot /\ ~verifier
  BY DEF Reparse, ControlInv, StepsBelong, RestartBelongs, ControlTypes, States
<1>2. DiskTypes /\ Files /\ Ordinary /\ Pending /\ BaseIsCur /\ AllPresent /\ OnB
  BY <1>1 DEF DiskInv, PhaseOfState, PhaseOfStep, Ordinary
<1>3. /\ UNCHANGED <<diskVars, lastBoot, lastList, acts, changed, st, final, pkg, verifier, md5>>
      /\ pc' = "verify" /\ ReparseProcessList
  BY DEF Reparse
<1>4. DiskTypes' /\ Files'
  BY <1>2, <1>3, ReparsedTypes DEF Files, AB, Links, diskVars
<1>5. Restarted'
  <2>1. NeedsRestart' <=> NeedsRestart
    BY <1>3 DEF NeedsRestart, NeedsReboot
  <2>2. ~NeedsReboot'
    BY <1>1, <1>3 DEF NeedsReboot
  <2>3. ASSUME NeedsRestart, Updated("app")
        PROVE  run'.app = swcl["app"].new /\ ~Updated("core")
    <3>1. /\ ~Updated("core") /\ run.core = boot[lastBoot]
          /\ run'.app = list[link[run.core]]
      BY <1>2, <1>3, <2>3, ReparsedOnCur
    <3>2. link[run.core] = lastList + 1 /\ DOMAIN list = {lastList, lastList + 1}
      BY <1>2, <2>3, <3>1 DEF OnB, LinkB, ListB, Target, BaseIsCur
    <3>3. list[lastList + 1] = swcl["app"].new
      BY <1>2, <3>2, FilesAB DEF AB
    <3> QED
      BY <3>1, <3>2, <3>3
  <2>4. NeedsRestart => ~Updated("core")
    BY <1>2, <1>3, ReparsedOnCur
  <2> QED
    BY <1>3, <2>1, <2>2, <2>3, <2>4 DEF Restarted, Cluster, Updated, diskVars
<1>6. OnB'
  BY <1>2, <1>3 DEF OnB, BootB, ListB, LinkB, Updated, Target, diskVars
<1>7. Ordinary'
  BY <1>2, <1>3
     DEF Ordinary, Pending, Announced, Updated, BaseIsCur, AllPresent, Present, diskVars
<1>8. PhaseOfState' /\ PhaseOfStep'
  BY <1>1, <1>3, <1>5, <1>6, <1>7 DEF DiskInv, PhaseOfState, PhaseOfStep
<1> QED
  BY <1>4, <1>8 DEF DiskInv

\* The other steps write nothing.
LEMMA ActivationDisk == ControlInv /\ DiskInv /\ Activation => DiskInv'
<1> SUFFICES ASSUME ControlInv, DiskInv, Activation
             PROVE  DiskInv'
  OBVIOUS
<1> DEFINE Still == UNCHANGED <<diskVars, lastBoot, lastList, run, acts, changed>>
<1>0. ASSUME Still
      PROVE  DiskTypes' /\ Files'
  BY <1>0, SameFiles DEF DiskInv
<1>1. CASE ActivateRefused \/ StartUpdateSession \/ PrepareRefused \/ PrepareUpdate
  <2>1. /\ Still /\ pc \in {"activate", "prepare"} /\ st = "Activating"
        /\ \/ st' = "Ready" /\ pc' = "none"
           \/ st' = "Activating" /\ pc' = "prepare"
           \/ st' = "Verifying" /\ pc' = "list" /\ UNCHANGED verifier
    BY <1>1 DEF ActivateRefused, StartUpdateSession, PrepareRefused, PrepareUpdate,
                ControlInv, StepsBelong, ControlTypes, States
  <2>2. Ordinary'
    BY <2>1, SameFiles, SameActs DEF DiskInv, PhaseOfState, Ordinary
  <2>3. ~verifier
    BY <2>1 DEF ControlInv, RestartBelongs
  <2> QED
    BY <1>0, <2>1, <2>2, <2>3, SameFiles DEF DiskInv, PhaseOfState, PhaseOfStep
<1>2. CASE SwclListFileLinkToB \/ BootOptionFileLinkToB \/ Reparse
  BY <1>2, ListWritten, ListLinked, BootWritten, ReparseDisk DEF SwclListFileLinkToB
<1>3. CASE CommitSaveTransaction
  <2>1. /\ Still /\ UNCHANGED <<st, verifier>> /\ NeedsReboot
        /\ \/ st = "Verifying" /\ pc = "restart" /\ pc' = "reset"
           \/ st = "RollingBack" /\ pc = "rbRestart" /\ pc' = "rbReset"
    BY <1>3 DEF CommitSaveTransaction, ControlInv, StepsBelong, ControlTypes, States
  <2>2. Ordinary'
    BY <2>1, SameFiles, SameActs DEF DiskInv, PhaseOfState, Ordinary
  <2>3. ~verifier \/ st # "Verifying"
    BY <2>1 DEF ControlInv, RestartBelongs
  <2> QED
    BY <1>0, <2>1, <2>2, <2>3, SameFiles DEF DiskInv, PhaseOfState, PhaseOfStep
<1>4. CASE ResetAccepted
  <2>1. /\ Still /\ UNCHANGED <<st, verifier, md5>> /\ pc' = "none"
        /\ \/ st = "Verifying" /\ pc = "reset"
           \/ st = "RollingBack" /\ pc = "rbReset"
           \/ st = "ExceptionCleaningUp" /\ pc = "exReset"
    BY <1>4 DEF ResetAccepted, ControlInv, StepsBelong, ControlTypes, States
  <2>2. st # "ExceptionCleaningUp" => Ordinary'
    BY <2>1, SameFiles, SameActs DEF DiskInv, PhaseOfState, Ordinary
  <2>3. st = "ExceptionCleaningUp" => Excepted'
    BY <2>1, SameFiles DEF DiskInv, PhaseOfState, Excepted
  <2>4. ~verifier \/ st # "Verifying"
    BY <2>1 DEF ControlInv, RestartBelongs
  <2> QED
    BY <1>0, <2>1, <2>2, <2>3, <2>4, SameFiles DEF DiskInv, PhaseOfState, PhaseOfStep
<1>5. CASE ResetRefused /\ pc # "reset"
  <2>1. /\ Still /\ UNCHANGED <<st, verifier, md5>> /\ pc' = "none"
        /\ \/ st = "RollingBack" /\ pc = "rbReset"
           \/ st = "ExceptionCleaningUp" /\ pc = "exReset"
    BY <1>5 DEF ResetRefused, ControlInv, StepsBelong, ControlTypes, States
  <2>2. st # "ExceptionCleaningUp" => Ordinary'
    BY <2>1, SameFiles, SameActs DEF DiskInv, PhaseOfState, Ordinary
  <2>3. st = "ExceptionCleaningUp" => Excepted'
    BY <2>1, SameFiles DEF DiskInv, PhaseOfState, Excepted
  <2> QED
    BY <1>0, <2>1, <2>2, <2>3, SameFiles DEF DiskInv, PhaseOfState, PhaseOfStep
<1>6. CASE (ResetRefused /\ pc = "reset") \/ ReparseFails \/ VerifyRefused
  <2>1. /\ Still /\ st = "Verifying" /\ pc \in {"reset", "restart", "verify"}
        /\ st' = "RollingBack" /\ pc' = "rollback" /\ ~md5'
    BY <1>6 DEF ResetRefused, ReparseFails, VerifyRefused, ControlInv, StepsBelong,
                ControlTypes, States
  <2>2. Ordinary' /\ OnB'
    BY <2>1, SameFiles, SameActs DEF DiskInv, PhaseOfState, PhaseOfStep, Ordinary
  <2> QED
    BY <1>0, <2>1, <2>2, SameFiles DEF DiskInv, PhaseOfState, PhaseOfStep
<1>7. CASE VerifyUpdate
  <2>1. /\ Still /\ st = "Verifying" /\ pc = "verify" /\ st' = "Activated" /\ pc' = "none"
    BY <1>7 DEF VerifyUpdate, ControlInv, StepsBelong, ControlTypes, States
  <2>2. Ordinary' /\ OnB'
    BY <2>1, SameFiles, SameActs DEF DiskInv, PhaseOfState, PhaseOfStep, Ordinary
  <2> QED
    BY <1>0, <2>1, <2>2, SameFiles DEF DiskInv, PhaseOfState, PhaseOfStep
<1> QED
  BY <1>1, <1>2, <1>3, <1>4, <1>5, <1>6, <1>7 DEF Activation

-----------------------------------------------------------------------------
(***************************************************************************)
(* Rolling back.                                                           *)
(***************************************************************************)

\* The boot option of the new core goes first, ...
LEMMA BootRolledBack == ControlInv /\ DiskInv /\ BootOptionFileRollbackToA => DiskInv'
<1> SUFFICES ASSUME ControlInv, DiskInv, BootOptionFileRollbackToA
             PROVE  DiskInv'
  OBVIOUS
<1>1. st = "RollingBack" /\ pc = "rollback" /\ ~md5
  BY DEF BootOptionFileRollbackToA, ControlInv, StepsBelong, ControlTypes, States, RestartCommitted
<1>2. DiskTypes /\ Files /\ Pending /\ BaseIsCur /\ AllPresent /\ OnB
  BY <1>1 DEF DiskInv, PhaseOfState, PhaseOfStep, Ordinary
<1>3. /\ boot' = (IF Updated("core") THEN Without(boot, NextId(lastBoot)) ELSE boot)
      /\ UNCHANGED <<list, link, dirs, swcl, lastBoot, lastList, run, acts, changed, st, final,
                     pkg, verifier, md5>>
      /\ pc' = "rbLink"
  BY DEF BootOptionFileRollbackToA
<1>4. /\ AB(boot', lastBoot, swcl["core"], dirs["core"])
      /\ DOMAIN boot' = {lastBoot} /\ boot'[lastBoot] = boot[lastBoot]
  <2>1. AB(boot, lastBoot, swcl["core"], dirs["core"]) /\ swcl["core"] \in SwclStatus
    BY <1>2, FilesAB
  <2>2. CASE Updated("core")
    <3>1. boot' = Without(boot, NextId(lastBoot))
      BY <1>3, <2>2
    <3> QED
      BY <2>1, <3>1, ABDropB
  <2>3. CASE ~Updated("core")
    BY <1>3, <2>1, <2>3, ABOnlyA DEF Updated
  <2> QED
    BY <2>2, <2>3
<1>5. DiskTypes'
  BY <1>2, <1>3 DEF DiskTypes
<1>6. Files'
  BY <1>2, <1>3, <1>4, FilesAB DEF Files, Links
<1>7. Ordinary' /\ BootA' /\ ListB'
  BY <1>2, <1>3, <1>4
     DEF Ordinary, Pending, Announced, Updated, BaseIsCur, AllPresent, Present, BootA,
         OnB, ListB
<1>8. PhaseOfState' /\ PhaseOfStep'
  BY <1>1, <1>3, <1>7 DEF DiskInv, PhaseOfState, PhaseOfStep
<1> QED
  BY <1>5, <1>6, <1>8 DEF DiskInv

\* ... then the old core is linked to the old list, ...
LEMMA LinkRolledBack ==
  ControlInv /\ DiskInv /\ At("rbLink") /\ SwclListFileRollbackToA => DiskInv'
<1> SUFFICES ASSUME ControlInv, DiskInv, At("rbLink"), SwclListFileRollbackToA
             PROVE  DiskInv'
  OBVIOUS
<1>1. st = "RollingBack" /\ pc = "rbLink" /\ ~md5
  BY DEF ControlInv, StepsBelong, ControlTypes, States, RestartCommitted
<1>2. DiskTypes /\ Files /\ Pending /\ BaseIsCur /\ AllPresent /\ BootA /\ ListB
  BY <1>1 DEF DiskInv, PhaseOfState, PhaseOfStep, Ordinary
<1>3. /\ link' = With(link, boot[lastBoot], lastList)
      /\ UNCHANGED <<boot, list, dirs, swcl, lastBoot, lastList, run, acts, changed, st, final,
                     pkg, verifier, md5>>
      /\ pc' = "rbList"
  BY <1>2 DEF SwclListFileRollbackToA, BaseIsCur
<1>4. /\ DOMAIN link' = DOMAIN link \cup {boot[lastBoot]} /\ link'[boot[lastBoot]] = lastList
      /\ link' \in [DOMAIN link' -> Ids] /\ boot[lastBoot] \in dirs["core"]
      /\ lastList \in DOMAIN list
  BY <1>2, <1>3, FilesAB DEF With, Files, Links
<1>5. DiskTypes'
  BY <1>2, <1>3 DEF DiskTypes
<1>6. Files'
  BY <1>2, <1>3, <1>4 DEF Files, Links, BootA
<1>7. Ordinary' /\ BootA' /\ ListB' /\ LinkA'
  BY <1>2, <1>3, <1>4
     DEF Ordinary, Pending, Announced, Updated, BaseIsCur, AllPresent, Present, BootA, ListB,
         LinkA
<1>8. PhaseOfState' /\ PhaseOfStep'
  BY <1>1, <1>3, <1>7 DEF DiskInv, PhaseOfState, PhaseOfStep
<1> QED
  BY <1>5, <1>6, <1>8 DEF DiskInv

\* ... and the new list goes last.
LEMMA ListRolledBack ==
  ControlInv /\ DiskInv /\ At("rbList") /\ SwclListFileRollbackToA => DiskInv'
<1> SUFFICES ASSUME ControlInv, DiskInv, At("rbList"), SwclListFileRollbackToA
             PROVE  DiskInv'
  OBVIOUS
<1>1. st = "RollingBack" /\ pc = "rbList" /\ ~md5
  BY DEF ControlInv, StepsBelong, ControlTypes, States, RestartCommitted
<1>2. DiskTypes /\ Files /\ Pending /\ BaseIsCur /\ AllPresent /\ BootA /\ LinkA
  BY <1>1 DEF DiskInv, PhaseOfState, PhaseOfStep, Ordinary
<1>3. /\ list' = (IF Updated("app") THEN Without(list, NextId(lastList)) ELSE list)
      /\ UNCHANGED <<boot, link, dirs, swcl, lastBoot, lastList, run, acts, changed, st, final,
                     pkg, verifier, md5>>
      /\ pc' = "rbRestart"
  BY DEF SwclListFileRollbackToA
<1>4. /\ AB(list', lastList, swcl["app"], dirs["app"])
      /\ DOMAIN list' = {lastList} /\ list'[lastList] = list[lastList]
  <2>1. AB(list, lastList, swcl["app"], dirs["app"]) /\ swcl["app"] \in SwclStatus
    BY <1>2, FilesAB
  <2>2. CASE Updated("app")
    <3>1. list' = Without(list, NextId(lastList))
      BY <1>3, <2>2
    <3> QED
      BY <2>1, <3>1, ABDropB
  <2>3. CASE ~Updated("app")
    BY <1>3, <2>1, <2>3, ABOnlyA DEF Updated
  <2> QED
    BY <2>2, <2>3
<1>5. DiskTypes'
  BY <1>2, <1>3 DEF DiskTypes
<1>6. Files'
  BY <1>2, <1>3, <1>4 DEF Files, Links, BootA, LinkA
<1>7. Ordinary' /\ OnA'
  BY <1>2, <1>3, <1>4
     DEF Ordinary, Pending, Announced, Updated, BaseIsCur, AllPresent, Present, OnA, BootA,
         ListA, LinkA
<1>8. PhaseOfState' /\ PhaseOfStep'
  BY <1>1, <1>3, <1>7 DEF DiskInv, PhaseOfState, PhaseOfStep
<1> QED
  BY <1>5, <1>6, <1>8 DEF DiskInv

\* EM goes back to the old applications.
LEMMA ReparseOldDisk == ControlInv /\ DiskInv /\ ReparseOld => DiskInv'
<1> SUFFICES ASSUME ControlInv, DiskInv, ReparseOld
             PROVE  DiskInv'
  OBVIOUS
<1>1. st = "RollingBack" /\ pc = "rbRestart" /\ ~NeedsReboot
  BY DEF ReparseOld, ControlInv, StepsBelong, ControlTypes, States
<1>2. DiskTypes /\ Files /\ Ordinary /\ Pending /\ BaseIsCur /\ AllPresent /\ OnA
  BY <1>1 DEF DiskInv, PhaseOfState, PhaseOfStep, Ordinary
<1>3. /\ UNCHANGED <<diskVars, lastBoot, lastList, acts, changed, pkg>>
      /\ st' = "RolledBack" /\ pc' = "none" /\ ReparseProcessList
  BY DEF ReparseOld
<1>4. DiskTypes' /\ Files'
  BY <1>2, <1>3, ReparsedTypes DEF Files, AB, Links, diskVars
<1>5. OnA'
  BY <1>2, <1>3 DEF OnA, BootA, ListA, LinkA, diskVars
<1>6. Ordinary'
  BY <1>2, <1>3
     DEF Ordinary, Pending, Announced, Updated, BaseIsCur, AllPresent, Present, diskVars
<1>7. PhaseOfState' /\ PhaseOfStep'
  BY <1>1, <1>3, <1>5, <1>6 DEF DiskInv, PhaseOfState, PhaseOfStep
<1> QED
  BY <1>4, <1>7 DEF DiskInv

LEMMA RollingBackDisk == ControlInv /\ DiskInv /\ RollingBack => DiskInv'
<1> SUFFICES ASSUME ControlInv, DiskInv, RollingBack
             PROVE  DiskInv'
  OBVIOUS
<1>1. CASE RollbackRefused \/ ReparseOldFails
  <2>1. /\ UNCHANGED <<diskVars, lastBoot, lastList, run, acts, changed, st, md5, verifier>>
        /\ st = "RollingBack" /\ pc \in {"rollback", "rbRestart"} /\ pc' = "none" /\ ~md5
    BY <1>1 DEF RollbackRefused, ReparseOldFails, ControlInv, StepsBelong, ControlTypes, States,
                RestartCommitted
  <2>2. Ordinary'
    BY <2>1, SameFiles, SameActs DEF DiskInv, PhaseOfState, Ordinary
  <2> QED
    BY <2>1, <2>2, SameFiles DEF DiskInv, PhaseOfState, PhaseOfStep
<1>2. CASE RollbackDone
  <2>1. /\ UNCHANGED <<diskVars, lastBoot, lastList, run, acts, changed>>
        /\ st = "RollingBack" /\ pc = "rolledBack" /\ st' = "RolledBack" /\ pc' = "none"
    BY <1>2 DEF RollbackDone, ControlInv, StepsBelong, ControlTypes, States
  <2>2. Ordinary' /\ OnA'
    BY <2>1, SameFiles, SameActs DEF DiskInv, PhaseOfState, PhaseOfStep, Ordinary
  <2> QED
    BY <2>1, <2>2, SameFiles DEF DiskInv, PhaseOfState, PhaseOfStep
<1> QED
  BY <1>1, <1>2, BootRolledBack, LinkRolledBack, ListRolledBack, ReparseOldDisk
     DEF RollingBack, SwclListFileRollbackToA

-----------------------------------------------------------------------------
(***************************************************************************)
(* Cleaning up.                                                            *)
(***************************************************************************)

\* The work ends in Idle with the A files and nothing else.
LEMMA BecomesIdle ==
  ASSUME DiskTypes, Files, OnA, BaseIsCur,
         \A c \in Cluster : ~Updated(c) /\ dirs[c] = {swcl[c].cur},
         UNCHANGED <<diskVars, lastBoot, lastList, run>>,
         st' = "Idle", pc' = "none", acts' = {}
  PROVE  DiskInv'
<1>1. DiskTypes' /\ Files' /\ OnA' /\ BaseIsCur'
  BY SameFiles
<1>2. Pending'
  BY DEF Pending, Announced, Updated, diskVars
<1>3. AllPresent
  BY DEF AllPresent, Present, Updated, DiskTypes, SwclStatus, Version
<1>4. AllPresent'
  BY <1>3, SameFiles
<1> QED
  BY <1>1, <1>2, <1>4 DEF DiskInv, PhaseOfState, PhaseOfStep, Ordinary

LEMMA BootCleaned == ControlInv /\ DiskInv /\ BootOptionFileCleanupA => DiskInv'
<1> SUFFICES ASSUME ControlInv, DiskInv, BootOptionFileCleanupA
             PROVE  DiskInv'
  OBVIOUS
<1>1. st = "CleaningUp" /\ pc = "cleanup" /\ final = "Commit"
  BY DEF BootOptionFileCleanupA, ControlInv, StepsBelong, ControlTypes, States
<1>2. DiskTypes /\ Files /\ OnTheWayToB
  BY <1>1 DEF DiskInv, PhaseOfState, Committing
<1>3. /\ UNCHANGED <<list, link, dirs, swcl, lastList, run, acts, changed, st, final>>
      /\ pc' = "clList"
  BY DEF BootOptionFileCleanupA
<1>4. AB(boot, lastBoot, swcl["core"], dirs["core"]) /\ swcl["core"] \in SwclStatus
  BY <1>2, FilesAB
<1>5. /\ AB(boot', lastBoot', swcl["core"], dirs["core"])
      /\ DOMAIN boot' = {lastBoot'} /\ boot'[lastBoot'] = Target("core")
      /\ \E i \in DOMAIN boot : boot'[lastBoot'] = boot[i]
  <2>1. CASE Updated("core") /\ Cardinality(DOMAIN boot) = 2
    <3>1. DOMAIN boot = {lastBoot, lastBoot + 1} /\ boot[lastBoot + 1] = swcl["core"].new
      BY <1>4, <2>1, ABTwo
    <3>2. Min(DOMAIN boot) = lastBoot /\ Max(DOMAIN boot) = lastBoot + 1
      BY <1>4, <2>1, ABTwo
    <3>3. boot' = Without(boot, lastBoot) /\ lastBoot' = lastBoot + 1
      BY <2>1, <3>2 DEF BootOptionFileCleanupA, LastUsedAfter
    <3>4. LET g == Without(boot, lastBoot)
          IN  /\ AB(g, lastBoot + 1, swcl["core"], dirs["core"])
              /\ DOMAIN g = {lastBoot + 1} /\ g[lastBoot + 1] = swcl["core"].new
      BY <1>4, <3>1, ABDropA
    <3> QED
      BY <2>1, <3>1, <3>3, <3>4 DEF Target
  <2>2. CASE ~(Updated("core") /\ Cardinality(DOMAIN boot) = 2)
    <3>1. boot' = boot /\ lastBoot' = lastBoot
      BY <2>2 DEF BootOptionFileCleanupA
    <3>2. DOMAIN boot = {lastBoot}
      BY <1>4, <2>2, ABMinMax, ABOnlyA DEF Updated
    <3> QED
      BY <1>2, <1>4, <3>1, <3>2 DEF OnTheWayToB, BootA
  <2> QED
    BY <2>1, <2>2
<1>6. DiskTypes'
  BY <1>2, <1>3 DEF DiskTypes
<1>7. Files'
  BY <1>2, <1>3, <1>5 DEF Files, Links
<1>8. BootA' /\ (ListA' <=> ListA)
  BY <1>3, <1>5 DEF BootA, ListA
<1>9. OnTheWayToB'
  BY <1>2, <1>3, <1>5, <1>8
     DEF OnTheWayToB, Announced, NoOther, Target, Updated
<1>10. PhaseOfState' /\ PhaseOfStep'
  BY <1>1, <1>3, <1>8, <1>9 DEF DiskInv, PhaseOfState, PhaseOfStep, Committing
<1> QED
  BY <1>6, <1>7, <1>10 DEF DiskInv

LEMMA ListCleaned == ControlInv /\ DiskInv /\ SwclListFileCleanupA => DiskInv'
<1> SUFFICES ASSUME ControlInv, DiskInv, SwclListFileCleanupA
             PROVE  DiskInv'
  OBVIOUS
<1>1. st = "CleaningUp" /\ pc = "clList" /\ final = "Commit"
  BY DEF SwclListFileCleanupA, ControlInv, StepsBelong, ControlTypes, States, CommitBelongs
<1>2. DiskTypes /\ Files /\ OnTheWayToB /\ BootA
  BY <1>1 DEF DiskInv, PhaseOfState, Committing
<1>3. /\ UNCHANGED <<boot, link, dirs, swcl, lastBoot, run, acts, changed, st, final>>
      /\ pc' = "commit"
  BY DEF SwclListFileCleanupA
<1>4. AB(list, lastList, swcl["app"], dirs["app"]) /\ swcl["app"] \in SwclStatus
  BY <1>2, FilesAB
<1>5. /\ AB(list', lastList', swcl["app"], dirs["app"])
      /\ DOMAIN list' = {lastList'} /\ list'[lastList'] = Target("app")
      /\ link[Target("core")] = lastList'
  <2>1. CASE Updated("app") /\ Cardinality(DOMAIN list) = 2
    <3>1. DOMAIN list = {lastList, lastList + 1} /\ list[lastList + 1] = swcl["app"].new
          /\ ~ListA
      BY <1>4, <2>1, ABTwo DEF ListA
    <3>2. Min(DOMAIN list) = lastList /\ Max(DOMAIN list) = lastList + 1
      BY <1>4, <2>1, ABTwo
    <3>3. list' = Without(list, lastList) /\ lastList' = lastList + 1
      BY <2>1, <3>2 DEF SwclListFileCleanupA, LastUsedAfter
    <3>4. LET g == Without(list, lastList)
          IN  /\ AB(g, lastList + 1, swcl["app"], dirs["app"])
              /\ DOMAIN g = {lastList + 1} /\ g[lastList + 1] = swcl["app"].new
      BY <1>4, <3>1, ABDropA
    <3> QED
      BY <1>2, <2>1, <3>1, <3>3, <3>4 DEF Target, OnTheWayToB
  <2>2. CASE ~(Updated("app") /\ Cardinality(DOMAIN list) = 2)
    <3>1. list' = list /\ lastList' = lastList
      BY <2>2 DEF SwclListFileCleanupA
    <3>2. DOMAIN list = {lastList}
      BY <1>4, <2>2, ABMinMax, ABOnlyA DEF Updated
    <3> QED
      BY <1>2, <1>4, <3>1, <3>2 DEF OnTheWayToB, ListA
  <2> QED
    BY <2>1, <2>2
<1>6. DiskTypes'
  BY <1>2, <1>3 DEF DiskTypes
<1>7. BootA' /\ ListA' /\ boot[lastBoot] = Target("core")
  BY <1>2, <1>3, <1>5 DEF BootA, ListA, OnTheWayToB
<1>8. Files'
  BY <1>2, <1>3, <1>5, <1>7 DEF Files, Links, BootA
<1>9. OnTheWayToB'
  BY <1>2, <1>3, <1>5, <1>7
     DEF OnTheWayToB, Announced, NoOther, Target, Updated
<1>10. PhaseOfState' /\ PhaseOfStep'
  BY <1>1, <1>3, <1>7, <1>9 DEF DiskInv, PhaseOfState, PhaseOfStep, Committing
<1> QED
  BY <1>6, <1>8, <1>10 DEF DiskInv

\* The versions a set of directories is reduced to: the one in use stays.
LEMMA ReducedFiles ==
  ASSUME DiskTypes, Files, BootA, ListA, NEW c \in Cluster, NEW v \in dirs[c],
         c = "core" => boot[lastBoot] = v, c = "app" => list[lastList] = v,
         dirs' = Only(c, v), link' = LinkOnly(c, v),
         UNCHANGED <<boot, list, swcl, lastBoot, lastList, run>>
  PROVE  /\ DiskTypes' /\ Files' /\ dirs'[c] = {v}
         /\ \A k \in Cluster : k # c => dirs'[k] = dirs[k]
         /\ boot[lastBoot] \in DOMAIN link' /\ link'[boot[lastBoot]] = link[boot[lastBoot]]
<1>1. /\ dirs'[c] = {v} /\ \A k \in Cluster : k # c => dirs'[k] = dirs[k]
      /\ dirs' \in [Cluster -> SUBSET Version]
  BY DEF Only, DiskTypes
<1>2. DiskTypes'
  BY <1>1 DEF DiskTypes
<1>3. boot[lastBoot] \in DOMAIN link /\ link[boot[lastBoot]] \in DOMAIN list
  BY FilesAB DEF Files, Links
<1>4. /\ boot[lastBoot] \in DOMAIN link' /\ link'[boot[lastBoot]] = link[boot[lastBoot]]
      /\ link' \in [DOMAIN link' -> Ids] /\ DOMAIN link' \subseteq dirs'["core"]
  <2>1. CASE c = "core"
    BY <1>1, <1>3, <2>1 DEF LinkOnly, Files, Links
  <2>2. CASE c = "app"
    BY <1>1, <1>3, <2>2 DEF LinkOnly, Files, Links, Cluster
  <2> QED
    BY <2>1, <2>2 DEF Cluster
<1>5. Links'
  BY <1>3, <1>4 DEF Links, BootA
<1>6. AB(boot, lastBoot, swcl["core"], dirs'["core"]) /\ AB(list, lastList, swcl["app"], dirs'["app"])
  <2>1. \A i \in DOMAIN boot : boot[i] \in dirs'["core"]
    BY <1>1, FilesAB DEF BootA, Cluster
  <2>2. \A i \in DOMAIN list : list[i] \in dirs'["app"]
    BY <1>1, FilesAB DEF ListA, Cluster
  <2> QED
    BY <2>1, <2>2, FilesAB, ABDirs
<1> QED
  BY <1>1, <1>2, <1>4, <1>5, <1>6 DEF Files

LEMMA CommitChangesDisk ==
  ASSUME ControlInv, DiskInv, NEW a \in acts, CommitChanges(a)
  PROVE  DiskInv'
<1>1. /\ st = "CleaningUp" /\ pc = "commit" /\ final = "Commit"
      /\ a[1] \in Cluster /\ a[2] \in Version /\ a = <<a[1], a[2]>>
  BY DEF CommitChanges, ControlInv, StepsBelong, ControlTypes, States, CommitBelongs
<1>2. DiskTypes /\ Files /\ OnTheWayToB /\ BootA /\ ListA
  BY <1>1 DEF DiskInv, PhaseOfState, Committing
<1>3. /\ UNCHANGED <<boot, list, lastBoot, lastList, run, acts, changed, st, final, verifier>>
      /\ pc' = "commit" /\ a[2] \in dirs[a[1]]
  BY <1>1 DEF CommitChanges
<1>4. /\ a[2] = Target(a[1])
      /\ boot[lastBoot] = Target("core") /\ list[lastList] = Target("app")
      /\ link[Target("core")] = lastList
  BY <1>2 DEF OnTheWayToB
<1>5. CASE dirs[a[1]] # {a[2]}
  <2>1. dirs' = Only(a[1], a[2]) /\ link' = LinkOnly(a[1], a[2]) /\ UNCHANGED swcl
    BY <1>5 DEF CommitChanges
  <2>2. /\ DiskTypes' /\ Files' /\ dirs'[a[1]] = {a[2]}
        /\ \A k \in Cluster : k # a[1] => dirs'[k] = dirs[k]
        /\ link'[boot[lastBoot]] = link[boot[lastBoot]]
    <3>1. /\ a[1] = "core" => boot[lastBoot] = a[2]
          /\ a[1] = "app" => list[lastList] = a[2]
      BY <1>4
    <3> QED
      BY <1>1, <1>2, <1>3, <2>1, <3>1, ReducedFiles
  <2>3. OnTheWayToB' /\ BootA' /\ ListA'
    <3>1. NoOther'
      BY <1>1, <1>2, <1>3, <2>1, <2>2 DEF OnTheWayToB, NoOther
    <3>2. \A k \in Cluster : (\A b \in acts : b[1] # k) => dirs'[k] = {swcl[k].cur}
      BY <1>2, <2>2 DEF OnTheWayToB
    <3>3. BootA' /\ ListA'
      BY <1>2, <1>3 DEF BootA, ListA
    <3> QED
      BY <1>2, <1>3, <1>4, <2>1, <2>2, <3>1, <3>2, <3>3
         DEF OnTheWayToB, Announced, Target, Updated
  <2> QED
    BY <1>1, <1>3, <2>2, <2>3 DEF DiskInv, PhaseOfState, PhaseOfStep, Committing
<1>6. CASE dirs[a[1]] = {a[2]}
  <2>1. /\ swcl' = [swcl EXCEPT ![a[1]] = [cur |-> a[2], new |-> 0]]
        /\ UNCHANGED <<dirs, link>> /\ Updated(a[1])
    BY <1>6 DEF CommitChanges
  <2>2. /\ swcl'[a[1]] = [cur |-> a[2], new |-> 0]
        /\ \A k \in Cluster : k # a[1] => swcl'[k] = swcl[k]
        /\ swcl' \in [Cluster -> SwclStatus]
    BY <1>1, <1>2, <2>1 DEF DiskTypes, SwclStatus, Version
  <2>3. \A k \in Cluster : Target(k)' = Target(k)
    BY <1>1, <1>4, <2>2 DEF Target, Updated
  <2>4. Files'
    <3>1. AB(boot, lastBoot, swcl'["core"], dirs["core"])
      <4>1. CASE a[1] = "core"
        BY <1>2, <1>4, <2>2, <4>1, FilesAB, ABStatus DEF BootA
      <4>2. CASE a[1] # "core"
        BY <1>2, <2>2, <4>2, FilesAB DEF Cluster
      <4> QED
        BY <4>1, <4>2
    <3>2. AB(list, lastList, swcl'["app"], dirs["app"])
      <4>1. CASE a[1] = "app"
        BY <1>2, <1>4, <2>2, <4>1, FilesAB, ABStatus DEF ListA
      <4>2. CASE a[1] # "app"
        BY <1>2, <2>2, <4>2, FilesAB DEF Cluster
      <4> QED
        BY <4>1, <4>2
    <3> QED
      BY <1>2, <1>3, <2>1, <3>1, <3>2 DEF Files, Links
  <2>5. DiskTypes'
    BY <1>2, <1>3, <2>1, <2>2 DEF DiskTypes
  <2>6. OnTheWayToB' /\ BootA' /\ ListA'
    <3>1. Announced'
      BY <1>1, <1>2, <1>3, <2>2 DEF OnTheWayToB, Announced, Updated
    <3>2. NoOther'
      BY <1>1, <1>2, <1>6, <2>1, <2>2 DEF OnTheWayToB, NoOther
    <3>3. \A k \in Cluster : (\A b \in acts : b[1] # k) => dirs[k] = {swcl'[k].cur}
      BY <1>2, <2>2 DEF OnTheWayToB
    <3>4. \A b \in acts : b[2] = Target(b[1])'
      BY <1>2, <2>3 DEF OnTheWayToB, ControlInv, ControlTypes
    <3>5. BootA' /\ ListA'
      BY <1>2, <1>3 DEF BootA, ListA
    <3>6. Target("core")' = Target("core") /\ Target("app")' = Target("app")
      BY <2>3 DEF Cluster
    <3> QED
      BY <1>3, <1>4, <2>1, <3>1, <3>2, <3>3, <3>4, <3>5, <3>6 DEF OnTheWayToB
  <2> QED
    BY <1>1, <1>3, <2>4, <2>5, <2>6 DEF DiskInv, PhaseOfState, PhaseOfStep, Committing
<1> QED
  BY <1>5, <1>6

LEMMA RevertChangesDisk ==
  ASSUME ControlInv, DiskInv, NEW a \in acts, RevertChanges(a)
  PROVE  DiskInv'
<1> DEFINE c == a[1]
           v == a[2]
<1>1. /\ st = "CleaningUp" /\ pc = "cleanup" /\ final = "Revert"
      /\ c \in Cluster /\ v \in Version /\ acts \subseteq Cluster \X Version
  BY DEF RevertChanges, ControlInv, StepsBelong, ControlTypes, States
<1>2. DiskTypes /\ Files /\ Reverting /\ OnA /\ BaseIsCur /\ Announced /\ NoOther
  BY <1>1 DEF DiskInv, PhaseOfState, Reverting
<1>3. /\ UNCHANGED <<boot, list, lastBoot, lastList, run, acts, changed, st, final, verifier>>
      /\ pc' = "cleanup"
  BY <1>1 DEF RevertChanges
<1>4. v > swcl[c].cur /\ swcl[c].new \in {0, v} /\ swcl[c].cur \in Version
  BY <1>1, <1>2 DEF Reverting, DiskTypes, SwclStatus
<1>5. CASE v \in dirs[c]
  <2>1. /\ dirs' = [dirs EXCEPT ![c] = @ \ {v}]
        /\ link' = (IF c = "core" THEN Without(link, v) ELSE link)
        /\ UNCHANGED swcl
    BY <1>5 DEF RevertChanges
  <2>2. /\ dirs'["core"] = dirs["core"] \ (IF c = "core" THEN {v} ELSE {})
        /\ dirs'["app"] = dirs["app"] \ (IF c = "app" THEN {v} ELSE {})
    BY <1>1, <1>2, <2>1 DEF DiskTypes, Cluster
  <2>3. DiskTypes'
    BY <1>1, <1>2, <1>3, <2>1 DEF DiskTypes
  <2>4. /\ c = "core" => boot[lastBoot] # v /\ boot[lastBoot] \in DOMAIN link
        /\ c = "app" => list[lastList] # v
    BY <1>2, <1>4, FilesAB DEF BaseIsCur, Files, Links, Version
  <2>5. BootA' /\ ListA' /\ BaseIsCur'
    BY <1>2, <1>3, <2>1 DEF OnA, BootA, ListA, BaseIsCur
  <2>6. Links' /\ LinkA'
    <3>1. CASE c = "core"
      BY <1>2, <1>3, <2>1, <2>2, <2>4, <3>1 DEF Files, Links, LinkA, OnA, BootA, Without
    <3>2. CASE c # "core"
      BY <1>2, <1>3, <2>1, <2>2, <3>2 DEF Files, Links, LinkA, OnA, BootA
    <3> QED
      BY <3>1, <3>2
  <2>7. Files'
    <3>1. /\ AB(boot, lastBoot, swcl["core"], dirs'["core"])
          /\ AB(list, lastList, swcl["app"], dirs'["app"])
      BY <1>2, <2>2, <2>4, FilesAB, ABDirs DEF OnA, BootA, ListA
    <3> QED
      BY <1>3, <2>1, <2>6, <3>1 DEF Files
  <2>8. Reverting'
    <3>1. NoOther'
      BY <1>1, <1>2, <2>1 DEF NoOther, DiskTypes
    <3> QED
      BY <1>2, <1>3, <2>1, <2>5, <2>6, <3>1 DEF Reverting, Announced, Updated, OnA
  <2> QED
    BY <1>1, <1>3, <2>3, <2>7, <2>8 DEF DiskInv, PhaseOfState, PhaseOfStep
<1>6. CASE v \notin dirs[c]
  <2>1. /\ swcl' = [swcl EXCEPT ![c].new = 0]
        /\ UNCHANGED <<dirs, link>> /\ Updated(c)
    BY <1>6 DEF RevertChanges
  <2>2. /\ swcl'[c] = [cur |-> swcl[c].cur, new |-> 0]
        /\ \A k \in Cluster : k # c => swcl'[k] = swcl[k]
        /\ swcl' \in [Cluster -> SwclStatus]
    BY <1>1, <1>2, <2>1 DEF DiskTypes, SwclStatus
  <2>3. DiskTypes'
    BY <1>2, <1>3, <2>1, <2>2 DEF DiskTypes
  <2>4. OnA' /\ BaseIsCur'
    BY <1>1, <1>2, <1>3, <2>1, <2>2 DEF OnA, BootA, ListA, LinkA, BaseIsCur, Cluster
  <2>5. Files'
    <3>1. AB(boot, lastBoot, swcl'["core"], dirs["core"])
      <4>1. CASE c = "core"
        BY <1>2, <2>2, <4>1, FilesAB, ABStatus DEF OnA, BootA, BaseIsCur
      <4>2. CASE c # "core"
        BY <1>2, <2>2, <4>2, FilesAB DEF Cluster
      <4> QED
        BY <4>1, <4>2
    <3>2. AB(list, lastList, swcl'["app"], dirs["app"])
      <4>1. CASE c = "app"
        BY <1>2, <2>2, <4>1, FilesAB, ABStatus DEF OnA, ListA, BaseIsCur
      <4>2. CASE c # "app"
        BY <1>2, <2>2, <4>2, FilesAB DEF Cluster
      <4> QED
        BY <4>1, <4>2
    <3> QED
      BY <1>2, <1>3, <2>1, <3>1, <3>2 DEF Files, Links
  <2>6. Reverting'
    <3>1. Announced'
      BY <1>1, <1>2, <1>3, <2>2 DEF Announced, Updated
    <3>2. swcl[c].new = v
      BY <1>4, <2>1 DEF Updated
    <3>3. NoOther'
      BY <1>1, <1>2, <1>6, <2>1, <2>2, <3>2 DEF NoOther
    <3>4. \A b \in acts : swcl'[b[1]].new \in {0, b[2]} /\ b[2] > swcl'[b[1]].cur
      BY <1>1, <1>2, <2>2 DEF Reverting
    <3> QED
      BY <1>3, <2>4, <3>1, <3>3, <3>4 DEF Reverting
  <2> QED
    BY <1>1, <1>3, <2>3, <2>5, <2>6 DEF DiskInv, PhaseOfState, PhaseOfStep
<1> QED
  BY <1>5, <1>6

LEMMA CommitDoneDisk == ControlInv /\ DiskInv /\ CommitDone => DiskInv'
<1> SUFFICES ASSUME ControlInv, DiskInv, CommitDone
             PROVE  DiskInv'
  OBVIOUS
<1>1. st = "CleaningUp" /\ pc = "commit" /\ final = "Commit" /\ acts \subseteq Cluster \X Version
  BY DEF CommitDone, ControlInv, StepsBelong, ControlTypes, States, CommitBelongs
<1>2. DiskTypes /\ Files /\ OnTheWayToB /\ BootA /\ ListA /\ Announced
  BY <1>1 DEF DiskInv, PhaseOfState, Committing, OnTheWayToB
<1>3. /\ UNCHANGED <<diskVars, lastBoot, lastList, run>>
      /\ st' = "Idle" /\ pc' = "none" /\ acts' = {}
      /\ \A a \in acts : dirs[a[1]] = {a[2]} /\ ~Updated(a[1])
  BY DEF CommitDone
<1>4. ASSUME NEW c \in Cluster
      PROVE  ~Updated(c) /\ dirs[c] = {swcl[c].cur}
  <2>1. ~Updated(c)
    <3>1. SUFFICES ASSUME Updated(c) PROVE FALSE
      OBVIOUS
    <3>2. <<c, swcl[c].new>> \in acts
      BY <1>2, <3>1 DEF Announced
    <3> QED
      BY <1>3, <3>1, <3>2
  <2>2. CASE \A a \in acts : a[1] # c
    BY <1>2, <2>1, <2>2 DEF OnTheWayToB
  <2>3. CASE \E a \in acts : a[1] = c
    BY <1>2, <1>3, <2>1, <2>3 DEF OnTheWayToB, Target
  <2> QED
    BY <2>1, <2>2, <2>3
<1>5. Target("core") = swcl["core"].cur /\ Target("app") = swcl["app"].cur
  BY <1>4 DEF Target, Cluster
<1>6. OnA /\ BaseIsCur
  BY <1>2, <1>5 DEF OnTheWayToB, OnA, BootA, ListA, LinkA, BaseIsCur
<1> QED
  BY <1>2, <1>3, <1>4, <1>6, BecomesIdle

LEMMA RevertDoneDisk == ControlInv /\ DiskInv /\ RevertDone => DiskInv'
<1> SUFFICES ASSUME ControlInv, DiskInv, RevertDone
             PROVE  DiskInv'
  OBVIOUS
<1>1. st = "CleaningUp" /\ pc = "cleanup" /\ final = "Revert"
  BY DEF RevertDone, ControlInv, StepsBelong, ControlTypes, States
<1>2. DiskTypes /\ Files /\ Announced /\ NoOther /\ OnA /\ BaseIsCur
  BY <1>1 DEF DiskInv, PhaseOfState, Reverting
<1>3. /\ UNCHANGED <<diskVars, lastBoot, lastList, run>>
      /\ st' = "Idle" /\ pc' = "none" /\ acts' = {}
      /\ \A a \in acts : a[2] \notin dirs[a[1]] /\ ~Updated(a[1])
  BY DEF RevertDone
<1>4. ASSUME NEW c \in Cluster
      PROVE  ~Updated(c) /\ dirs[c] = {swcl[c].cur}
  <2>1. ~Updated(c)
    <3>1. SUFFICES ASSUME Updated(c) PROVE FALSE
      OBVIOUS
    <3>2. <<c, swcl[c].new>> \in acts
      BY <1>2, <3>1 DEF Announced
    <3> QED
      BY <1>3, <3>1, <3>2
  <2>2. swcl[c].cur \in dirs[c]
    BY <1>2, FilesAB DEF BaseIsCur, Cluster
  <2>3. dirs[c] \subseteq Version /\ dirs[c] \subseteq {swcl[c].cur, 0}
    BY <1>2, <2>1 DEF NoOther, Updated, DiskTypes
  <2> QED
    BY <2>1, <2>2, <2>3 DEF Version
<1> QED
  BY <1>2, <1>3, <1>4, BecomesIdle

LEMMA CleaningUpDisk == ControlInv /\ DiskInv /\ CleaningUp => DiskInv'
BY BootCleaned, ListCleaned, CommitChangesDisk, RevertChangesDisk, CommitDoneDisk, RevertDoneDisk
   DEF CleaningUp

-----------------------------------------------------------------------------
(***************************************************************************)
(* The way back to Idle when the status file cannot be trusted.            *)
(***************************************************************************)
LEMMA ExceptionBoot == ControlInv /\ DiskInv /\ BootOptionFileExceptionRollbackToA => DiskInv'
<1> SUFFICES ASSUME ControlInv, DiskInv, BootOptionFileExceptionRollbackToA
             PROVE  DiskInv'
  OBVIOUS
<1>1. st = "ExceptionRollingBack" /\ pc = "exBoot"
  BY DEF BootOptionFileExceptionRollbackToA, ControlInv, StepsBelong, ControlTypes, States
<1>2. DiskTypes /\ Files /\ acts = {}
  BY <1>1 DEF DiskInv, PhaseOfState, Excepted
<1>3. /\ boot' = Without(boot, NextId(lastBoot))
      /\ UNCHANGED <<list, link, dirs, swcl, lastBoot, lastList, run, acts, changed, st>>
      /\ pc' = "exLink"
  BY DEF BootOptionFileExceptionRollbackToA
<1>4. /\ AB(boot', lastBoot, swcl["core"], dirs["core"])
      /\ DOMAIN boot' = {lastBoot} /\ boot'[lastBoot] = boot[lastBoot]
  <2>1. AB(boot, lastBoot, swcl["core"], dirs["core"]) /\ swcl["core"] \in SwclStatus
    BY <1>2, FilesAB
  <2> QED
    BY <1>3, <2>1, ABDropB
<1>5. DiskTypes'
  BY <1>2, <1>3 DEF DiskTypes
<1>6. Files' /\ BootA'
  BY <1>2, <1>3, <1>4, FilesAB DEF Files, Links, BootA
<1>7. PhaseOfState' /\ PhaseOfStep'
  BY <1>1, <1>2, <1>3, <1>6 DEF PhaseOfState, PhaseOfStep, Excepted
<1> QED
  BY <1>5, <1>6, <1>7 DEF DiskInv

LEMMA ExceptionLink ==
  ControlInv /\ DiskInv /\ At("exLink") /\ SwclListFileExceptionRollbackToA => DiskInv'
<1> SUFFICES ASSUME ControlInv, DiskInv, At("exLink"), SwclListFileExceptionRollbackToA
             PROVE  DiskInv'
  OBVIOUS
<1>1. st = "ExceptionRollingBack" /\ pc = "exLink"
  BY DEF ControlInv, StepsBelong, ControlTypes, States
<1>2. DiskTypes /\ Files /\ acts = {} /\ BootA
  BY <1>1 DEF DiskInv, PhaseOfState, Excepted
<1>3. /\ link' = With(link, boot[lastBoot], lastList)
      /\ UNCHANGED <<boot, list, dirs, swcl, lastBoot, lastList, run, acts, changed, st>>
      /\ pc' = "exList"
  BY DEF SwclListFileExceptionRollbackToA
<1>4. /\ DOMAIN link' = DOMAIN link \cup {boot[lastBoot]} /\ link'[boot[lastBoot]] = lastList
      /\ link' \in [DOMAIN link' -> Ids] /\ boot[lastBoot] \in dirs["core"]
      /\ lastList \in DOMAIN list
  BY <1>2, <1>3, FilesAB DEF With, Files, Links
<1>5. DiskTypes'
  BY <1>2, <1>3 DEF DiskTypes
<1>6. Files'
  BY <1>2, <1>3, <1>4 DEF Files, Links, BootA
<1>7. BootA' /\ LinkA'
  BY <1>2, <1>3, <1>4 DEF BootA, LinkA
<1>8. PhaseOfState' /\ PhaseOfStep'
  BY <1>1, <1>2, <1>3, <1>7 DEF PhaseOfState, PhaseOfStep, Excepted
<1> QED
  BY <1>5, <1>6, <1>8 DEF DiskInv

LEMMA ExceptionList ==
  ControlInv /\ DiskInv /\ At("exList") /\ SwclListFileExceptionRollbackToA => DiskInv'
<1> SUFFICES ASSUME ControlInv, DiskInv, At("exList"), SwclListFileExceptionRollbackToA
             PROVE  DiskInv'
  OBVIOUS
<1>1. st = "ExceptionRollingBack" /\ pc = "exList"
  BY DEF ControlInv, StepsBelong, ControlTypes, States
<1>2. DiskTypes /\ Files /\ acts = {} /\ BootA /\ LinkA
  BY <1>1 DEF DiskInv, PhaseOfState, Excepted
<1>3. /\ list' = Without(list, NextId(lastList))
      /\ UNCHANGED <<boot, link, dirs, swcl, lastBoot, lastList, run, acts, changed, st>>
      /\ pc' = "exDone"
  BY DEF SwclListFileExceptionRollbackToA
<1>4. /\ AB(list', lastList, swcl["app"], dirs["app"])
      /\ DOMAIN list' = {lastList} /\ list'[lastList] = list[lastList]
  <2>1. AB(list, lastList, swcl["app"], dirs["app"]) /\ swcl["app"] \in SwclStatus
    BY <1>2, FilesAB
  <2> QED
    BY <1>3, <2>1, ABDropB
<1>5. DiskTypes'
  BY <1>2, <1>3 DEF DiskTypes
<1>6. Files'
  BY <1>2, <1>3, <1>4 DEF Files, Links, BootA, LinkA
<1>7. OnA' /\ BootA' /\ LinkA'
  BY <1>2, <1>3, <1>4 DEF OnA, BootA, ListA, LinkA
<1>8. PhaseOfState' /\ PhaseOfStep'
  BY <1>1, <1>2, <1>3, <1>7 DEF PhaseOfState, PhaseOfStep, Excepted
<1> QED
  BY <1>5, <1>6, <1>8 DEF DiskInv

\* Only the version of the A file is kept of a cluster.
LEMMA CleanSwclDisk ==
  ASSUME ControlInv, DiskInv, NEW c \in Cluster, NEW v, NEW next \in {"exApp", "exEnd"},
         CleanSwcl(c, v, next), ~saving,
         \/ c = "core" /\ pc = "exCore" /\ v = boot[lastBoot] /\ next = "exApp"
         \/ c = "app" /\ pc = "exApp" /\ v = list[lastList] /\ next = "exEnd"
  PROVE  DiskInv'
<1>1. st = "ExceptionCleaningUp" /\ pc \in {"exCore", "exApp"}
  BY DEF ControlInv, StepsBelong, ControlTypes, States
<1>2. DiskTypes /\ Files /\ acts = {} /\ OnA /\ BootA /\ ListA
  BY <1>1 DEF DiskInv, PhaseOfState, Excepted, OnA
<1>3. UNCHANGED <<boot, list, lastBoot, lastList, run, acts, changed, st>>
  BY DEF CleanSwcl
<1>4. v \in dirs[c] /\ v \in Version
  BY <1>2, FilesAB
<1>5. (c = "core" => boot[lastBoot] = v) /\ (c = "app" => list[lastList] = v)
  BY <1>1
<1>6. pc = "exApp" => Cleaned("core", boot[lastBoot]) /\ c = "app"
  BY <1>1 DEF DiskInv, PhaseOfState, Excepted
<1>7. CASE dirs[c] # {v}
  <2>1. dirs' = Only(c, v) /\ link' = LinkOnly(c, v) /\ UNCHANGED <<swcl, pc>>
    BY <1>7 DEF CleanSwcl
  <2>2. /\ DiskTypes' /\ Files' /\ link'[boot[lastBoot]] = link[boot[lastBoot]]
        /\ \A k \in Cluster : k # c => dirs'[k] = dirs[k]
    BY <1>2, <1>3, <1>4, <1>5, <2>1, ReducedFiles
  <2>3. OnA'
    BY <1>2, <1>3, <2>2 DEF OnA, BootA, ListA, LinkA
  <2>4. pc = "exApp" => Cleaned("core", boot[lastBoot])'
    BY <1>3, <1>6, <2>1, <2>2 DEF Cleaned, Cluster
  <2>5. PhaseOfState' /\ PhaseOfStep'
    BY <1>1, <1>2, <1>3, <2>1, <2>3, <2>4 DEF PhaseOfState, PhaseOfStep, Excepted
  <2> QED
    BY <2>2, <2>5 DEF DiskInv
<1>8. CASE dirs[c] = {v}
  <2>1. /\ swcl' = [swcl EXCEPT ![c] = [cur |-> v, new |-> 0]]
        /\ UNCHANGED <<link, dirs>> /\ pc' = next
    BY <1>8 DEF CleanSwcl
  <2>2. /\ swcl'[c] = [cur |-> v, new |-> 0]
        /\ \A k \in Cluster : k # c => swcl'[k] = swcl[k]
        /\ swcl' \in [Cluster -> SwclStatus]
    BY <1>2, <1>4, <2>1 DEF DiskTypes, SwclStatus
  <2>3. DiskTypes'
    BY <1>2, <1>3, <2>1, <2>2 DEF DiskTypes
  <2>4. Files'
    <3>1. AB(boot, lastBoot, swcl'["core"], dirs["core"])
      <4>1. CASE c = "core"
        BY <1>2, <1>5, <2>2, <4>1, FilesAB, ABStatus DEF BootA
      <4>2. CASE c # "core"
        BY <1>2, <2>2, <4>2, FilesAB DEF Cluster
      <4> QED
        BY <4>1, <4>2
    <3>2. AB(list, lastList, swcl'["app"], dirs["app"])
      <4>1. CASE c = "app"
        BY <1>2, <1>5, <2>2, <4>1, FilesAB, ABStatus DEF ListA
      <4>2. CASE c # "app"
        BY <1>2, <2>2, <4>2, FilesAB DEF Cluster
      <4> QED
        BY <4>1, <4>2
    <3> QED
      BY <1>2, <1>3, <2>1, <3>1, <3>2 DEF Files, Links
  <2>5. OnA'
    BY <1>2, <1>3, <2>1 DEF OnA, BootA, ListA, LinkA
  <2>6. Cleaned("core", boot[lastBoot])'
    BY <1>1, <1>3, <1>5, <1>6, <1>8, <2>1, <2>2 DEF Cleaned, Cluster
  <2>7. next = "exEnd" => Cleaned("app", list[lastList])'
    BY <1>1, <1>3, <1>5, <1>8, <2>1, <2>2 DEF Cleaned
  <2>8. PhaseOfState' /\ PhaseOfStep'
    BY <1>1, <1>2, <1>3, <2>1, <2>5, <2>6, <2>7 DEF PhaseOfState, PhaseOfStep, Excepted
  <2> QED
    BY <2>3, <2>4, <2>8 DEF DiskInv
<1> QED
  BY <1>7, <1>8

LEMMA ExceptionDisk == ControlInv /\ DiskInv /\ Exception => DiskInv'
<1> SUFFICES ASSUME ControlInv, DiskInv, Exception
             PROVE  DiskInv'
  OBVIOUS
<1>1. CASE ExceptionPrepared \/ ExceptionRefused \/ ExceptionRolledBack
  <2>1. /\ UNCHANGED <<diskVars, lastBoot, lastList, run, acts, changed>>
        /\ st = "ExceptionRollingBack"
        /\ \/ st' = st /\ pc' \in {"exBoot", "none"}
           \/ pc = "exDone" /\ st' = "ExceptionCleaningUp" /\ pc' = "exReset"
    BY <1>1 DEF ExceptionPrepared, ExceptionRefused, ExceptionRolledBack,
                ControlInv, StepsBelong, ControlTypes, States
  <2>2. Excepted'
    BY <2>1, SameFiles DEF DiskInv, PhaseOfState, Excepted
  <2> QED
    BY <2>1, <2>2, SameFiles DEF DiskInv, PhaseOfState, PhaseOfStep
<1>2. CASE BootOptionFileExceptionCleanupB
  <2>1. CleanSwcl("core", boot[lastBoot], "exApp") /\ pc = "exCore" /\ ~saving
    BY <1>2 DEF BootOptionFileExceptionCleanupB
  <2> QED
    BY <2>1, CleanSwclDisk DEF Cluster
<1>3. CASE SwclListFileExceptionCleanupB
  <2>1. CleanSwcl("app", list[lastList], "exEnd") /\ pc = "exApp" /\ ~saving
    BY <1>3 DEF SwclListFileExceptionCleanupB
  <2> QED
    BY <2>1, CleanSwclDisk DEF Cluster
<1>4. CASE ExceptionCleanedUp
  <2>1. /\ UNCHANGED <<diskVars, lastBoot, lastList, run, acts>>
        /\ st = "ExceptionCleaningUp" /\ pc = "exEnd" /\ st' = "Idle" /\ pc' = "none"
    BY <1>4 DEF ExceptionCleanedUp, ControlInv, StepsBelong, ControlTypes, States
  <2>2. /\ DiskTypes /\ Files /\ acts = {} /\ OnA
        /\ Cleaned("core", boot[lastBoot]) /\ Cleaned("app", list[lastList])
    BY <2>1 DEF DiskInv, PhaseOfState, Excepted
  <2>3. BaseIsCur /\ \A c \in Cluster : ~Updated(c) /\ dirs[c] = {swcl[c].cur}
    BY <2>2 DEF BaseIsCur, Cleaned, Updated, Cluster
  <2> QED
    BY <2>1, <2>2, <2>3, BecomesIdle
<1> QED
  BY <1>1, <1>2, <1>3, <1>4, ExceptionBoot, ExceptionLink, ExceptionList
     DEF Exception, SwclListFileExceptionRollbackToA

-----------------------------------------------------------------------------
(***************************************************************************)
(* The verifier, the threads that wait for the lock, and the restart.      *)
(***************************************************************************)

\* The versions that came up are the new ones when both checks pass.
LEMMA ChecksSuffice ==
  ASSUME DiskTypes, Files, BaseIsCur, OnB, CameUp, RunsNewVersions
  PROVE  RunsB
<1>1. run.core = Target("core")
  <2>1. CASE Updated("core")
    BY <2>1 DEF RunsNewVersions
  <2>2. CASE ~Updated("core")
    <3>1. DOMAIN boot = {lastBoot}
      BY <2>2, FilesAB, ABOnlyA DEF Updated
    <3> QED
      BY <2>2, <3>1 DEF CameUp, BaseIsCur, Target
  <2> QED
    BY <2>1, <2>2
<1>2. run.app = Target("app")
  <2>1. CASE Updated("app")
    <3>1. run.list = lastList + 1 /\ DOMAIN list = {lastList, lastList + 1}
      BY <2>1 DEF RunsNewVersions, NextId, OnB, ListB
    <3>2. list[lastList + 1] = swcl["app"].new
      BY <3>1, FilesAB DEF AB
    <3> QED
      BY <2>1, <3>1, <3>2 DEF CameUp, Target
  <2>2. CASE ~Updated("app")
    <3>1. DOMAIN list = {lastList}
      BY <2>2, FilesAB, ABOnlyA DEF Updated
    <3> QED
      BY <2>2, <3>1 DEF CameUp, BaseIsCur, Target
  <2> QED
    BY <2>1, <2>2
<1> QED
  BY <1>1, <1>2 DEF RunsB

LEMMA VerifierDisk == ControlInv /\ DiskInv /\ Verifier => DiskInv'
<1> SUFFICES ASSUME ControlInv, DiskInv, Verifier
             PROVE  DiskInv'
  OBVIOUS
<1>1. /\ UNCHANGED <<diskVars, lastBoot, lastList, run, acts, changed, pkg>>
      /\ verifier /\ verifier' = FALSE
  BY DEF Verifier, VerifiedAfterReboot, FailedAfterReboot
<1>2. DiskTypes /\ Files /\ DiskTypes' /\ Files'
  BY <1>1, SameFiles DEF DiskInv
<1>3. CASE st # "Verifying"
  <2>1. UNCHANGED <<st, final, pc, md5>>
    BY <1>3 DEF Verifier, VerifiedAfterReboot, FailedAfterReboot
  <2>2. md5' /\ st = "RollingBack" => OnA
    BY <2>1 DEF DiskInv, PhaseOfState
  <2> QED
    BY <1>1, <2>1, <2>2, SamePhase
<1>4. CASE st = "Verifying" /\ VerifiedAfterReboot
  <2>1. st' = "Activated" /\ pc' = "none" /\ pc = "none"
    BY <1>4 DEF VerifiedAfterReboot, ControlInv, RestartBelongs
  <2>2. Ordinary /\ OnB
    BY <1>1, <1>4, <2>1 DEF DiskInv, PhaseOfState, PhaseOfStep
  <2>3. Ordinary' /\ OnB'
    BY <1>1, <2>1, <2>2, SameFiles, SameActs DEF Ordinary
  <2> QED
    BY <1>1, <1>2, <1>4, <2>1, <2>3 DEF DiskInv, PhaseOfState, PhaseOfStep
<1>5. CASE st = "Verifying" /\ FailedAfterReboot
  <2>1. st' = "RollingBack" /\ pc' = "rollback" /\ pc = "none" /\ ~md5'
    BY <1>5 DEF FailedAfterReboot, ControlInv, RestartBelongs
  <2>2. Ordinary' /\ OnB'
    BY <1>1, <1>5, <2>1, SameFiles, SameActs DEF DiskInv, PhaseOfState, PhaseOfStep, Ordinary
  <2> QED
    BY <1>1, <1>2, <1>5, <2>1, <2>2 DEF DiskInv, PhaseOfState, PhaseOfStep
<1> QED
  BY <1>3, <1>4, <1>5 DEF Verifier

LEMMA WaitingDisk == ControlInv /\ DiskInv /\ Waiting => DiskInv'
<1> SUFFICES ASSUME ControlInv, DiskInv, Waiting
             PROVE  DiskInv'
  OBVIOUS
<1>1. UNCHANGED <<diskVars, lastBoot, lastList, run, acts, changed, pkg, verifier>>
  BY DEF Waiting, OnProcessSwPackageFailed, NotCancelled, RevertSwitch
<1>2. DiskTypes /\ Files /\ DiskTypes' /\ Files' /\ acts \subseteq Cluster \X Version
  BY <1>1, SameFiles DEF DiskInv, ControlInv, ControlTypes
<1>3. CASE NotCancelled \/ (OnProcessSwPackageFailed /\ st # "Processing")
  <2>1. UNCHANGED <<st, final, pc, md5>>
    BY <1>3 DEF OnProcessSwPackageFailed, NotCancelled
  <2>2. md5' /\ st = "RollingBack" => OnA
    BY <2>1 DEF DiskInv, PhaseOfState
  <2> QED
    BY <1>1, <2>1, <2>2, SamePhase
<1>4. CASE OnProcessSwPackageFailed /\ st = "Processing"
  <2>1. /\ pc = "none" /\ pc' = "none"
        /\ st' = (IF changed THEN "Ready" ELSE "Idle")
    BY <1>4 DEF OnProcessSwPackageFailed, ControlInv, WaitingBelongs
  <2>2. Ordinary' /\ OnA'
    BY <1>1, <1>4, <2>1, SameFiles, SameActs DEF DiskInv, PhaseOfState, Ordinary
  <2>3. ~changed => acts' = {}
    BY <1>1 DEF DiskInv, PhaseOfState
  <2> QED
    BY <1>1, <1>2, <2>1, <2>2, <2>3 DEF DiskInv, PhaseOfState, PhaseOfStep
<1>5. CASE RevertSwitch
  <2>1. /\ st \in {"Processing", "Ready", "Idle"} /\ pc = "none"
        /\ st' = "CleaningUp" /\ final' = "Revert" /\ pc' = "cleanup"
    BY <1>5 DEF RevertSwitch, ControlInv, WaitingBelongs
  <2>2. Pending /\ BaseIsCur /\ AllPresent /\ OnA
    BY <2>1 DEF DiskInv, PhaseOfState, Ordinary
  <2>3. Reverting
    BY <1>2, <2>2, CanRevert
  <2>4. Reverting' /\ (st = "Idle" \/ ~changed => acts' = {})
    BY <1>1, <2>3, SameActs DEF DiskInv, PhaseOfState
  <2> QED
    BY <1>1, <1>2, <2>1, <2>4 DEF DiskInv, PhaseOfState, PhaseOfStep
<1> QED
  BY <1>3, <1>4, <1>5 DEF Waiting

-----------------------------------------------------------------------------
(***************************************************************************)
(* Restarts.                                                               *)
(***************************************************************************)

\* What the disk says does not depend on what runs.
LEMMA SameDisk ==
  ASSUME UNCHANGED <<diskVars, lastBoot, lastList>>
  PROVE  /\ (BootA' <=> BootA) /\ (ListA' <=> ListA) /\ (LinkA' <=> LinkA) /\ (OnA' <=> OnA)
         /\ (OnB' <=> OnB) /\ (BaseIsCur' <=> BaseIsCur)
         /\ (AllPresent' <=> AllPresent) /\ (NoOther' <=> NoOther)
<1> USE DEF diskVars
<1>1. (BootA' <=> BootA) /\ (ListA' <=> ListA) /\ (LinkA' <=> LinkA) /\ (OnA' <=> OnA)
  BY DEF BootA, ListA, LinkA, OnA
<1>2. OnB' <=> OnB
  BY DEF BootB, ListB, LinkB, OnB, Updated, Target
<1>3. BaseIsCur' <=> BaseIsCur
  BY DEF BaseIsCur
<1>4. (AllPresent' <=> AllPresent) /\ (NoOther' <=> NoOther)
  BY DEF AllPresent, Present, NoOther
<1> QED
  BY <1>1, <1>2, <1>3, <1>4

\* Every boot option can be started.
LEMMA EveryOptionStarts ==
  ASSUME DiskTypes, Files, NEW i \in DOMAIN boot
  PROVE  /\ CanStart(i)
         /\ Started(i).list \in DOMAIN list /\ Started(i).app = list[Started(i).list]
         /\ Started(i).core = boot[i]
         /\ Started(i) \in [core : Version, list : Ids, app : Version]
         /\ Started(i).core \in dirs["core"] /\ Started(i).app \in dirs["app"]
<1>1. /\ boot[i] \in Version /\ boot[i] \in dirs["core"]
      /\ \A j \in DOMAIN list : list[j] \in Version /\ list[j] \in dirs["app"]
  BY FilesAB
<1>2. boot[i] \in DOMAIN link /\ link[boot[i]] \in DOMAIN list /\ link[boot[i]] \in Ids
  BY DEF Files, Links
<1>3. Started(i) = [core |-> boot[i], list |-> link[boot[i]], app |-> list[link[boot[i]]]]
  BY DEF Started
<1>4. list[link[boot[i]]] \in Version /\ list[link[boot[i]]] \in dirs["app"]
  BY <1>1, <1>2
<1>5. CanStart(i)
  BY <1>1, <1>2, <1>4 DEF CanStart, CanLoad
<1> QED
  BY <1>1, <1>2, <1>3, <1>4, <1>5

\* On A the old versions come up, whichever file is taken.
LEMMA StartsA ==
  ASSUME DiskTypes, Files, OnA, NEW i \in DOMAIN boot
  PROVE  Started(i).core = boot[lastBoot] /\ Started(i).app = list[lastList]
<1>1. i = lastBoot /\ link[boot[lastBoot]] = lastList
  BY DEF OnA, BootA, LinkA
<1> QED
  BY <1>1 DEF Started

\* After a restart the package manager is in the phase it was in, when the status
\* file has its md5, and on the way back to A otherwise.
LEMMA RebootDisk == ControlInv /\ DiskInv /\ Reboot => DiskInv'
<1> SUFFICES ASSUME ControlInv, DiskInv, Reboot
             PROVE  DiskInv'
  OBVIOUS
<1>1. DiskTypes /\ Files
  BY DEF DiskInv
<1> PICK i \in LoaderChoices : run' = Started(i)
  BY DEF Reboot
<1>2. /\ i \in DOMAIN boot /\ UNCHANGED <<diskVars, lastBoot, lastList>>
      /\ saving' /\ ~md5'
  BY <1>1, LoaderFinds DEF Reboot
<1>3. DiskTypes' /\ Files' /\ CameUp'
  <2>1. /\ run' \in [core : Version, list : Ids, app : Version]
        /\ run'.core = boot[i] /\ run'.core \in dirs["core"] /\ run'.app \in dirs["app"]
        /\ run'.list \in DOMAIN list /\ run'.app = list[run'.list]
    BY <1>1, <1>2, EveryOptionStarts
  <2>2. DiskTypes' /\ CameUp'
    BY <1>1, <1>2, <2>1 DEF DiskTypes, CameUp, diskVars
  <2>3. Files'
    BY <1>1, <1>2, <2>2 DEF Files, AB, Links, diskVars
  <2> QED
    BY <2>2, <2>3
<1>4. OnA => RunsA'
  BY <1>1, <1>2, StartsA DEF RunsA, diskVars
<1>5. CASE ~md5
  <2>1. st' = "ExceptionRollingBack" /\ pc' = "excRollback" /\ acts' = {}
    BY <1>5 DEF Reboot, Recovered, ContinueIfNecessary
  <2>2. Excepted'
    BY <2>1 DEF Excepted
  <2> QED
    BY <1>2, <1>3, <2>1, <2>2 DEF DiskInv, PhaseOfState, PhaseOfStep
<1>6. CASE md5
  <2>1. /\ ~saving /\ st \in States \ {"Processing", "Activating", "ExceptionRollingBack"}
        /\ final \in {"Commit", "Revert"}
        /\ status = [st |-> st, final |-> final, acts |-> acts]
        /\ pc # "placed"
    BY <1>6 DEF ControlInv, ControlTypes, Saved, RecoverableStatus, StepsBelong, States
  <2>2. /\ st' = st /\ final' = final /\ acts' = acts
        /\ pc' = ContinueIfNecessary(st)
    BY <1>6, <2>1 DEF Reboot, Recovered
  <2>3. ~changed' => acts' = {}
    BY <1>6, <2>1, Zenon DEF Reboot, Recovered
  <2>4. (Announced' <=> Announced) /\ (Pending' <=> Pending)
    BY <1>2, <2>2 DEF Announced, Pending, Updated, diskVars
  <2>5. /\ (OnA' <=> OnA) /\ (OnB' <=> OnB) /\ (BaseIsCur' <=> BaseIsCur)
        /\ (AllPresent' <=> AllPresent)
    BY <1>2, SameDisk
  <2>6. CASE st \in {"Idle", "Ready", "RolledBack"}
    <3>1. pc' = "none" /\ Ordinary /\ OnA /\ (st = "Idle" => acts = {})
      BY <2>2, <2>6 DEF ContinueIfNecessary, DiskInv, PhaseOfState
    <3>2. Ordinary' /\ OnA'
      BY <1>4, <2>1, <2>4, <2>5, <3>1 DEF Ordinary
    <3> QED
      BY <1>3, <2>2, <2>3, <2>6, <3>1, <3>2 DEF DiskInv, PhaseOfState, PhaseOfStep
  <2>7. CASE st = "Verifying"
    <3>1. pc' = "none" /\ Ordinary /\ OnB
      BY <1>6, <2>2, <2>7 DEF ContinueIfNecessary, DiskInv, PhaseOfState, PhaseOfStep, ControlInv,
                         RestartCommitted
    <3>2. Ordinary' /\ OnB'
      BY <2>1, <2>4, <2>5, <3>1 DEF Ordinary
    <3> QED
      BY <1>3, <2>2, <2>3, <2>7, <3>1, <3>2 DEF DiskInv, PhaseOfState, PhaseOfStep
  <2>8. CASE st = "RollingBack"
    <3>1. pc' = "rolledBack" /\ Ordinary /\ OnA
      BY <1>6, <2>2, <2>8 DEF ContinueIfNecessary, DiskInv, PhaseOfState
    <3>2. Ordinary' /\ OnA' /\ RunsA'
      BY <1>4, <2>1, <2>4, <2>5, <3>1 DEF Ordinary
    <3> QED
      BY <1>2, <1>3, <2>2, <2>3, <2>8, <3>1, <3>2 DEF DiskInv, PhaseOfState, PhaseOfStep
  <2>9. CASE st = "Activated"
    <3>1. pc' = "none" /\ Ordinary /\ OnB /\ BaseIsCur
      BY <2>2, <2>9 DEF ContinueIfNecessary, DiskInv, PhaseOfState, Ordinary
    <3>2. Ordinary' /\ OnB'
      BY <2>1, <2>4, <2>5, <3>1 DEF Ordinary
    <3> QED
      BY <1>3, <2>2, <2>3, <2>9, <3>1, <3>2 DEF DiskInv, PhaseOfState, PhaseOfStep
  <2>10. CASE st = "CleaningUp" /\ final = "Commit"
    <3>1. pc' = "cleanup" /\ OnTheWayToB
      BY <2>2, <2>10 DEF ContinueIfNecessary, DiskInv, PhaseOfState, Committing
    <3>2. OnTheWayToB'
      BY <1>2, <2>2, <2>4, <3>1, SameDisk DEF OnTheWayToB, Target, Updated, diskVars
    <3> QED
      BY <1>3, <2>2, <2>3, <2>10, <3>1, <3>2 DEF DiskInv, PhaseOfState, PhaseOfStep, Committing
  <2>11. CASE st = "CleaningUp" /\ final = "Revert"
    <3>1. pc' = "cleanup" /\ Reverting
      BY <2>2, <2>11 DEF ContinueIfNecessary, DiskInv, PhaseOfState
    <3>2. Reverting'
      BY <1>2, <2>2, <2>4, <2>5, <3>1, SameDisk DEF Reverting, diskVars
    <3> QED
      BY <1>3, <2>2, <2>3, <2>11, <3>1, <3>2 DEF DiskInv, PhaseOfState, PhaseOfStep
  <2>12. CASE st = "ExceptionCleaningUp"
    <3>1. pc' = "exCore" /\ acts = {} /\ OnA
      BY <2>2, <2>12 DEF ContinueIfNecessary, DiskInv, PhaseOfState, Excepted
    <3>2. Excepted'
      BY <1>4, <2>2, <2>5, <3>1 DEF Excepted
    <3> QED
      BY <1>3, <2>2, <2>12, <3>1, <3>2 DEF DiskInv, PhaseOfState, PhaseOfStep
  <2> QED
    BY <2>1, <2>6, <2>7, <2>8, <2>9, <2>10, <2>11, <2>12 DEF States
<1> QED
  BY <1>5, <1>6

\* The files and the phase agree in every reachable state.
THEOREM DiskIsInvariant == Spec => []DiskInv
<1>1. ControlInv /\ DiskInv /\ [Next]_vars => DiskInv'
  <2>1. DiskInv /\ UNCHANGED vars => DiskInv'
    <3> SUFFICES ASSUME DiskInv, UNCHANGED vars
                 PROVE  DiskInv'
      OBVIOUS
    <3>1. UNCHANGED <<diskVars, lastBoot, lastList, run, acts, changed, st, final, pc, pkg,
                      verifier, md5>>
      BY DEF vars
    <3>2. md5' /\ st = "RollingBack" => OnA
      BY <3>1 DEF DiskInv, PhaseOfState
    <3> QED
      BY <3>1, <3>2, SamePhase
  <2> QED
    BY <2>1, ClientDisk, SaveDisk, ProcessingDisk, ActivationDisk, RollingBackDisk,
       CleaningUpDisk, ExceptionDisk, VerifierDisk, WaitingDisk, RebootDisk
       DEF Next, Executor
<1> QED
  BY <1>1, InitDisk, ControlIsInvariant, PTL DEF Spec

-----------------------------------------------------------------------------
(***************************************************************************)
(* A bundle is updated as a whole.  The versions the A files name change   *)
(* only in a commit, whose saved state a power loss finds again; a second  *)
(* one, before the state is saved again, ends in the exception states.     *)
(***************************************************************************)
Base == [core |-> boot[lastBoot], app |-> list[lastList]]

Nothing == \A a \in bundle : Base[a[1]] # a[2]
Everything == \A a \in bundle : Base[a[1]] = a[2]

Commits == st = "CleaningUp" /\ final = "Commit"
OnTheWay == st \in {"Activating", "Verifying", "Activated"} \/ Commits

\* The inductive invariant, given ControlInv and DiskInv.
BundleInv ==
    /\ OnTheWay => bundle = acts
    /\ crashes <= 1 => Nothing \/ Everything \/ (Commits /\ (md5 \/ crashes = 1))

\* A step that is none of the commit, the activation and the restart.
LEMMA SameBundle ==
  ASSUME BundleInv, UNCHANGED <<Base, bundle, crashes>>,
         OnTheWay' => OnTheWay /\ acts' = acts,
         Commits => Commits' /\ (md5 => md5')
  PROVE  BundleInv'
<1>1. (Nothing' <=> Nothing) /\ (Everything' <=> Everything)
  BY DEF Nothing, Everything
<1> QED
  BY <1>1 DEF BundleInv

\* Writing or removing a B file leaves the A file alone.
LEMMA SameBase ==
  ASSUME DiskTypes, Files, UNCHANGED <<lastBoot, lastList>>,
         boot' = boot \/ boot' = Without(boot, NextId(lastBoot))
                      \/ boot' = With(boot, NextId(lastBoot), Target("core")),
         list' = list \/ list' = Without(list, NextId(lastList))
                      \/ list' = With(list, NextId(lastList), Target("app"))
  PROVE  UNCHANGED Base
<1>1. boot'[lastBoot] = boot[lastBoot]
  BY FilesAB DEF With, Without, NextId
<1>2. list'[lastList] = list[lastList]
  BY FilesAB DEF With, Without, NextId
<1> QED
  BY <1>1, <1>2 DEF Base

\* What a bundle updates, while none of it is committed.
LEMMA PendingIsNothing ==
  ASSUME DiskTypes, Files, Pending, BaseIsCur, acts \subseteq Cluster \X Version
  PROVE  \A a \in acts : Base[a[1]] # a[2]
<1> SUFFICES ASSUME NEW a \in acts
             PROVE  Base[a[1]] # a[2]
  OBVIOUS
<1>1. a[1] \in Cluster /\ a[2] \in Version /\ swcl[a[1]].new = a[2]
  BY DEF Pending
<1>2. /\ swcl["core"].new = 0 \/ swcl["core"].new > swcl["core"].cur
      /\ swcl["app"].new = 0 \/ swcl["app"].new > swcl["app"].cur
      /\ swcl["core"] \in SwclStatus /\ swcl["app"] \in SwclStatus
  BY FilesAB DEF AB
<1>3. Base["core"] = swcl["core"].cur /\ Base["app"] = swcl["app"].cur
  BY DEF Base, BaseIsCur
<1> QED
  BY <1>1, <1>2, <1>3 DEF Cluster, Version, SwclStatus

LEMMA ClientBundle == ControlInv /\ DiskInv /\ BundleInv /\ Client => BundleInv'
<1> SUFFICES ASSUME ControlInv, DiskInv, BundleInv, Client
             PROVE  BundleInv'
  OBVIOUS
<1>1. UNCHANGED <<Base, crashes, acts>>
  BY DEF Client, ProcessSwPackage, RevertProcessing, Activate, Rollback, Finish,
         RevertProcessedSwPackages, Base, diskVars
<1>2. CASE Activate
  <2>1. st = "Ready" /\ st' = "Activating" /\ bundle' = acts
    BY <1>2 DEF Activate
  <2>2. Pending /\ BaseIsCur
    BY <2>1 DEF DiskInv, PhaseOfState, Ordinary
  <2>3. \A a \in acts : Base[a[1]] # a[2]
    BY <2>2, PendingIsNothing DEF DiskInv, ControlInv, ControlTypes
  <2>4. Nothing'
    BY <1>1, <2>1, <2>3 DEF Nothing
  <2> QED
    BY <1>1, <2>1, <2>4 DEF BundleInv
<1>3. CASE ~Activate
  <2>1. UNCHANGED bundle
    BY <1>3 DEF Client, ProcessSwPackage, RevertProcessing, Rollback, Finish,
                RevertProcessedSwPackages
  <2>2. OnTheWay' => OnTheWay
    BY <1>3 DEF Client, ProcessSwPackage, RevertProcessing, Rollback, Finish,
                RevertProcessedSwPackages, OnTheWay, Commits
  <2>3. ~Commits
    BY <1>3 DEF Client, ProcessSwPackage, RevertProcessing, Rollback, Finish,
                RevertProcessedSwPackages, Commits
  <2> QED
    BY <1>1, <2>1, <2>2, <2>3, SameBundle
<1> QED
  BY <1>2, <1>3

LEMMA SaveBundle == BundleInv /\ SaveCurrentStatus => BundleInv'
<1> SUFFICES ASSUME BundleInv, SaveCurrentStatus
             PROVE  BundleInv'
  OBVIOUS
<1>1. UNCHANGED <<Base, bundle, crashes, acts, st, final>>
  BY DEF SaveCurrentStatus, Base, diskVars
<1>2. Commits => md5'
  BY DEF Commits, SaveCurrentStatus, Committed
<1>3. (OnTheWay' <=> OnTheWay) /\ (Commits' <=> Commits)
  BY <1>1 DEF OnTheWay, Commits
<1> QED
  BY <1>1, <1>2, <1>3, SameBundle

LEMMA ProcessingBundle == ControlInv /\ DiskInv /\ BundleInv /\ Processing => BundleInv'
<1> SUFFICES ASSUME ControlInv, DiskInv, BundleInv, Processing
             PROVE  BundleInv'
  OBVIOUS
<1>1. UNCHANGED <<Base, bundle, crashes>>
  BY DEF Processing, Place, Execute, OnProcessSwPackageSucceeded, ProcessFails, Base, diskVars
<1>2. pc \in {"process", "placed", "processed"} /\ st' \in {st, "Ready"}
  BY DEF Processing, Place, Execute, OnProcessSwPackageSucceeded, ProcessFails
<1>3. st = "Processing"
  BY <1>2 DEF ControlInv, ControlTypes, StepsBelong, States
<1>4. ~OnTheWay' /\ ~Commits
  BY <1>2, <1>3 DEF OnTheWay, Commits
<1> QED
  BY <1>1, <1>4, SameBundle

LEMMA ActivationBundle == ControlInv /\ DiskInv /\ BundleInv /\ Activation => BundleInv'
<1> SUFFICES ASSUME ControlInv, DiskInv, BundleInv, Activation
             PROVE  BundleInv'
  OBVIOUS
<1> USE DEF Activation, ActivateRefused, StartUpdateSession, PrepareRefused, PrepareUpdate,
            SwclListFileLinkToB, BootOptionFileLinkToB, CommitSaveTransaction, ResetAccepted,
            ResetRefused, Reparse, ReparseFails, VerifyUpdate, VerifyRefused
<1>1. UNCHANGED <<bundle, crashes, acts, lastBoot, lastList>>
  OBVIOUS
<1>2. /\ boot' = boot \/ boot' = With(boot, NextId(lastBoot), Target("core"))
      /\ list' = list \/ list' = With(list, NextId(lastList), Target("app"))
  BY DEF diskVars
<1>3. UNCHANGED Base
  BY <1>1, <1>2, SameBase DEF DiskInv
<1>4. pc \in {"activate", "prepare", "list", "link", "boot", "restart", "reset", "verify",
              "rbRestart", "rbReset", "exReset"}
  OBVIOUS
<1>5. st \in {"Activating", "Verifying", "RollingBack", "ExceptionCleaningUp"}
      /\ (pc \in {"activate", "prepare"} => st = "Activating")
      /\ (pc \in {"list", "link", "boot", "restart", "reset", "verify"} => st = "Verifying")
  BY <1>4 DEF ControlInv, ControlTypes, StepsBelong, States
<1>6. OnTheWay' => OnTheWay
  BY <1>5 DEF OnTheWay, Commits
<1>7. ~Commits
  BY <1>5 DEF Commits
<1> QED
  BY <1>1, <1>3, <1>6, <1>7, SameBundle

LEMMA RollingBackBundle == ControlInv /\ DiskInv /\ BundleInv /\ RollingBack => BundleInv'
<1> SUFFICES ASSUME ControlInv, DiskInv, BundleInv, RollingBack
             PROVE  BundleInv'
  OBVIOUS
<1> USE DEF RollingBack, RollbackRefused, BootOptionFileRollbackToA, SwclListFileRollbackToA,
            ReparseOld, ReparseOldFails, RollbackDone
<1>1. UNCHANGED <<bundle, crashes, lastBoot, lastList>>
  OBVIOUS
<1>2. /\ boot' = boot \/ boot' = Without(boot, NextId(lastBoot))
      /\ list' = list \/ list' = Without(list, NextId(lastList))
  BY DEF diskVars
<1>3. UNCHANGED Base
  BY <1>1, <1>2, SameBase DEF DiskInv
<1>4. /\ pc \in {"rollback", "rbLink", "rbList", "rbRestart", "rolledBack"}
      /\ st' \in {st, "RolledBack"}
  OBVIOUS
<1>5. st = "RollingBack"
  BY <1>4 DEF ControlInv, ControlTypes, StepsBelong, States
<1>6. ~OnTheWay' /\ ~Commits
  BY <1>4, <1>5 DEF OnTheWay, Commits
<1> QED
  BY <1>1, <1>3, <1>6, SameBundle

\* A commit is done when the A files of all its clusters are the new ones.
LEMMA CleaningUpBundle == ControlInv /\ DiskInv /\ BundleInv /\ CleaningUp => BundleInv'
<1> SUFFICES ASSUME ControlInv, DiskInv, BundleInv, CleaningUp
             PROVE  BundleInv'
  OBVIOUS
<1>1. pc \in {"cleanup", "clList", "commit"} /\ ~saving /\ UNCHANGED <<bundle, crashes>>
  BY DEF CleaningUp, BootOptionFileCleanupA, SwclListFileCleanupA, CommitChanges, RevertChanges,
         CommitDone, RevertDone
<1>2. /\ st = "CleaningUp" /\ md5 /\ final \in {"Commit", "Revert"}
      /\ pc \in {"clList", "commit"} => final = "Commit"
  BY <1>1 DEF ControlInv, ControlTypes, StepsBelong, States, Saved, Committed, CommitBelongs
<1>3. CASE BootOptionFileCleanupA \/ SwclListFileCleanupA
  <2>1. UNCHANGED <<acts, st, final, md5>> /\ Commits
    BY <1>2, <1>3 DEF BootOptionFileCleanupA, SwclListFileCleanupA, Commits
  <2> QED
    BY <1>1, <1>2, <2>1 DEF BundleInv, OnTheWay, Commits
<1>4. CASE \E a \in acts : CommitChanges(a) \/ RevertChanges(a)
  <2>1. UNCHANGED <<acts, st, final, md5, Base>>
    BY <1>4 DEF CommitChanges, RevertChanges, Base
  <2> QED
    BY <1>1, <2>1, SameBundle DEF OnTheWay, Commits
<1>5. CASE RevertDone
  <2>1. UNCHANGED Base /\ st' = "Idle" /\ ~Commits
    BY <1>5 DEF RevertDone, Base, diskVars, Commits
  <2> QED
    BY <1>1, <2>1, SameBundle DEF OnTheWay, Commits
<1>6. CASE CommitDone
  <2>1. UNCHANGED Base /\ st' = "Idle" /\ Commits /\ pc = "commit"
    BY <1>2, <1>6 DEF CommitDone, Base, diskVars, Commits
  <2>2. /\ bundle = acts /\ BootA /\ ListA
        /\ boot[lastBoot] = Target("core") /\ list[lastList] = Target("app")
        /\ \A a \in acts : a[2] = Target(a[1])
    BY <2>1 DEF BundleInv, OnTheWay, Commits, DiskInv, PhaseOfState, Committing, OnTheWayToB
  <2>3. \A c \in Cluster : Base[c] = Target(c)
    BY <2>2 DEF Base, Cluster
  <2>4. Everything
    BY <2>2, <2>3 DEF Everything, ControlInv, ControlTypes
  <2>5. Everything'
    BY <1>1, <2>1, <2>4 DEF Everything
  <2> QED
    BY <1>1, <2>1, <2>5 DEF BundleInv, OnTheWay, Commits
<1> QED
  BY <1>3, <1>4, <1>5, <1>6 DEF CleaningUp

LEMMA ExceptionBundle == ControlInv /\ DiskInv /\ BundleInv /\ Exception => BundleInv'
<1> SUFFICES ASSUME ControlInv, DiskInv, BundleInv, Exception
             PROVE  BundleInv'
  OBVIOUS
<1> USE DEF Exception, ExceptionPrepared, ExceptionRefused, BootOptionFileExceptionRollbackToA,
            SwclListFileExceptionRollbackToA, ExceptionRolledBack, BootOptionFileExceptionCleanupB,
            SwclListFileExceptionCleanupB, ExceptionCleanedUp, CleanSwcl
<1>1. UNCHANGED <<bundle, crashes, lastBoot, lastList>>
  OBVIOUS
<1>2. /\ boot' = boot \/ boot' = Without(boot, NextId(lastBoot))
      /\ list' = list \/ list' = Without(list, NextId(lastList))
  BY DEF diskVars
<1>3. UNCHANGED Base
  BY <1>1, <1>2, SameBase DEF DiskInv
<1>4. /\ pc \in {"excRollback", "exBoot", "exLink", "exList", "exDone", "exCore", "exApp", "exEnd"}
      /\ st' \in {st, "ExceptionCleaningUp", "Idle"}
  OBVIOUS
<1>5. st \in {"ExceptionRollingBack", "ExceptionCleaningUp"}
  BY <1>4 DEF ControlInv, ControlTypes, StepsBelong, States
<1>6. ~OnTheWay' /\ ~Commits
  BY <1>4, <1>5 DEF OnTheWay, Commits
<1> QED
  BY <1>1, <1>3, <1>6, SameBundle

LEMMA ThreadsBundle == ControlInv /\ BundleInv /\ (Verifier \/ Waiting) => BundleInv'
<1> SUFFICES ASSUME ControlInv, BundleInv, Verifier \/ Waiting
             PROVE  BundleInv'
  OBVIOUS
<1> USE DEF Verifier, VerifiedAfterReboot, FailedAfterReboot, Waiting, OnProcessSwPackageFailed,
            NotCancelled, RevertSwitch
<1>1. UNCHANGED <<bundle, crashes, acts, Base>>
  BY DEF Base, diskVars
<1>2. OnTheWay' => OnTheWay
  BY DEF OnTheWay, Commits
<1>3. Commits => UNCHANGED <<st, final, md5>>
  BY DEF Commits, ControlInv, WaitingBelongs
<1> QED
  BY <1>1, <1>2, <1>3, SameBundle DEF Commits

\* A restart in a commit is a power loss; the commit goes on if its state had been
\* saved, and this was the second power loss otherwise.
LEMMA RebootBundle == ControlInv /\ DiskInv /\ BundleInv /\ Reboot => BundleInv'
<1> SUFFICES ASSUME ControlInv, DiskInv, BundleInv, Reboot
             PROVE  BundleInv'
  OBVIOUS
<1>1. UNCHANGED <<Base, bundle>>
  BY LoaderFinds DEF Reboot, Base, diskVars, DiskInv
<1>2. (Nothing' <=> Nothing) /\ (Everything' <=> Everything)
  BY <1>1 DEF Nothing, Everything
<1>3. crashes \in Nat /\ crashes' = (IF resetting THEN crashes ELSE crashes + 1)
  BY DEF Reboot, ControlInv, ControlTypes
<1>4. CASE ~md5
  <2>1. st' = "ExceptionRollingBack"
    BY <1>4 DEF Reboot, Recovered
  <2>2. Commits => ~resetting
    BY DEF Commits, ControlInv, RestartBelongs
  <2>3. crashes' <= 1 => Nothing \/ Everything
    BY <1>3, <1>4, <2>2 DEF BundleInv
  <2> QED
    BY <1>2, <2>1, <2>3 DEF BundleInv, OnTheWay, Commits
<1>5. CASE md5
  <2>1. ~saving /\ st # "Processing" /\ status = [st |-> st, final |-> final, acts |-> acts]
    BY <1>5 DEF ControlInv, Saved, RecoverableStatus
  <2>2. UNCHANGED <<st, final, acts>>
    BY <1>5, <2>1 DEF Reboot, Recovered
  <2>3. (Commits' <=> Commits) /\ (OnTheWay' <=> OnTheWay)
    BY <2>2 DEF Commits, OnTheWay
  <2>4. Commits => ~resetting
    BY DEF Commits, ControlInv, RestartBelongs
  <2>5. crashes' <= 1 => Nothing \/ Everything \/ (Commits /\ crashes' = 1)
    BY <1>3, <2>4 DEF BundleInv
  <2> QED
    BY <1>1, <1>2, <2>2, <2>3, <2>5 DEF BundleInv
<1> QED
  BY <1>4, <1>5

\* What a bundle has updated agrees with the state and the power losses.
THEOREM BundleIsInvariant == Spec => []BundleInv
<1>1. Init => BundleInv
  BY DEF Init, BundleInv, OnTheWay, Commits, Nothing
<1>2. ControlInv /\ DiskInv /\ BundleInv /\ [Next]_vars => BundleInv'
  <2>1. BundleInv /\ UNCHANGED vars => BundleInv'
    <3> SUFFICES ASSUME BundleInv, UNCHANGED vars
                 PROVE  BundleInv'
      OBVIOUS
    <3>1. UNCHANGED <<Base, bundle, crashes, acts, st, final, md5>>
      BY DEF vars, diskVars, Base
    <3> QED
      BY <3>1, SameBundle DEF OnTheWay, Commits
  <2> QED
    BY <2>1, ClientBundle, SaveBundle, ProcessingBundle, ActivationBundle, RollingBackBundle,
       CleaningUpBundle, ExceptionBundle, ThreadsBundle, RebootBundle
       DEF Next, Executor
<1> QED
  BY <1>1, <1>2, ControlIsInvariant, DiskIsInvariant, PTL DEF Spec

-----------------------------------------------------------------------------
(***************************************************************************)
(* The properties.                                                         *)
(***************************************************************************)

\* TypeOK is an invariant: neither the files nor the ids kept of them leave their
\* ranges, however many updates and restarts there are (ABPartition numbers the
\* files by a counter that only grows).
THEOREM UcmTypes == Spec => []TypeOK
<1>1. ControlInv /\ DiskInv => TypeOK
  <2> SUFFICES ASSUME ControlInv, DiskInv
               PROVE  TypeOK
    OBVIOUS
  <2>1. <<md5, saving, changed, verifier, failing, session, resetting, denied>>
          \in BOOLEAN \X BOOLEAN \X BOOLEAN \X BOOLEAN \X BOOLEAN \X BOOLEAN \X BOOLEAN \X BOOLEAN
    BY DEF ControlInv, Flags
  <2>2. /\ DOMAIN boot \subseteq Ids /\ \A i \in DOMAIN boot : boot[i] \in Version
        /\ DOMAIN list \subseteq Ids /\ \A i \in DOMAIN list : list[i] \in Version
        /\ lastBoot \in Ids /\ lastList \in Ids
    <3>1. /\ AB(boot, lastBoot, swcl["core"], dirs["core"]) /\ swcl["core"] \in SwclStatus
          /\ AB(list, lastList, swcl["app"], dirs["app"]) /\ swcl["app"] \in SwclStatus
      BY FilesAB DEF DiskInv
    <3>2. DOMAIN boot \subseteq Ids /\ lastBoot \in Ids /\ \A i \in DOMAIN boot : boot[i] \in Version
      BY <3>1, ABIds
    <3>3. DOMAIN list \subseteq Ids /\ lastList \in Ids /\ \A i \in DOMAIN list : list[i] \in Version
      BY <3>1, ABIds
    <3> QED
      BY <3>2, <3>3
  <2>3. DOMAIN link \subseteq Version /\ \A v \in DOMAIN link : link[v] \in Ids
    BY DEF DiskInv, DiskTypes, Files, Links, Cluster
  <2> QED
    BY <2>1, <2>2, <2>3 DEF TypeOK, ControlInv, ControlTypes, DiskInv, DiskTypes, SwclStatus
<1> QED
  BY <1>1, ControlIsInvariant, DiskIsInvariant, PTL

\* Bootable is an invariant: whatever write the power fails after, ara-loader finds
\* a machine it can start, with the largest file and with the smallest.
THEOREM AlwaysBootable == Spec => []Bootable
<1>1. DiskInv => Bootable
  BY LoaderFinds, EveryOptionStarts DEF DiskInv, Bootable
<1> QED
  BY <1>1, DiskIsInvariant, PTL

\* ABFiles is an invariant: the assertions of GetMinMaxFileNameId, DeleteBootOptionFile
\* and DeleteSWCLListFile hold, and the ids in memory are those on the disk.
THEOREM ABFilesAgree == Spec => []ABFiles
<1>1. DiskInv => ABFiles
  <2> SUFFICES ASSUME DiskInv
               PROVE  ABFiles
    OBVIOUS
  <2>1. /\ AB(boot, lastBoot, swcl["core"], dirs["core"]) /\ swcl["core"] \in SwclStatus
        /\ AB(list, lastList, swcl["app"], dirs["app"]) /\ swcl["app"] \in SwclStatus
    BY FilesAB DEF DiskInv
  <2>2. Cardinality(DOMAIN boot) \in 1 .. 2 /\ lastBoot = Min(DOMAIN boot)
    <3>1. /\ Cardinality(DOMAIN boot) = IF DOMAIN boot = {lastBoot} THEN 1 ELSE 2
          /\ Min(DOMAIN boot) = lastBoot
      BY <2>1, ABMinMax
    <3> QED
      BY <3>1
  <2>3. Cardinality(DOMAIN list) \in 1 .. 2 /\ lastList = Min(DOMAIN list)
    <3>1. /\ Cardinality(DOMAIN list) = IF DOMAIN list = {lastList} THEN 1 ELSE 2
          /\ Min(DOMAIN list) = lastList
      BY <2>1, ABMinMax
    <3> QED
      BY <3>1
  <2>4. At("rollback") /\ Updated("core") => NextId(lastBoot) \in DOMAIN boot
    BY DEF DiskInv, PhaseOfStep, OnB, BootB, NextId
  <2>5. At("rbList") /\ Updated("app") => NextId(lastList) \in DOMAIN list
    BY DEF DiskInv, PhaseOfStep, ListB, NextId
  <2> QED
    BY <2>2, <2>3, <2>4, <2>5 DEF ABFiles
<1> QED
  BY <1>1, DiskIsInvariant, PTL

\* IdleIsClean is an invariant: nothing is left over of any history of updates,
\* failures, rollbacks and power losses once the package manager is idle.
THEOREM IdleClean == Spec => []IdleIsClean
<1>1. ControlInv /\ DiskInv => IdleIsClean
  <2> SUFFICES ASSUME ControlInv, DiskInv, st = "Idle"
               PROVE  /\ \A c \in Cluster : dirs[c] = {swcl[c].cur} /\ ~Updated(c)
                      /\ boot = [i \in {lastBoot} |-> swcl["core"].cur]
                      /\ list = [i \in {lastList} |-> swcl["app"].cur]
                      /\ link = [v \in {swcl["core"].cur} |-> lastList]
                      /\ acts = {}
    BY DEF IdleIsClean
  <2>1. /\ DiskTypes /\ Files /\ acts = {} /\ pc = "none"
        /\ Announced /\ AllPresent /\ BaseIsCur /\ OnA
    BY DEF DiskInv, PhaseOfState, Ordinary, Pending, ControlInv, StepsBelong
  <2>2. \A c \in Cluster : dirs[c] = {swcl[c].cur} /\ ~Updated(c)
    <3> SUFFICES ASSUME NEW c \in Cluster
                 PROVE  dirs[c] = {swcl[c].cur} /\ ~Updated(c)
      OBVIOUS
    <3>1. ~Updated(c)
      BY <2>1 DEF Announced
    <3>2. swcl[c].cur \in Version /\ swcl[c].new = 0 /\ 0 \notin Version
      BY <2>1, <3>1 DEF Updated, DiskTypes, SwclStatus, Version
    <3> QED
      BY <2>1, <3>1, <3>2 DEF AllPresent, Present
  <2>3. boot = [i \in {lastBoot} |-> swcl["core"].cur]
    <3>1. boot \in [DOMAIN boot -> Version] /\ DOMAIN boot = {lastBoot}
      BY <2>1, FilesAB DEF AB, OnA, BootA
    <3> QED
      BY <2>1, <3>1 DEF BaseIsCur
  <2>4. list = [i \in {lastList} |-> swcl["app"].cur]
    <3>1. list \in [DOMAIN list -> Version] /\ DOMAIN list = {lastList}
      BY <2>1, FilesAB DEF AB, OnA, ListA
    <3> QED
      BY <2>1, <3>1 DEF BaseIsCur
  <2>5. link = [v \in {swcl["core"].cur} |-> lastList]
    <3>1. /\ link \in [DOMAIN link -> Ids] /\ DOMAIN link \subseteq dirs["core"]
          /\ boot[lastBoot] \in DOMAIN link
      BY <2>1, FilesAB DEF Files, Links
    <3>2. DOMAIN link = {swcl["core"].cur}
      BY <2>1, <2>2, <3>1 DEF BaseIsCur, Cluster
    <3>3. link[swcl["core"].cur] = lastList
      BY <2>1 DEF OnA, LinkA, BaseIsCur
    <3> QED
      BY <3>1, <3>2, <3>3
  <2> QED
    BY <2>1, <2>2, <2>3, <2>4, <2>5
<1> QED
  BY <1>1, ControlIsInvariant, DiskIsInvariant, PTL

\* AtomicUpdate is an invariant: with at most one power loss the clusters of an
\* activation are updated together or not at all.
THEOREM AtomicUpdates == Spec => []AtomicUpdate
<1>1. ControlInv /\ DiskInv /\ BundleInv => AtomicUpdate
  <2> SUFFICES ASSUME ControlInv, DiskInv, BundleInv, st = "Idle", crashes <= 1
               PROVE  \/ \A a \in bundle : swcl[a[1]].cur = a[2]
                      \/ \A a \in bundle : swcl[a[1]].cur # a[2]
    BY DEF AtomicUpdate
  <2>1. Nothing \/ Everything
    BY DEF BundleInv, Commits
  <2>2. \A c \in Cluster : Base[c] = swcl[c].cur
    BY DEF DiskInv, PhaseOfState, Ordinary, BaseIsCur, Base, Cluster
  <2>3. \A a \in bundle : a[1] \in Cluster
    BY DEF ControlInv, ControlTypes
  <2> QED
    BY <2>1, <2>2, <2>3 DEF Nothing, Everything
<1> QED
  BY <1>1, ControlIsInvariant, DiskIsInvariant, BundleIsInvariant, PTL

\* The state that reports an activation is reached by the executor that has restarted
\* the applications, or by the verifier after a reboot.
LEMMA ActivatedBy ==
  ASSUME ControlInv, Next, st # "Activated", st' = "Activated"
  PROVE  At("verify") \/ (VerifiedAfterReboot /\ st = "Verifying")
<1>1. ~Client
  BY DEF Client, ProcessSwPackage, RevertProcessing, Activate, Rollback, Finish,
         RevertProcessedSwPackages
<1>2. ~SaveCurrentStatus /\ ~Processing
  BY DEF SaveCurrentStatus, Processing, Place, Execute, OnProcessSwPackageSucceeded, ProcessFails
<1>3. Activation => At("verify")
  BY DEF Activation, ActivateRefused, StartUpdateSession, PrepareRefused, PrepareUpdate,
         SwclListFileLinkToB, BootOptionFileLinkToB, CommitSaveTransaction, ResetAccepted,
         ResetRefused, Reparse, ReparseFails, VerifyUpdate, VerifyRefused
<1>4. ~RollingBack
  BY DEF RollingBack, RollbackRefused, BootOptionFileRollbackToA, SwclListFileRollbackToA,
         ReparseOld, ReparseOldFails, RollbackDone
<1>5. ~CleaningUp
  BY DEF CleaningUp, BootOptionFileCleanupA, SwclListFileCleanupA, CommitChanges, RevertChanges,
         CommitDone, RevertDone
<1>6. ~Exception
  BY DEF Exception, ExceptionPrepared, ExceptionRefused, BootOptionFileExceptionRollbackToA,
         SwclListFileExceptionRollbackToA, ExceptionRolledBack, BootOptionFileExceptionCleanupB,
         SwclListFileExceptionCleanupB, ExceptionCleanedUp, CleanSwcl
<1>7. ~Waiting
  BY DEF Waiting, OnProcessSwPackageFailed, NotCancelled, RevertSwitch
<1>8. Verifier => VerifiedAfterReboot /\ st = "Verifying"
  BY DEF Verifier, VerifiedAfterReboot, FailedAfterReboot
<1>9. ~Reboot
  BY DEF Reboot, Recovered, ControlInv, Saved
<1> QED
  BY <1>1, <1>2, <1>3, <1>4, <1>5, <1>6, <1>7, <1>8, <1>9 DEF Next, Executor

\* ActivatedRunsUpdate holds: CheckCoreVersionAfterReboot, CheckSwclListVersionAfterReboot
\* and the answer of EM suffice to know that the update runs, although ara-loader may
\* fall back to the old core at any restart.
THEOREM ActivatedRuns == Spec => ActivatedRunsUpdate
<1> DEFINE Safe == st # "Activated" /\ st' = "Activated" /\ (NeedsReboot \/ NeedsRestart) =>
                     \A c \in Cluster : Updated(c) => run[c] = swcl[c].new
<1>1. ControlInv /\ DiskInv /\ [Next]_vars => [Safe]_vars
  <2> SUFFICES ASSUME ControlInv, DiskInv, Next, st # "Activated", st' = "Activated",
                      NeedsReboot \/ NeedsRestart, NEW c \in Cluster, Updated(c)
               PROVE  run[c] = swcl[c].new
    OBVIOUS
  <2>1. CASE At("verify")
    BY <2>1 DEF DiskInv, PhaseOfStep, Restarted
  <2>2. CASE VerifiedAfterReboot /\ st = "Verifying"
    <3>1. verifier /\ pc = "none" /\ RunsNewVersions
      BY <2>2 DEF VerifiedAfterReboot, ControlInv, RestartBelongs
    <3>2. DiskTypes /\ Files /\ BaseIsCur /\ OnB /\ CameUp
      BY <2>2, <3>1 DEF DiskInv, PhaseOfState, PhaseOfStep, Ordinary
    <3>3. RunsB
      BY <3>1, <3>2, ChecksSuffice
    <3> QED
      BY <3>3 DEF RunsB, Target, Cluster
  <2> QED
    BY <2>1, <2>2, ActivatedBy
<1> QED
  BY <1>1, ControlIsInvariant, DiskIsInvariant, PTL DEF Spec, ActivatedRunsUpdate

\* A rollback is reported by the executor that has restarted the applications, or by
\* the one that goes on after the reboot.
LEMMA RolledBackBy ==
  ASSUME ControlInv, Next, st # "RolledBack", st' = "RolledBack"
  PROVE  ReparseOld \/ RollbackDone
<1>1. ~Client
  BY DEF Client, ProcessSwPackage, RevertProcessing, Activate, Rollback, Finish,
         RevertProcessedSwPackages
<1>2. ~SaveCurrentStatus /\ ~Processing
  BY DEF SaveCurrentStatus, Processing, Place, Execute, OnProcessSwPackageSucceeded, ProcessFails
<1>3. ~Activation
  BY DEF Activation, ActivateRefused, StartUpdateSession, PrepareRefused, PrepareUpdate,
         SwclListFileLinkToB, BootOptionFileLinkToB, CommitSaveTransaction, ResetAccepted,
         ResetRefused, Reparse, ReparseFails, VerifyUpdate, VerifyRefused
<1>4. RollingBack => ReparseOld \/ RollbackDone
  BY DEF RollingBack, RollbackRefused, BootOptionFileRollbackToA, SwclListFileRollbackToA,
         ReparseOldFails
<1>5. ~CleaningUp
  BY DEF CleaningUp, BootOptionFileCleanupA, SwclListFileCleanupA, CommitChanges, RevertChanges,
         CommitDone, RevertDone
<1>6. ~Exception
  BY DEF Exception, ExceptionPrepared, ExceptionRefused, BootOptionFileExceptionRollbackToA,
         SwclListFileExceptionRollbackToA, ExceptionRolledBack, BootOptionFileExceptionCleanupB,
         SwclListFileExceptionCleanupB, ExceptionCleanedUp, CleanSwcl
<1>7. ~Waiting /\ ~Verifier
  BY DEF Waiting, OnProcessSwPackageFailed, NotCancelled, RevertSwitch, Verifier,
         VerifiedAfterReboot, FailedAfterReboot
<1>8. ~Reboot
  BY DEF Reboot, Recovered, ControlInv, Saved
<1> QED
  BY <1>1, <1>2, <1>3, <1>4, <1>5, <1>6, <1>7, <1>8 DEF Next, Executor

\* RolledBackRunsOld holds: the rollback removes the B files before it restarts, so
\* that whatever comes up, or is restarted, is the old version.
THEOREM RolledBackRuns == Spec => RolledBackRunsOld
<1> DEFINE Safe == st # "RolledBack" /\ st' = "RolledBack" /\ (NeedsReboot \/ NeedsRestart) =>
                     \A c \in Cluster : Updated(c) => run'[c] = swcl[c].cur
<1>1. ControlInv /\ DiskInv /\ [Next]_vars => [Safe]_vars
  <2> SUFFICES ASSUME ControlInv, DiskInv, Next, st # "RolledBack", st' = "RolledBack",
                      NeedsReboot \/ NeedsRestart, NEW c \in Cluster, Updated(c)
               PROVE  run'[c] = swcl[c].cur
    OBVIOUS
  <2>1. CASE ReparseOld
    <3>1. /\ st = "RollingBack" /\ pc = "rbRestart" /\ ReparseProcessList /\ NeedsRestart
      BY <2>1 DEF ReparseOld, ControlInv, StepsBelong, ControlTypes, States
    <3>2. DiskTypes /\ Files /\ Pending /\ BaseIsCur /\ AllPresent /\ OnA
      BY <3>1 DEF DiskInv, PhaseOfState, PhaseOfStep, Ordinary
    <3>3. ~Updated("core") /\ run.core = boot[lastBoot] /\ run'.app = list[link[run.core]]
      BY <3>1, <3>2, ReparsedOnCur
    <3>4. c = "app" /\ run'.app = swcl["app"].cur
      BY <3>2, <3>3 DEF OnA, LinkA, BaseIsCur, Cluster
    <3> QED
      BY <3>4
  <2>2. CASE RollbackDone
    <3>1. st = "RollingBack" /\ pc = "rolledBack" /\ UNCHANGED run
      BY <2>2 DEF RollbackDone, ControlInv, StepsBelong, ControlTypes, States
    <3>2. RunsA /\ BaseIsCur
      BY <3>1 DEF DiskInv, PhaseOfState, PhaseOfStep, Ordinary
    <3> QED
      BY <3>1, <3>2 DEF RunsA, BaseIsCur, Cluster
  <2> QED
    BY <2>1, <2>2, RolledBackBy
<1> QED
  BY <1>1, ControlIsInvariant, DiskIsInvariant, PTL DEF Spec, RolledBackRunsOld

\* No step, commit, revert or exceptional clean up, sets a cluster back to an older
\* version (CommitChanges, RevertChanges and CleanSwcl write the present version).
NoDowngrade == [][\A c \in Cluster : swcl'[c].cur >= swcl[c].cur]_vars

\* NoDowngrade holds: the version test of UpdateAction::Execute, made when the
\* package is processed, is all it takes.
THEOREM NeverDowngrades == Spec => NoDowngrade
<1>1. ControlInv /\ DiskInv /\ [Next]_vars
        => [\A c \in Cluster : swcl'[c].cur >= swcl[c].cur]_vars
  <2> SUFFICES ASSUME ControlInv, DiskInv, Next, NEW c \in Cluster
               PROVE  swcl'[c].cur >= swcl[c].cur
    OBVIOUS
  <2>1. /\ swcl[c] \in SwclStatus /\ swcl[c].cur \in Nat
        /\ swcl[c].new = 0 \/ swcl[c].new > swcl[c].cur
    BY FilesAB DEF DiskInv, AB, Cluster, SwclStatus, Version
  <2>2. CASE UNCHANGED swcl
    BY <2>1, <2>2
  <2>3. CASE Execute
    BY <2>1, <2>3 DEF Execute, DiskInv, DiskTypes, SwclStatus
  <2>4. ASSUME NEW a \in acts, CommitChanges(a), swcl' # swcl
        PROVE  swcl'[c].cur >= swcl[c].cur
    <3>1. swcl' = [swcl EXCEPT ![a[1]] = [cur |-> a[2], new |-> 0]] /\ pc = "commit"
      BY <2>4 DEF CommitChanges
    <3>2. st = "CleaningUp" /\ final = "Commit"
      BY <3>1 DEF ControlInv, CommitBelongs
    <3>3. a[2] = Target(a[1])
      BY <3>2 DEF DiskInv, PhaseOfState, Committing, OnTheWayToB
    <3>4. Target(c) >= swcl[c].cur
      BY <2>1 DEF Target, Updated, SwclStatus, Version
    <3> QED
      BY <2>1, <3>1, <3>3, <3>4 DEF DiskInv, DiskTypes
  <2>5. ASSUME NEW a \in acts, RevertChanges(a)
        PROVE  swcl'[c].cur >= swcl[c].cur
    BY <2>1, <2>5 DEF RevertChanges, DiskInv, DiskTypes, SwclStatus
  <2>6. CASE BootOptionFileExceptionCleanupB /\ swcl' # swcl
    <3>1. swcl' = [swcl EXCEPT !["core"] = [cur |-> boot[lastBoot], new |-> 0]]
      BY <2>6 DEF BootOptionFileExceptionCleanupB, CleanSwcl
    <3>2. boot[lastBoot] \in {swcl["core"].cur, swcl["core"].new} /\ boot[lastBoot] \in Version
      BY FilesAB DEF DiskInv, AB
    <3> QED
      BY <2>1, <3>1, <3>2 DEF Version, DiskInv, DiskTypes
  <2>7. CASE SwclListFileExceptionCleanupB /\ swcl' # swcl
    <3>1. swcl' = [swcl EXCEPT !["app"] = [cur |-> list[lastList], new |-> 0]]
      BY <2>7 DEF SwclListFileExceptionCleanupB, CleanSwcl
    <3>2. list[lastList] \in {swcl["app"].cur, swcl["app"].new} /\ list[lastList] \in Version
      BY FilesAB DEF DiskInv, AB
    <3> QED
      BY <2>1, <3>1, <3>2 DEF Version, DiskInv, DiskTypes
  <2>8. \/ UNCHANGED swcl \/ Execute
        \/ \E a \in acts : CommitChanges(a) \/ RevertChanges(a)
        \/ BootOptionFileExceptionCleanupB \/ SwclListFileExceptionCleanupB
    <3> USE DEF diskVars
    <3>1. Client \/ SaveCurrentStatus \/ Verifier \/ Waiting \/ Reboot => UNCHANGED swcl
      BY DEF Client, ProcessSwPackage, RevertProcessing, Activate, Rollback, Finish,
             RevertProcessedSwPackages, SaveCurrentStatus, Verifier, VerifiedAfterReboot,
             FailedAfterReboot, Waiting, OnProcessSwPackageFailed, NotCancelled, RevertSwitch, Reboot
    <3>2. Processing => UNCHANGED swcl \/ Execute
      BY DEF Processing, Place, OnProcessSwPackageSucceeded, ProcessFails
    <3>3. Activation => UNCHANGED swcl
      BY DEF Activation, ActivateRefused, StartUpdateSession, PrepareRefused, PrepareUpdate,
             SwclListFileLinkToB, BootOptionFileLinkToB, CommitSaveTransaction, ResetAccepted,
             ResetRefused, Reparse, ReparseFails, VerifyUpdate, VerifyRefused
    <3>4. RollingBack => UNCHANGED swcl
      BY DEF RollingBack, RollbackRefused, BootOptionFileRollbackToA, SwclListFileRollbackToA,
             ReparseOld, ReparseOldFails, RollbackDone
    <3>5. CleaningUp => \/ UNCHANGED swcl
                        \/ \E a \in acts : CommitChanges(a) \/ RevertChanges(a)
      BY DEF CleaningUp, BootOptionFileCleanupA, SwclListFileCleanupA, CommitDone, RevertDone
    <3>6. Exception => \/ UNCHANGED swcl
                       \/ BootOptionFileExceptionCleanupB \/ SwclListFileExceptionCleanupB
      BY DEF Exception, ExceptionPrepared, ExceptionRefused, BootOptionFileExceptionRollbackToA,
             SwclListFileExceptionRollbackToA, ExceptionRolledBack, ExceptionCleanedUp
    <3> QED
      BY <3>1, <3>2, <3>3, <3>4, <3>5, <3>6 DEF Next, Executor
  <2> QED
    BY <2>2, <2>3, <2>4, <2>5, <2>6, <2>7, <2>8
<1> QED
  BY <1>1, ControlIsInvariant, DiskIsInvariant, PTL DEF Spec, NoDowngrade
=============================================================================
