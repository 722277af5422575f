------------------------------- MODULE MCUcm -------------------------------
(***************************************************************************)
(* UcmPackageManager with a first update of each cluster that is activated *)
(* as usual, by a reboot for the platform and by a restart for the         *)
(* application, and a second one that waits for the next reboot, so that   *)
(* bundles of all strengths occur.                                         *)
(***************************************************************************)
EXTENDS UcmPackageManager

MCOption ==
    [a \in Cluster \X Version |->
        CASE a[2] > 2      -> "kWaitForReboot"
          [] a[1] = "core" -> "kReboot"
          [] OTHER         -> "kRestartApplication"]
=============================================================================
