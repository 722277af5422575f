--------------------------- MODULE MCPhmRecovery ---------------------------
(***************************************************************************)
(* One identifier that is retried once, and sessions enough for two        *)
(* recoveries, so that late requests and answers of the first meet the     *)
(* second.                                                                 *)
(***************************************************************************)
EXTENDS PhmRecovery

MCMaxRetry == [r1 |-> 1]
=============================================================================
