---------------------------- MODULE MCPhmLogical ----------------------------
(***************************************************************************)
(* Logical supervision: one process with a graph that forks at the initial *)
(* checkpoint c1 into c2 and c3, joins at c4 and ends at c5, and a final   *)
(* checkpoint c6 no transition leads to.                                   *)
(***************************************************************************)
EXTENDS PhmSupervision

NoFunction == [x \in {} |-> 0]

MCCpProcess        == [c \in {"c1", "c2", "c3", "c4", "c5", "c6"} |-> "p1"]
MCAffiliation      == [p1 |-> "EM"]
MCBaseProcess      == [s1 |-> "p1"]
MCInitial          == [s1 |-> {"c1"}]
MCFinal            == [s1 |-> {"c5", "c6"}]
MCTransition       == [s1 |-> {<<"c2", "c1">>, <<"c3", "c1">>,
                               <<"c4", "c2">>, <<"c4", "c3">>, <<"c5", "c4">>}]
MCBasesOf          == [l1 |-> {"s1"}]
MCFailedTolerance  == [l1 |-> 0]
MCGlobalOf         == [l1 |-> "g1"]
MCExpiredTolerance == [g1 |-> 2]
MCFgOf             == [p1 |-> "f1"]
MCSupervisionMode  == [f1 |-> {"On"}]
=============================================================================
