--------------------------- MODULE MCPhmDeadline ---------------------------
(***************************************************************************)
(* Deadline and alive supervision: process p1 of the State Management      *)
(* cluster has a deadline supervision from c1 to c2, process p2 an alive   *)
(* supervision; local l1 watches p2 alone, l2 both processes.              *)
(***************************************************************************)
EXTENDS PhmSupervision

NoFunction == [x \in {} |-> 0]

MCCpProcess        == [c1 |-> "p1", c2 |-> "p1", c3 |-> "p2"]
MCAffiliation      == [p1 |-> "SM", p2 |-> "Other"]
MCBaseProcess      == [a1 |-> "p2", d1 |-> "p1"]
MCAliveCp          == [a1 |-> "c3"]
MCSource           == [d1 |-> "c1"]
MCTarget           == [d1 |-> "c2"]
MCExpected         == [a1 |-> 1]
MCNoMargin         == [a1 |-> 0]
MCMinDeadline      == [d1 |-> 1]
MCMaxDeadline      == [d1 |-> 1]
MCBasesOf          == [l1 |-> {"a1"}, l2 |-> {"a1", "d1"}]
MCFailedTolerance  == [l1 |-> 1, l2 |-> 0]
MCGlobalOf         == [l1 |-> "g1", l2 |-> "g1"]
MCExpiredTolerance == [g1 |-> 1]
MCFgOf             == [p1 |-> "f1", p2 |-> "f1"]
MCSupervisionMode  == [f1 |-> {"On"}]
=============================================================================
