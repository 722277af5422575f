----------------------------- MODULE MCPhmAlive -----------------------------
(***************************************************************************)
(* Alive supervision across function groups: processes p1 and p2 run in    *)
(* groups of their own, each with one alive supervision; local l1 watches  *)
(* both processes, l2 only p2; both locals belong to global g1.            *)
(***************************************************************************)
EXTENDS PhmSupervision

NoFunction == [x \in {} |-> 0]

MCCpProcess        == [c1 |-> "p1", c2 |-> "p2"]
MCAffiliation      == [p1 |-> "Other", p2 |-> "Other"]
MCBaseProcess      == [a1 |-> "p1", a2 |-> "p2"]
MCAliveCp          == [a1 |-> "c1", a2 |-> "c2"]
MCOnePerCycle      == [a1 |-> 1, a2 |-> 1]
MCNoMargin         == [a1 |-> 0, a2 |-> 0]
MCBasesOf          == [l1 |-> {"a1", "a2"}, l2 |-> {"a2"}]
MCFailedTolerance  == [l1 |-> 2, l2 |-> 0]
MCGlobalOf         == [l1 |-> "g1", l2 |-> "g1"]
MCExpiredTolerance == [g1 |-> 1]
MCFgOf             == [p1 |-> "f1", p2 |-> "f2"]
MCSupervisionMode  == [f1 |-> {"On"}, f2 |-> {"On"}]
=============================================================================
