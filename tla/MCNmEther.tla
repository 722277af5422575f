----------------------------- MODULE MCNmEther -----------------------------
(* One Ethernet connector with a partial network of its own, one of another *)
(* connector and one other node; the durations, in ticks, and the options   *)
(* of each run are in its configuration.                                    *)
EXTENDS NmEther

CONSTANTS p1, p2, n1

MCPn == {p1, p2}
MCConfigPn == {p1}
MCNode == {n1}
NoState == {}
=============================================================================
