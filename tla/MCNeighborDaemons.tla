-------------------------- MODULE MCNeighborDaemons --------------------------
(* Small instances of NeighborDaemons on two networks whose routers have   *)
(* the same IPv6 address but not the same MAC; the interface has either    *)
(* the same MAC of its own on both or one for each.                        *)
EXTENDS NeighborDaemons

G(g, m) == [gw |-> g, metric |-> m]

MCNets == {"home", "away"}

OneOwnMac == [n \in MCNets |-> "k1"]
OwnMacEach == [n \in MCNets |-> IF n = "home" THEN "k1" ELSE "k2"]

\* One router on each network.
OneLladdrs == [n \in MCNets |-> [g \in {"g1"} |->
    IF n = "home" THEN {"m1"} ELSE {"m2"}]]
OneLists == [n \in MCNets |-> {<<>>, <<G("g1", 1)>>}]

\* A second one at home, in an order that is not the order of their metrics.
TwoLladdrs == [n \in MCNets |-> [g \in {"g1", "g2"} |->
    CASE n = "home" /\ g = "g1" -> {"m1"}
      [] n = "home" /\ g = "g2" -> {"m2"}
      [] n = "away" /\ g = "g1" -> {"m3"}
      [] OTHER -> {}]]
TwoLists == [n \in MCNets |->
    IF n = "home" THEN {<<>>, <<G("g2", 2), G("g1", 1)>>}
    ELSE {<<>>, <<G("g1", 1)>>}]
=============================================================================
