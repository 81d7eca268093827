------------------------------ MODULE MCV4gwd ------------------------------
(* Small instances of V4gwd: one interface with two routers, whose lists   *)
(* differ in length, order and preference; or two interfaces with one      *)
(* router each.                                                            *)
EXTENDS V4gwd, TLC

CONSTANTS e1, e2, g1, g2

OneIface == {e1}
TwoIfaces == {e1, e2}
MCGws == {g1, g2}

R(g, p) == [gw |-> g, pref |-> p]

\* g2 alone, behind g1, or preferred by its preference; and an on-link
\* default, which has no gateway.
ListsOfOne ==
    e1 :> {<<>>, <<R(g2, "absent")>>, <<R(g1, "absent"), R(g2, "absent")>>,
           <<R(NoGw, "absent"), R(g2, "low"), R(g1, "reserved")>>}

ListsOfTwo ==
    (e1 :> {<<>>, <<R(g1, "absent")>>}) @@ (e2 :> {<<>>, <<R(g2, "absent")>>})

ListsShort == e1 :> {<<>>, <<R(g2, "absent")>>, <<R(g2, "low"), R(g1, "absent")>>}

MCNudLive == {"REACHABLE", "FAILED"}
MCNudTwo == {"REACHABLE"}
=============================================================================
