---------------------------- MODULE MCFreeBsdGwd ----------------------------
(* A small instance of FreeBsdGwd: two routers and a static one, in lists  *)
(* that differ in order, preference and interface.                         *)
EXTENDS FreeBsdGwd

R(g, p) == [gw |-> g, pref |-> p, here |-> TRUE]
Elsewhere1 == [gw |-> 1, pref |-> "high", here |-> FALSE]

MCGws == 1..3

\* Equals whose lowest address is neither first nor last; the lower address
\* with the lower preference, behind a router of another interface.
MCLists == {<<>>,
            <<R(2, "medium"), R(1, "medium"), R(3, "medium")>>,
            <<Elsewhere1, R(1, "low"), R(2, "medium")>>}

ListsReserved == {<<>>, <<R(1, "reserved")>>, <<R(1, "reserved"), R(2, "low")>>}

MCStatics == {NoGw, 1}
=============================================================================
