--------------------------- MODULE MCSelectRouter ---------------------------
(* SelectRouter on every dump of at most three entries drawn from a small  *)
(* set that has each preference, an entry without a gateway, and two       *)
(* routers; ties, repeats and reserved preferences all occur.              *)
EXTENDS SelectRouter

CONSTANTS g1, g2

MCGws == {g1, g2}

MCEntries ==
    [gw : {g1, g2}, pref : {"high", "low", "absent", "reserved"}]
        \cup {[gw |-> NoGw, pref |-> "medium"]}

MCDumps == UNION {[1..n -> MCEntries] : n \in 0..3}
=============================================================================
