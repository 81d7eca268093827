--------------------------- MODULE MCReturnRoutes ---------------------------
(* Small instances of ReturnRoutes: two hosts and two addresses on one or  *)
(* two interfaces, next hops that appear, change kind and fail.            *)
EXTENDS ReturnRoutes, TLC

CONSTANTS f1, f2, m1, m2, a1, a2

OneIface  == {f1}
TwoIfaces == {f1, f2}
OneMac    == {m1}
TwoMacs   == {m1, m2}
OneIp     == {a1}
TwoIps    == {a1, a2}

\* A host seen at its link-local address only, or at its EUI-64 address too,
\* of which ND learns with it or late.
LlOnly    == {{}, {"ll"}}
LlThenGua == LlOnly \cup {{"ll", "gua"}}
LlAndGua  == {{}, {"ll", "gua"}}

\* A host with a global address that is not derived from its MAC.
LlAndOther == {{}, {"ll", "other"}}

SymHosts == Permutations(TwoMacs) \cup Permutations(TwoIps)
SymRoam == Permutations(TwoMacs) \cup Permutations(TwoIfaces)
=============================================================================
