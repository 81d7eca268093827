-------------------------- MODULE RouterPreference --------------------------
(***************************************************************************)
(* The vocabulary of router selection in host/v4gwd.py: RFC 4191           *)
(* preferences, neighbour states, and what "the best router of a dump"     *)
(* means.  A dump is the sequence of IPv6 default routes the kernel lists  *)
(* for one interface, in dump order; an entry without a gateway (an        *)
(* on-link default) carries NoGw.                                          *)
(***************************************************************************)
EXTENDS Integers, Sequences

CONSTANTS Gws,   \* IPv6 router addresses
          NoGw   \* "None": no gateway

ASSUME NoGwAssumption == NoGw \notin Gws

Prefs == {"high", "medium", "low", "reserved", "absent"}

\* The states the daemon tells apart: DELAY and PROBE behave as STALE, and a
\* missing neighbour entry as FAILED.
NudStates == {"REACHABLE", "STALE", "INCOMPLETE", "FAILED"}
NudUsable == {"REACHABLE", "STALE"}

Entries == [gw : Gws \cup {NoGw}, pref : Prefs]

\* Not the daemon's ranking but a plausible mistake, on which SelectRouter is
\* tried: an unknown preference ranks below low.
WrongPrefRank(p) == CASE p = "high"   -> 2
                      [] p = "medium" -> 1
                      [] p = "low"    -> 0
                      [] OTHER        -> -1

\* PREF_RANK.get(..., 1): a reserved or absent preference counts as medium.
PrefRank(p) == CASE p = "high" -> 2
                 [] p = "low"  -> 0
                 [] OTHER      -> 1

\* The comparison key of select_router, and Python's >= on such tuples.
KeyOf(e, state) ==
    [rank |-> PrefRank(e.pref), reach |-> IF state = "REACHABLE" THEN 1 ELSE 0]

Keys == [rank : 0..2, reach : 0..1]

AtLeast(a, b) ==
    \/ a.rank > b.rank
    \/ a.rank = b.rank /\ a.reach >= b.reach

\* Positions of a dump that name a gateway.
Candidates(dump) == {k \in 1..Len(dump) : dump[k].gw # NoGw}

\* k is a candidate no other candidate beats, and the last such one.
IsLastBest(dump, keys, k) ==
    /\ k \in Candidates(dump)
    /\ \A m \in Candidates(dump) :
          /\ AtLeast(keys[k], keys[m])
          /\ m > k => ~ AtLeast(keys[m], keys[k])

\* The keys computed when every neighbour state is read from nud.
KeysOf(dump, nud) ==
    [k \in 1..Len(dump) |->
        KeyOf(dump[k], IF dump[k].gw = NoGw THEN "FAILED" ELSE nud[dump[k].gw])]

\* What select_router then returns.
Best(dump, nud) ==
    LET best == {k \in Candidates(dump) : IsLastBest(dump, KeysOf(dump, nud), k)}
    IN  IF best = {} THEN NoGw ELSE dump[CHOOSE k \in best : TRUE].gw
=============================================================================
