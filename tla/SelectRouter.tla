---------------------------- MODULE SelectRouter ----------------------------
(***************************************************************************)
(* The loop of Interface.select_router (host/v4gwd.py) one iteration at a  *)
(* time.  The dump of IPv6 default routes is one netlink answer, but the   *)
(* neighbour state of each router is a separate query made while the loop  *)
(* runs, so each iteration may read any state whatever the others read.    *)
(***************************************************************************)
EXTENDS RouterPreference

CONSTANT Dumps   \* the dumps the kernel may answer with

ASSUME DumpsAssumption == Dumps \subseteq Seq(Entries)

VARIABLES dump,      \* the IPv6 default routes on the interface
          k,         \* position of the next entry to examine
          best,      \* best gateway so far, NoGw for None
          bestKey,   \* its key, NoKey for None
          keys       \* history: the key computed at each position examined

vars == <<dump, k, best, bestKey, keys>>

NoKey == [rank |-> -1, reach |-> 0]   \* None, ranked below every key

Init ==
    /\ dump \in Dumps
    /\ k = 1
    /\ best = NoGw
    /\ bestKey = NoKey
    /\ keys = <<>>

\* "if gw is None: continue"
Skip ==
    /\ k <= Len(dump)
    /\ dump[k].gw = NoGw
    /\ keys' = Append(keys, NoKey)
    /\ k' = k + 1
    /\ UNCHANGED <<dump, best, bestKey>>

\* Not the daemon's comparison but a plausible mistake, on which the property
\* below is tried: reachability would not count.
WrongReplaces(key) == bestKey = NoKey \/ key.rank > bestKey.rank

\* "if best_key is None or key >= best_key: best, best_key = gw, key"
Replaces(key) == bestKey = NoKey \/ AtLeast(key, bestKey)

Examine(state) ==
    LET key == KeyOf(dump[k], state)
    IN  /\ k <= Len(dump)
        /\ dump[k].gw # NoGw
        /\ keys' = Append(keys, key)
        /\ k' = k + 1
        /\ IF Replaces(key)
             THEN best' = dump[k].gw /\ bestKey' = key
             ELSE UNCHANGED <<best, bestKey>>
        /\ UNCHANGED dump

Next == Skip \/ \E state \in NudStates : Examine(state)

Spec == Init /\ [][Next]_vars /\ WF_vars(Next)

Done == k > Len(dump)

-----------------------------------------------------------------------------
TypeOK ==
    /\ dump \in Seq(Entries)
    /\ k \in 1..(Len(dump) + 1)
    /\ best \in Gws \cup {NoGw}
    /\ bestKey \in Keys \cup {NoKey}
    /\ keys \in Seq(Keys \cup {NoKey})
    /\ Len(keys) = k - 1

\* "RFC 4191 selection": high before medium before low; a reserved or absent
\* preference is medium.
Preferred(p, q) ==
    \/ p = "high" /\ q # "high"
    \/ q = "low" /\ p # "low"

(* No router is preferred to the one select_router returns, and of those   *)
(* with its preference none was reachable when it was not, each when it    *)
(* was read; it returns None only when the dump names no router.  Which of *)
(* equals it returns is left open.                                         *)
SelectsBest ==
    Done => IF Candidates(dump) = {}
              THEN best = NoGw
              ELSE \E j \in Candidates(dump) :
                     /\ best = dump[j].gw
                     /\ \A i \in Candidates(dump) :
                          /\ ~ Preferred(dump[i].pref, dump[j].pref)
                          /\ \/ Preferred(dump[j].pref, dump[i].pref)
                             \/ keys[i].reach <= keys[j].reach

\* Of equals it is the last in the dump.  docs/conformance.md:40 and
\* freebsd/v4gwd.c:121 say of all implementations that it is the lowest address.
SelectsLastBest ==
    Done => IF Candidates(dump) = {}
              THEN best = NoGw
              ELSE \E j \in 1..Len(dump) :
                     IsLastBest(dump, keys, j) /\ best = dump[j].gw
=============================================================================
