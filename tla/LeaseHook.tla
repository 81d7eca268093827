----------------------------- MODULE LeaseHook -----------------------------
(***************************************************************************)
(* router/debian/usr/local/sbin/v4gw-lease.sh, the dhcp-script that keeps  *)
(* return routes without a daemon: for each change of a lease it looks for *)
(* a next hop once, installs or removes the route, and ends.               *)
(***************************************************************************)
EXTENDS ReturnRoute

Line == Head(buf)

\* What only the daemon has.
notHook == <<hosts, files, todo, cur, ixLive>>

\* exit: dnsmasq may run the script again.
HookExit == pc' = "poll" /\ buf' = <<>> /\ nhop' = None

\* dnsmasq runs the script; without an interface it exits.
HookStart ==
    /\ pc = "poll"
    /\ fifo # <<>>
    /\ fifo' = Tail(fifo)
    /\ LET line == Head(fifo)
       IN  CASE line.iface = NoIface        -> UNCHANGED <<pc, buf>>
             [] line.iface # NoIface
                /\ line.act \in {"add", "old"} -> pc' = "derive" /\ buf' = <<line>>
             [] line.iface # NoIface
                /\ line.act = "del"            -> pc' = "delete" /\ buf' = <<line>>
    /\ UNCHANGED <<world, rt, pending, refused, nhop, notHook>>

\* gua_nexthop: the host may have formed the derived address, and answer the
\* solicitation in time, whether or not the neighbour cache knows.
Derive ==
    /\ pc = "derive"
    /\ nhop' \in {None} \cup {g \in (UNION UsableSets) \cap {"gua"} :
                               HasPrefix /\ up[Line.iface]}
    /\ pc' = IF nhop' = None THEN "find" ELSE "replace"
    /\ UNCHANGED <<world, rt, fifo, pending, refused, buf, notHook>>

\* find_nexthop: the first global address in the neighbour cache, in its own
\* order, else the link-local one.
Cached(f, m) ==
    LET global == usable[f][m] \ {"ll"}
    IN  IF global # {} THEN global ELSE usable[f][m]

\* find_nexthop, and once more after a ping to all nodes.
Find ==
    /\ pc \in {"find", "again"}
    /\ LET found == Cached(Line.iface, Line.mac)
       IN  IF found # {}
             THEN nhop' \in found /\ pc' = "replace"
             ELSE nhop' = None /\ pc' = IF pc = "find" THEN "again" ELSE "unarp"
    /\ UNCHANGED <<world, rt, fifo, pending, refused, buf, notHook>>

WrongReplace ==
    /\ pc = "replace"
    /\ rt' = IF up[Line.iface]
               THEN [rt EXCEPT ![Line.ip4] =
                       [iface |-> Line.iface, mac |-> Line.mac, nh |-> nhop]]
               ELSE rt
    /\ HookExit
    /\ UNCHANGED <<world, fifo, pending, refused, notHook>>

\* "ip route replace"; if it fails, "set -e" ends the script.
Replace ==
    /\ pc = "replace"
    /\ \/ /\ up[Line.iface]
          /\ rt' = [rt EXCEPT ![Line.ip4] =
                      [iface |-> Line.iface, mac |-> Line.mac, nh |-> nhop]]
          /\ pc' = "unarp"
          /\ UNCHANGED <<refused, buf, nhop>>
       \/ /\ ~ up[Line.iface]
          /\ HookExit
          /\ UNCHANGED <<rt, refused>>
       \/ /\ refused < MaxRefusals
          /\ refused' = refused + 1
          /\ HookExit
          /\ UNCHANGED rt
    /\ UNCHANGED <<world, fifo, pending, notHook>>

\* "ip route del"; an error is ignored.
Delete ==
    /\ pc = "delete"
    /\ WithdrawRoute(Line.ip4)
    /\ pc' = "unarp"
    /\ UNCHANGED <<world, fifo, buf, nhop, notHook>>

\* "ip -4 neigh del", with or without a route.
HookUnarp ==
    /\ pc = "unarp"
    /\ Unarp(Line.ip4, Line.iface)
    /\ HookExit
    /\ UNCHANGED <<tool, leases, usable, up, rt, fifo, pending, refused, notHook>>

HookNext == HookStart \/ Derive \/ Find \/ Replace \/ Delete \/ HookUnarp
=============================================================================
