---------------------------- MODULE ReturnRoutes ----------------------------
(***************************************************************************)
(* A router that keeps return routes in either way, each in behaviours of  *)
(* its own, and what both, or the daemon alone, promise.                   *)
(***************************************************************************)
EXTENDS V4gwrd, LeaseHook

Environment == Dnsmasq \/ Kernel

Next ==
    \/ Environment
    \/ ~ Hook /\ DaemonNext
    \/ Hook /\ HookNext

Spec == Init /\ [][Next]_vars

\* The process is scheduled, restarted, and its poll times out.
FairSpec == Spec /\ WF_vars(~ Hook /\ Daemon) /\ WF_vars(Hook /\ HookNext)

-----------------------------------------------------------------------------
(* "on a lease it records the host ... on a lease release it withdraws":   *)
(* at rest the records are exactly dnsmasq's leases, whatever the order of *)
(* grants, renewals, moves and ends.                                       *)
RecordsAreLeases ==
    Quiet /\ ~ Hook => leases = {[iface |-> hosts[m].iface, mac |-> m, ip4 |-> hosts[m].ip4] :
                         m \in Known}

(* No leaked return route: as long as the kernel refused nothing, every    *)
(* proto-149 route is the one that the record of its host stands for, so a *)
(* later line about that host can replace or withdraw it.                  *)
RouteHasRecord ==
    refused = 0 /\ ~ Hook =>
        \A ip \in Ips : rt[ip] # None =>
            /\ hosts[rt[ip].mac] # None
            /\ hosts[rt[ip].mac].ip4 = ip
            /\ RouteOf(rt[ip].mac) = rt[ip]

\* Every recorded host that is reachable has a route to its best next hop.
AllFollow ==
    \A m \in Known :
        LET best == BestNexthop(hosts[m].iface, m)
        IN  up[hosts[m].iface] /\ best # None =>
              rt[hosts[m].ip4] = [iface |-> hosts[m].iface, mac |-> m, nh |-> best]

(* "make the router follow each host's live IPv6 next hop": at rest, the   *)
(* route of each recorded host that is reachable goes to its best one.     *)
RoutesFollow == Quiet => AllFollow

(* At rest no leased address is routed to a host that does not lease it,   *)
(* although the script looks only once, and may find nothing.              *)
RouteReachesLessee ==
    Quiet => \A l \in leases : rt[l.ip4] # None => rt[l.ip4].mac = l.mac

(* "on a lease release it withdraws the route": at rest every return route *)
(* is for an address some host leases, whichever lines were still to be    *)
(* handled, and whichever hosts were still looked for, when it ended.      *)
NoRouteWithoutLease ==
    Quiet => \A ip \in Ips : rt[ip] # None => \E l \in leases : l.ip4 = ip

(* "exactly the per-lease ARP entry we want to avoid": a leased address    *)
(* that is routed to its host has no IPv4 neighbour entry beside, although *)
(* one may form up to the moment the route is there.                       *)
NoArpEntry ==
    Quiet => \A ip \in Ips, f \in Ifaces : RoutedOver(ip, f) => f \notin arp[ip]

(* No record outlives its lease, also when the line that ended it was lost *)
(* with the daemon or while it was down ("prune leases dnsmasq has since   *)
(* dropped"): two hosts never fight over the route of one address.  Needs  *)
(* the lease file to have been readable, not that every write succeeded.   *)
RecordsAreLive ==
    Quiet /\ ~ blind => \A m \in Known : \E l \in leases :
        l.mac = m /\ l.ip4 = hosts[m].ip4

(* The state file lets a restart recover every record, whatever was lost,  *)
(* refused, left unnamed or not written before, unless the last write of   *)
(* all failed.                                                             *)
RecordsAreSaved ==
    Quiet /\ ~ unsaved => \A m \in Known : saved[m] = Saved(m)

\* Leases, links and neighbours stay put, and the daemon is not ended.
LeftAlone == <>[][~ Environment /\ ~ EndDaemon]_vars

(* "a periodic sweep re-evaluates every host, so a monitor overrun or a    *)
(* missed event self-heals" (v4gwrd.py:34), without a condition: once      *)
(* things are left alone, the route of every recorded and reachable host   *)
(* ends up right and stays right.                                          *)
Heals == LeftAlone => <>[]AllFollow

(* What that sweep does repair, where links keep their routes and the      *)
(* kernel refuses nothing: kills, restarts, lost lines and missed events,  *)
(* as long as the lease file was readable at the last restart and no line  *)
(* written before a restart is handled after it.  Then every reachable     *)
(* host's route ends up right, that of a new lessee too.                   *)
SweepHeals ==
    /\ LeftAlone
    /\ <>[](~ blind)
    /\ [](pc = "restore" => fifo = <<>>)
    => <>[]AllFollow
=============================================================================
