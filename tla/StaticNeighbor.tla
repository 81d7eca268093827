--------------------------- MODULE StaticNeighbor ---------------------------
(***************************************************************************)
(* What the daemons without IPv4-via-IPv6 routes share: macOS              *)
(* (host/macos/v4gwd-arp.c), Windows as a service (host/windows/v4gwd.c)   *)
(* and as a script (host/windows/v4gwd.ps1), and Linux before 5.2          *)
(* (host/v4gwd.py in its static-neighbor mode).                            *)
(*                                                                         *)
(* Each keeps one permanent IPv4 neighbour entry, the "pin": 192.0.0.11    *)
(* has the link-layer address of the IPv6 default router.  All but Linux   *)
(* remember on disk which router MAC they saw under which MAC of their     *)
(* own, because hosts use another MAC on every network, and pin the        *)
(* remembered one while the router is not resolved.                        *)
(*                                                                         *)
(* This module has the host those processes run on and the steps of        *)
(* "reconcile" they share, mapped to the macOS source.  Each daemon has a  *)
(* module of its own for what it reads from the system, which it passes to *)
(* those steps, and for the steps that are its own.                        *)
(***************************************************************************)
EXTENDS Integers, Sequences, FiniteSetsExt

CONSTANTS
    Gws,          \* IPv6 addresses of default routers
    NoGw,         \* no router
    Macs,         \* link-layer addresses of routers
    NoMac,        \* no address
    Nets,         \* networks the interface may be on
    NoNet,        \* the interface does not exist
    Keys,         \* link-layer addresses of the interface itself
    NoKey,        \* none was read
    OwnMac,       \* OwnMac[n]: the one used on network n
    Lladdrs,      \* Lladdrs[n][g]: the addresses router g has on network n
    RouteLists,   \* RouteLists[n]: the lists of ::/0 routes network n may give,
                  \* with a metric, which on Linux is the RFC 4191 preference
    NoEntry,      \* no IPv4 neighbour entry for 192.0.0.11
    Oses,         \* the daemons to run, each in behaviours of its own
    Gate,         \* "none", "fib" (-r, -RequireSentinelRoute) or "file" (-f)
    MaxMoves,     \* bound: how often the interface changes network
    MaxFaults     \* bound: failing system calls and kills

ASSUME NonesAssumption ==
    NoGw \notin Gws /\ NoMac \notin Macs /\ NoNet \notin Nets /\ NoKey \notin Keys
ASSUME NoEntryAssumption == NoEntry \notin [mac : Macs, static : BOOLEAN]
ASSUME OwnMacAssumption == OwnMac \in [Nets -> Keys]
ASSUME LladdrsAssumption == Lladdrs \in [Nets -> [Gws -> SUBSET Macs]]
ASSUME RouteListsAssumption ==
    /\ RouteLists \in [Nets -> SUBSET Seq([gw : Gws, metric : Nat])]
    /\ \A n \in Nets : <<>> \in RouteLists[n]
ASSUME OsesAssumption == Oses \subseteq {"macos", "windows", "powershell", "linux"}
ASSUME BoundsAssumption == MaxMoves \in Nat /\ MaxFaults \in Nat
ASSUME GateAssumption == Gate \in {"none", "fib", "file"}

VARIABLES
    os,            \* which daemon this is
    \* the host
    net,           \* the network the interface is on
    sentinel,      \* the route or file the gate looks for is there
    routes,        \* IPv6 default routes of the interface
    nd,            \* nd[g]: link-layer address of g in the ND cache
    entry,         \* the IPv4 neighbour entry for 192.0.0.11
    wake,          \* a notification waits for the daemon
    stop,          \* it has been told to stop
    cache,         \* cache[k]: router MAC stored under the own MAC k
    \* the daemon
    pc,            \* where it is
    live,          \* the interface index it resolved is still the interface's
    hostMac,       \* host_mac
    gw,            \* the router found, NoGw on the cached path
    mac,           \* the MAC to pin
    installed,     \* arp_installed, g_installed
    installedMac,  \* installed_mac, g_installed_mac
    \* what happened so far
    torn,          \* a reconcile read its own MAC and a router's address under
                   \* different own MACs, because the host moved in between
    moves,         \* number of changes of network
    faults,        \* number of calls that failed, and kills
    orphaned       \* a pin was left behind by a kill or a failing delete

place  == <<net, sentinel, routes, nd>>
record == <<installed, installedMac>>
local  == <<hostMac, gw, mac, record>>
past   == <<moves, faults, orphaned>>
vars   == <<os, torn, net, sentinel, routes, nd, entry, wake, stop, cache, pc,
            live, hostMac, gw, mac, installed, installedMac, moves, faults, orphaned>>

Steps == {"stopped", "down", "starting", "resolve", "sentinel", "hostmac", "router",
          "lladdr", "lookup", "check", "delete", "set", "overwrite", "put",
          "withdraw", "loop", "poll", "exit"}

Alive == pc \notin {"stopped", "down"}

EntryOf(m, s) == [mac |-> m, static |-> s]

Pinned == entry # NoEntry /\ entry.static

\* The router MACs of network n.
MacsOn(n) == UNION {Lladdrs[n][g] : g \in Gws}

NoNd == [g \in Gws |-> NoMac]

Init ==
    /\ os \in Oses
    /\ net \in Nets \cup {NoNet}
    /\ sentinel = FALSE
    /\ routes = <<>>
    /\ nd = NoNd
    /\ entry = NoEntry
    /\ wake = FALSE
    /\ stop = FALSE
    /\ cache = [k \in Keys |-> NoMac]
    /\ pc = "stopped"
    /\ live = FALSE
    /\ hostMac = NoKey
    /\ gw = NoGw
    /\ mac = NoMac
    /\ installed = FALSE
    /\ installedMac = NoMac
    /\ torn = FALSE
    /\ moves = 0
    /\ faults = 0
    /\ orphaned = FALSE

-----------------------------------------------------------------------------
(* The host: links, DHCPv4, router advertisements, ND and ARP.             *)

Elsewhere == UNCHANGED <<os, torn, stop, cache, pc, local, faults, orphaned>>

\* The routing socket, a change callback or rtnetlink; the script is told
\* nothing.
Announced == wake' = (os # "powershell")

\* Of neighbour entries only rtnetlink tells.
NeighborAnnounced == wake' = (wake \/ os = "linux")

\* The interface joins or leaves a network, or changes from one to another
\* without disappearing, in which case the entry may survive.
Moves ==
    /\ moves < MaxMoves
    /\ moves' = moves + 1
    /\ net' \in (Nets \cup {NoNet}) \ {net}
    /\ sentinel' \in IF Gate = "file" THEN {FALSE, sentinel} ELSE {FALSE}
    /\ routes' = <<>>
    /\ nd' = NoNd
    /\ entry' \in IF NoNet \in {net, net'} THEN {NoEntry} ELSE {entry, NoEntry}
    /\ live' = (live /\ net' # NoNet)
    /\ Announced
    /\ Elsewhere

SentinelChanges ==
    /\ Gate # "none"
    /\ net # NoNet
    /\ sentinel' = ~ sentinel
    /\ Announced
    /\ UNCHANGED <<net, routes, nd, entry, live, moves>>
    /\ Elsewhere

RoutesChange ==
    /\ net # NoNet
    /\ routes' \in RouteLists[net] \ {routes}
    /\ Announced
    /\ UNCHANGED <<net, sentinel, nd, entry, live, moves>>
    /\ Elsewhere

\* ND resolves a router, or gives up.
NdChanges(g) ==
    /\ net # NoNet
    /\ \E m \in (Lladdrs[net][g] \cup {NoMac}) \ {nd[g]} :
         nd' = [nd EXCEPT ![g] = m]
    /\ NeighborAnnounced
    /\ UNCHANGED <<net, sentinel, routes, entry, live, moves>>
    /\ Elsewhere

\* A DHCP reconfiguration, a flap, or an "arp -d": the entry is dropped.
Flush ==
    /\ entry # NoEntry
    /\ entry' = NoEntry
    /\ NeighborAnnounced
    /\ UNCHANGED <<place, live, moves>>
    /\ Elsewhere

\* Without an entry, IPv4 traffic makes the host resolve 192.0.0.11 by ARP.
ArpResolves ==
    /\ net # NoNet
    /\ entry = NoEntry
    /\ \E m \in MacsOn(net) : entry' = EntryOf(m, FALSE)
    /\ NeighborAnnounced
    /\ UNCHANGED <<place, live, moves>>
    /\ Elsewhere

Environment ==
    \/ Moves
    \/ SentinelChanges
    \/ RoutesChange
    \/ \E g \in Gws : NdChanges(g)
    \/ Flush
    \/ ArpResolves

-----------------------------------------------------------------------------
(* The steps of "reconcile" that the daemons share.                        *)

MayFail == faults < MaxFaults

Fails == MayFail /\ faults' = faults + 1

\* What is read from the kernel is filtered on the interface's index, which
\* each reconcile resolves anew.
Visible == net # NoNet /\ live

Metrics == {routes[k].metric : k \in 1..Len(routes)}

\* The positions of the ::/0 routes with the lowest metric.
Lowest == {k \in 1..Len(routes) : routes[k].metric = Min(Metrics)}

\* Return from reconcile.
Done ==
    /\ pc' = "loop"
    /\ hostMac' = NoKey
    /\ gw' = NoGw
    /\ mac' = NoMac

\* if_nametoindex succeeds.
Found == live' = TRUE /\ pc' = "sentinel" /\ UNCHANGED local

\* The gate is open, as far as the daemon can tell.
CheckSentinel(open) ==
    /\ pc = "sentinel"
    /\ pc' = IF open THEN "hostmac" ELSE "withdraw"
    /\ UNCHANGED <<os, torn, place, entry, wake, stop, cache, live, local, past>>

\* The interface's own MAC is k.
ReadHostMac(k) ==
    /\ pc = "hostmac"
    /\ hostMac' = k
    /\ pc' = "router"
    /\ UNCHANGED <<os, torn, place, entry, wake, stop, cache, live, gw, mac, record, past>>

\* The default router is r.
FindRouter(r) ==
    /\ pc = "router"
    /\ gw' = r
    /\ pc' = IF r = NoGw THEN "lookup" ELSE "lladdr"
    /\ UNCHANGED <<os, torn, place, entry, wake, stop, cache, live, hostMac, mac, record, past>>

\* The router's MAC in the ND cache is m.
ReadLladdr(m) ==
    /\ pc = "lladdr"
    /\ mac' = m
    /\ IF m = NoMac
         THEN pc' = "lookup" /\ gw' = NoGw
         ELSE pc' = "check" /\ UNCHANGED gw
    /\ torn' = (torn \/ (m # NoMac /\ hostMac \notin {NoKey, OwnMac[net]}))
    /\ UNCHANGED <<os, place, entry, wake, stop, cache, live, hostMac, record, past>>

WrongLookup(m) ==
    /\ pc = "lookup"
    /\ mac' = m
    /\ pc' = "check"
    /\ UNCHANGED <<os, torn, place, entry, wake, stop, cache, live, hostMac, gw, record, past>>

\* The MAC stored under the own MAC is m.
Lookup(m) ==
    /\ pc = "lookup"
    /\ mac' = m
    /\ pc' = IF m = NoMac THEN "withdraw" ELSE "check"
    /\ UNCHANGED <<os, torn, place, entry, wake, stop, cache, live, hostMac, gw, record, past>>

\* install returned: a resolved address is stored, a remembered one is not.
AfterInstall ==
    IF gw # NoGw /\ hostMac # NoKey
      THEN pc' = "put" /\ UNCHANGED <<hostMac, gw, mac>>
      ELSE Done

WrongPut ==
    /\ pc = "put"
    /\ cache' = [k \in Keys |-> mac]
    /\ Done
    /\ UNCHANGED <<os, torn, place, entry, wake, stop, live, record, past>>

WrongPutOnce ==
    /\ pc = "put"
    /\ cache' = IF cache[hostMac] = NoMac THEN [cache EXCEPT ![hostMac] = mac] ELSE cache
    /\ Done
    /\ UNCHANGED <<os, torn, place, entry, wake, stop, live, record, past>>

\* router_cache_put: a file is written and renamed, or nothing is and nobody
\* notices.
Put ==
    /\ pc = "put"
    /\ \/ cache' = [cache EXCEPT ![hostMac] = mac] /\ UNCHANGED faults
       \/ cache[hostMac] # mac /\ Fails /\ UNCHANGED cache
    /\ Done
    /\ UNCHANGED <<os, torn, place, entry, wake, stop, live, record, moves, orphaned>>

-----------------------------------------------------------------------------
(* Start and end of the process. *)

\* A pin that is there when nobody is left who knows of it.
Abandon == orphaned' = (orphaned \/ Pinned)

NoMemory ==
    /\ live' = FALSE
    /\ hostMac' = NoKey
    /\ gw' = NoGw
    /\ mac' = NoMac
    /\ installed' = FALSE
    /\ installedMac' = NoMac

\* main up to the first reconcile; macOS does not require the interface.
\* Only the service still has to ask for notifications.
Start ==
    /\ ~ Alive
    /\ pc' = IF os = "windows" THEN "starting" ELSE "resolve"
    /\ stop' = FALSE
    /\ wake' = FALSE
    /\ UNCHANGED <<os, torn, place, entry, cache, live, local, past>>

Crash ==
    /\ Alive
    /\ Fails
    /\ pc' = "down"
    /\ NoMemory
    /\ Abandon
    /\ UNCHANGED <<os, torn, place, entry, wake, stop, cache, moves>>

\* launchd, systemd and the task scheduler start a process that died; for
\* the service nothing in the repository does.
Restart == pc = "down" /\ os # "windows" /\ Start

-----------------------------------------------------------------------------
TypeOK ==
    /\ os \in Oses
    /\ net \in Nets \cup {NoNet}
    /\ sentinel \in BOOLEAN
    /\ routes \in Seq([gw : Gws, metric : Nat])
    /\ nd \in [Gws -> Macs \cup {NoMac}]
    /\ entry \in [mac : Macs, static : BOOLEAN] \cup {NoEntry}
    /\ wake \in BOOLEAN
    /\ stop \in BOOLEAN
    /\ cache \in [Keys -> Macs \cup {NoMac}]
    /\ pc \in Steps
    /\ live \in BOOLEAN
    /\ hostMac \in Keys \cup {NoKey}
    /\ pc = "put" => hostMac \in Keys
    /\ gw \in Gws \cup {NoGw}
    /\ pc \in {"lladdr", "put"} => gw \in Gws
    /\ mac \in Macs \cup {NoMac}
    /\ pc \in {"check", "delete", "set", "overwrite", "put"} => mac \in Macs
    /\ installed \in BOOLEAN
    /\ installedMac \in Macs \cup {NoMac}
    /\ torn \in BOOLEAN
    /\ moves \in 0..MaxMoves
    /\ faults \in 0..MaxFaults
    /\ orphaned \in BOOLEAN
=============================================================================
