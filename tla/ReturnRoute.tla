---------------------------- MODULE ReturnRoute ----------------------------
(***************************************************************************)
(* What the two ways to keep return routes on a router share: dnsmasq with *)
(* its leases and dhcp-script, the hosts as the neighbour cache sees them, *)
(* and the IPv4 routes and neighbours of the kernel.                       *)
(*                                                                         *)
(* The dhcp-script is either the notifier of v4gwrd.py, which writes each  *)
(* change to a FIFO that the daemon reads (V4gwrd), or v4gw-lease.sh, which *)
(* programs the route by itself (LeaseHook).                               *)
(***************************************************************************)
EXTENDS Integers, Sequences, FiniteSets

CONSTANTS
    Tools,            \* the scripts to run, each in behaviours of its own
    Macs,             \* link-layer addresses of hosts
    Ips,              \* IPv4 addresses of the pool
    Ifaces,           \* host-facing interfaces of the router
    NoIface,          \* an empty DNSMASQ_INTERFACE
    None,             \* Python's None; no record, no route
    HasPrefix,        \* the interfaces carry an advertised global /64
    UsableSets,       \* bound: the sets of next hops a host is reachable at
    MaxLines,         \* bound: lines on their way from dnsmasq
    MaxLeases,        \* bound: leases one MAC holds at a time
    MaxRefusals,      \* bound: route changes the kernel refuses
    MayLoseLink,      \* an interface may go down
    DaemonFirst,      \* leases change only while the daemon runs
    MayEnd,           \* the daemon may be stopped or killed, and restarted
    MayOmitIface,     \* dnsmasq may announce a change without an interface
    MayMiss,          \* the monitor may miss a change
    MayFailIo,        \* the state and lease files may not be readable or writable
    MayArp            \* the kernel may resolve a leased address by ARP

\* Kinds of next hop: the host's EUI-64 address on the advertised prefix, any
\* other global or unique-local address, and its link-local address.
Kinds == {"gua", "other", "ll"}

ASSUME NoneAssumption ==
    /\ None \notin Ips
    /\ None \notin Macs
    /\ None \notin Kinds
    /\ None \notin [iface : Ifaces, ip4 : Ips, nh : Kinds \cup {None},
                    armed : BOOLEAN]
    /\ None \notin [iface : Ifaces, mac : Macs, nh : Kinds]
    /\ NoIface \notin Ifaces
ASSUME ToolsAssumption == Tools \subseteq {"notify", "hook"}
ASSUME UsableSetsAssumption == UsableSets \subseteq SUBSET Kinds
ASSUME BoundsAssumption ==
    MaxLines \in Nat /\ MaxLeases \in Nat /\ MaxRefusals \in Nat
ASSUME FlagsAssumption ==
    {HasPrefix, MayLoseLink, DaemonFirst, MayEnd, MayOmitIface, MayMiss,
     MayFailIo, MayArp} \subseteq BOOLEAN

VARIABLES
    tool,       \* the script dnsmasq runs
    \* dnsmasq, the hosts and the kernel
    leases,     \* dnsmasq's leases: records [iface, mac, ip4]
    usable,     \* usable[f][m]: next hops of m in a usable state on f
    up,         \* up[f]: interface f exists
    rt,         \* rt[ip]: the IPv4 route to ip/32 that the tool put there
    arp,        \* arp[ip]: the interfaces with an IPv4 neighbour entry for ip
    fifo,       \* lines in the pipe, or in runs of the script yet to come
    pending,    \* the monitor socket is readable
    refused,    \* route changes refused so far
    \* the daemon, or the running script
    pc,         \* where it is
    hosts,      \* Manager.hosts
    saved,      \* the state file: saved[m] is [iface, ip4] or None
    unsaved,    \* the last attempt to write it failed
    blind,      \* the lease file could not be read when the daemon started
    buf,        \* lines read and not yet handled, or the script's arguments
    todo,       \* MACs reconcile_all has yet to evaluate
    cur,        \* the MAC being evaluated, None if there is none
    nhop,       \* its best next hop, or the one the script found
    ixLive      \* the ifindex evaluate looked up is still that interface

world  == <<tool, leases, usable, up, arp>>
files  == <<saved, unsaved, blind>>
kernel == <<usable, up, rt, arp, pending, refused>>
vars   == <<tool, leases, usable, up, rt, arp, fifo, pending, refused,
            pc, hosts, saved, unsaved, blind, buf, todo, cur, nhop, ixLive>>

Leases == [iface : Ifaces, mac : Macs, ip4 : Ips]
Lines  == [act : {"add", "old", "del"}, iface : Ifaces \cup {NoIface},
           mac : Macs, ip4 : Ips]
Hosts  == [iface : Ifaces, ip4 : Ips, nh : Kinds \cup {None}, armed : BOOLEAN]
Routes == [iface : Ifaces, mac : Macs, nh : Kinds]

Hook == tool = "hook"

\* Of the daemon, and of the script, which is at "poll" while it does not run.
Steps == {"down", "restore", "poll", "sweep", "lines", "record", "persist",
          "read", "install", "unarp"}
HookSteps == {"poll", "derive", "find", "again", "replace", "delete", "unarp"}

RoutedOver(ip, f) == rt[ip] # None /\ rt[ip].iface = f

\* The daemon's records.
Known == {m \in Macs : hosts[m] # None}

\* The daemon sleeps with nothing to read, or no script runs or waits.
Quiet == pc = "poll" /\ ~ pending /\ fifo = <<>>

Init ==
    /\ tool \in Tools
    /\ leases = {}
    /\ usable = [f \in Ifaces |-> [m \in Macs |-> {}]]
    /\ up = [f \in Ifaces |-> TRUE]
    /\ rt = [ip \in Ips |-> None]
    /\ arp = [ip \in Ips |-> {}]
    /\ fifo = <<>>
    /\ pending = FALSE
    /\ refused = 0
    /\ pc = IF Hook THEN "poll" ELSE "down"
    /\ hosts = [m \in Macs |-> None]
    /\ saved = [m \in Macs |-> None]
    /\ unsaved = FALSE
    /\ blind = FALSE
    /\ buf = <<>>
    /\ todo = {}
    /\ cur = None
    /\ nhop = None
    /\ ixLive = FALSE

-----------------------------------------------------------------------------
(* dnsmasq and the dhcp-script. *)

\* dnsmasq runs the script once per change, one run after another; the
\* notifier writes a line to the FIFO.  dnsmasq knows no interface for a lease
\* it read from its own file.
Notify(act, f, m, ip) ==
    \E named \in {f} \cup IF MayOmitIface /\ act # "add" THEN {NoIface} ELSE {} :
        fifo' = Append(fifo, [act |-> act, iface |-> named, mac |-> m, ip4 |-> ip])

CanAnnounce == Len(fifo) + Len(buf) < MaxLines /\ (DaemonFirst => pc # "down")

daemonVars == <<tool, pc, hosts, files, buf, todo, cur, nhop, ixLive>>

Grant(f, m, ip) ==
    /\ CanAnnounce
    /\ \A l \in leases : l.ip4 # ip
    /\ Cardinality({l \in leases : l.mac = m}) < MaxLeases
    /\ leases' = leases \cup {[iface |-> f, mac |-> m, ip4 |-> ip]}
    /\ Notify("add", f, m, ip)
    /\ UNCHANGED <<kernel, daemonVars>>

\* A renewal, a change of host name, or a move to another interface.
Renew(l, f) ==
    /\ CanAnnounce
    /\ leases' = (leases \ {l}) \cup {[l EXCEPT !.iface = f]}
    /\ Notify("old", f, l.mac, l.ip4)
    /\ UNCHANGED <<kernel, daemonVars>>

\* Expiry or DHCPRELEASE.
End(l) ==
    /\ CanAnnounce
    /\ leases' = leases \ {l}
    /\ Notify("del", l.iface, l.mac, l.ip4)
    /\ UNCHANGED <<kernel, daemonVars>>

\* The daemon is down and the oldest waiting run of the script gives up.
LoseLine ==
    /\ pc = "down"
    /\ fifo # <<>>
    /\ fifo' = Tail(fifo)
    /\ UNCHANGED <<leases, kernel, daemonVars>>

Dnsmasq ==
    \/ \E f \in Ifaces, m \in Macs, ip \in Ips : Grant(f, m, ip)
    \/ \E l \in leases, f \in Ifaces : Renew(l, f)
    \/ \E l \in leases : End(l)
    \/ LoseLine

-----------------------------------------------------------------------------
(* The kernel: neighbour discovery and links. *)

\* The daemon has a monitor, which may miss a change; the script has none.
Announce == pending' \in {~ Hook} \cup IF MayMiss THEN {pending} ELSE {}

CacheChanges(f, m) ==
    /\ up[f]
    /\ \E set \in UsableSets \ {usable[f][m]} :
         usable' = [usable EXCEPT ![f][m] = set]
    /\ Announce
    /\ UNCHANGED <<leases, up, rt, arp, fifo, refused, daemonVars>>

\* Removal, or down and up: routes and neighbours of f are flushed.
LoseLink(f) ==
    /\ up[f]
    /\ up' \in {up, [up EXCEPT ![f] = FALSE]}
    /\ usable' = [usable EXCEPT ![f] = [m \in Macs |-> {}]]
    /\ rt' = [ip \in Ips |-> IF RoutedOver(ip, f) THEN None ELSE rt[ip]]
    /\ arp' = [ip \in Ips |-> arp[ip] \ {f}]
    /\ Announce
    /\ ixLive' = (ixLive /\ (up'[f] \/ hosts[cur].iface # f))
    /\ UNCHANGED <<tool, leases, fifo, refused, pc, hosts, files, buf, todo, cur, nhop>>

LinkAppears(f) ==
    /\ ~ up[f]
    /\ up' = [up EXCEPT ![f] = TRUE]
    /\ Announce
    /\ UNCHANGED <<leases, usable, rt, arp, fifo, refused, daemonVars>>

\* Traffic to a leased address that is not routed to the host's interface
\* makes the kernel look for it there by ARP; the entry stays.
ArpForms(l) ==
    /\ MayArp
    /\ up[l.iface]
    /\ ~ RoutedOver(l.ip4, l.iface)
    /\ l.iface \notin arp[l.ip4]
    /\ arp' = [arp EXCEPT ![l.ip4] = @ \cup {l.iface}]
    /\ Announce
    /\ UNCHANGED <<leases, usable, up, rt, fifo, refused, daemonVars>>

Kernel ==
    \/ \E l \in leases : ArpForms(l)
    \/ \E f \in Ifaces :
         \/ \E m \in Macs : CacheChanges(f, m)
         \/ MayLoseLink /\ LoseLink(f)
         \/ LinkAppears(f)

-----------------------------------------------------------------------------
(* What both do to the kernel.                                             *)

WrongWithdrawRoute(ip) == UNCHANGED <<rt, pending, refused>>

\* "route del ip/32"; an error is logged, if that, and forgotten.
WithdrawRoute(ip) ==
    \/ /\ rt[ip] # None
       /\ rt' = [rt EXCEPT ![ip] = None]
       /\ pending' = ~ Hook
       /\ UNCHANGED refused
    \/ /\ rt[ip] = None
       /\ UNCHANGED <<rt, pending, refused>>
    \/ /\ refused < MaxRefusals
       /\ refused' = refused + 1
       /\ UNCHANGED <<rt, pending>>

\* "neigh del ip dev f": nothing is wrong with there being none.
Unarp(ip, f) == arp' = [arp EXCEPT ![ip] = @ \ {f}]

-----------------------------------------------------------------------------
TypeOK ==
    /\ tool \in Tools
    /\ leases \subseteq Leases
    /\ usable \in [Ifaces -> [Macs -> SUBSET Kinds]]
    /\ up \in [Ifaces -> BOOLEAN]
    /\ rt \in [Ips -> Routes \cup {None}]
    /\ arp \in [Ips -> SUBSET Ifaces]
    /\ fifo \in Seq(Lines)
    /\ pending \in BOOLEAN
    /\ refused \in 0..MaxRefusals
    /\ pc \in IF Hook THEN HookSteps ELSE Steps
    /\ hosts \in [Macs -> Hosts \cup {None}]
    /\ saved \in [Macs -> [iface : Ifaces, ip4 : Ips] \cup {None}]
    /\ unsaved \in BOOLEAN
    /\ blind \in BOOLEAN
    /\ buf \in Seq(Lines)
    /\ pc \in {"lines", "record", "persist"} \/ (Hook /\ pc # "poll") => buf # <<>>
    /\ pc = "record" \/ (Hook /\ pc # "poll") => Head(buf).iface # NoIface
    /\ todo \subseteq Macs
    /\ cur \in Macs \cup {None}
    /\ pc \in {"read", "install"} => cur \in Macs
    /\ nhop \in Kinds \cup {None}
    /\ pc \in {"install", "replace"} => nhop \in Kinds
    /\ pc \in {"install", "unarp"} /\ ~ Hook => cur \in Known
    /\ ixLive \in BOOLEAN
=============================================================================
