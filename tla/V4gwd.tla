------------------------------- MODULE V4gwd -------------------------------
(***************************************************************************)
(* host/v4gwd.py, the Linux host daemon, in its native RTA_VIA mode, and   *)
(* the part of the kernel it watches and programs.                         *)
(*                                                                         *)
(* The daemon sleeps in poll() on a netlink monitor, drains it, and        *)
(* reconciles every managed interface: resolve the ifindex, look for the   *)
(* sentinel default route, select an IPv6 router, check its neighbour      *)
(* state, install or withdraw one IPv4 default route.  Each of these is a  *)
(* netlink exchange of its own, so the kernel may change between any two   *)
(* of them; each is an action here.                                        *)
(*                                                                         *)
(* An ifindex is the pair of an interface name and a generation: the       *)
(* kernel gives an interface that went away and came back a fresh index.   *)
(***************************************************************************)
EXTENDS RouterPreference

CONSTANTS
    Ifaces,           \* names of the ethernet interfaces a host may have
    NoIface,          \* no interface
    NoRoute,          \* no route of this daemon in the IPv4 table
    RouterLists,      \* RouterLists[i]: the IPv6 default router lists of i
    RequireSentinel,  \* ~ --unconditional
    AutoIfaces,        \* no IFACE argument: manage what appears
    NudSeen,          \* bound: the states neighbours move to
    MaxGen,           \* bound: an interface is recreated MaxGen - 1 times
    FastReturn,       \* what was lost with a link may return before it is noticed
    MayRefuse,        \* the kernel may refuse a route change
    MayCrash,         \* the process may be killed
    MayStop           \* SIGTERM may arrive

ASSUME IfacesAssumption == NoIface \notin Ifaces
ASSUME NoRouteAssumption == NoRoute \notin [dev : Ifaces, gen : Nat, via : Gws]
ASSUME NoSlotAssumption == NoRoute \notin [dev : Ifaces, via : Gws]
ASSUME RouterListsAssumption ==
    /\ RouterLists \in [Ifaces -> SUBSET Seq(Entries)]
    /\ \A i \in Ifaces : <<>> \in RouterLists[i]
ASSUME NudSeenAssumption == NudSeen \subseteq NudStates
ASSUME MaxGenAssumption == MaxGen \in Nat \ {0}
ASSUME FlagsAssumption ==
    {RequireSentinel, AutoIfaces, FastReturn, MayRefuse, MayCrash, MayStop}
        \subseteq BOOLEAN

VARIABLES
    \* the kernel
    up,         \* up[i]: interface i exists
    gen,        \* gen[i]: generation of i's current (or next) ifindex
    sentinel,   \* sentinel[i]: i has a foreign IPv4 default via the sentinel
    routers,    \* routers[i]: the IPv6 default routes on i, in dump order
    nud,        \* nud[i][g]: neighbour state of g on i
    route,      \* the proto-199 IPv4 default route at the daemon's metric
    pending,    \* the monitor socket is readable
    wake,       \* the signal wakeup pipe is readable
    \* the daemon
    pc,         \* where it is
    running,    \* the global "running"
    known,      \* keys of the dict "ifaces"
    todo,       \* interfaces the current loop over ifaces has yet to visit
    cur,        \* the interface being reconciled
    gw,         \* its selected router
    index,      \* index[i]: generation in Interface.index, 0 for None
    installed   \* installed[i]: Interface.installed_via

env    == <<up, gen, sentinel, routers, nud>>
kernel == <<env, route, pending>>
local  == <<known, todo, cur, gw, index, installed>>
vars   == <<up, gen, sentinel, routers, nud, route, pending, wake,
            pc, running, known, todo, cur, gw, index, installed>>

Steps == {"down", "stopped", "refresh", "pass", "sentinel", "select", "nud",
          "install", "withdraw", "loop", "poll", "exit"}

\* Inside Interface.reconcile, past resolve_index.
Reconciling == {"sentinel", "select", "nud", "install", "withdraw"}

Alive == pc \notin {"down", "stopped"}

Routes == [dev : Ifaces, gen : Nat, via : Gws]

Quiet == pc = "poll" /\ ~ pending /\ ~ wake

-----------------------------------------------------------------------------
(* What the daemon reads from the kernel. *)

\* Routes are filtered on RTA_OIF, so a stale index matches none.
Live(i) == up[i] /\ index[i] = gen[i]

WrongNoOifFilter(i) ==
    IF Live(i) THEN routers[CHOOSE j \in Ifaces : routers[j] # <<>> \/ j = i] ELSE <<>>

DefaultRoutes(i) == IF Live(i) THEN routers[i] ELSE <<>>

SentinelPresent(i) == Live(i) /\ sentinel[i]

EthernetIfnames == IF AutoIfaces THEN {i \in Ifaces : up[i]} ELSE Ifaces

\* The next hop a daemon that saw everything at once would install for i.
Desired(i) ==
    IF ~ up[i] \/ (RequireSentinel /\ ~ sentinel[i])
      THEN NoGw
      ELSE Best(routers[i], nud[i])

\* The kernel route that Interface i's record claims.
Entry(i) == [dev |-> i, gen |-> index[i], via |-> installed[i]]

Init ==
    /\ up \in [Ifaces -> BOOLEAN]
    /\ gen = [i \in Ifaces |-> 1]
    /\ sentinel = [i \in Ifaces |-> FALSE]
    /\ routers = [i \in Ifaces |-> <<>>]
    /\ nud = [i \in Ifaces |-> [g \in Gws |-> "FAILED"]]
    /\ route = NoRoute
    /\ pending = FALSE
    /\ wake = FALSE
    /\ pc = "stopped"
    /\ running = TRUE
    /\ known = {}
    /\ todo = {}
    /\ cur = NoIface
    /\ gw = NoGw
    /\ index = [i \in Ifaces |-> 0]
    /\ installed = [i \in Ifaces |-> NoGw]

-----------------------------------------------------------------------------
(* The kernel and the programs that change it.  Every change is announced  *)
(* on the monitor's multicast groups; a message lost to a full socket      *)
(* buffer still makes the socket readable (ENOBUFS).                       *)

FlushRoutesOf(i) ==
    route' = IF route # NoRoute /\ route.dev = i THEN NoRoute ELSE route

\* The interface loses its routes: removed altogether, or set down and up.
LoseLink(i) ==
    /\ up[i]
    /\ sentinel' = [sentinel EXCEPT ![i] = FALSE]
    /\ routers' = [routers EXCEPT ![i] = <<>>]
    /\ nud' = [nud EXCEPT ![i] = [g \in Gws |-> "FAILED"]]
    /\ FlushRoutesOf(i)
    /\ pending' = TRUE
    /\ \/ gen[i] < MaxGen /\ up' = [up EXCEPT ![i] = FALSE]
                          /\ gen' = [gen EXCEPT ![i] = @ + 1]
       \/ UNCHANGED <<up, gen>>
    /\ UNCHANGED <<wake, pc, running, local>>

\* The record claims a route the kernel has dropped.
Unnoticed(i) == installed[i] # NoGw /\ route # Entry(i)

MayReturn(i) == FastReturn \/ ~ Unnoticed(i)

LinkAppears(i) ==
    /\ ~ up[i]
    /\ MayReturn(i)
    /\ up' = [up EXCEPT ![i] = TRUE]
    /\ pending' = TRUE
    /\ UNCHANGED <<gen, sentinel, routers, nud, route, wake, pc, running, local>>

\* The DHCPv4 client (or an administrator) adds or removes the sentinel.
SentinelChanges(i) ==
    /\ up[i]
    /\ sentinel[i] \/ MayReturn(i)
    /\ sentinel' = [sentinel EXCEPT ![i] = ~ @]
    /\ pending' = TRUE
    /\ UNCHANGED <<up, gen, routers, nud, route, wake, pc, running, local>>

\* RAs and lifetime expiries change the default router list.
RouterListChanges(i) ==
    /\ up[i]
    /\ RequireSentinel \/ MayReturn(i)
    /\ \E list \in RouterLists[i] \ {routers[i]} :
         routers' = [routers EXCEPT ![i] = list]
    /\ pending' = TRUE
    /\ UNCHANGED <<up, gen, sentinel, nud, route, wake, pc, running, local>>

\* g is one of the routers of i: only their neighbour states are ever read.
Advertised(i, g) ==
    \E list \in RouterLists[i] : \E k \in 1..Len(list) : list[k].gw = g

NudChanges(i, g) ==
    /\ up[i]
    /\ Advertised(i, g)
    /\ \E state \in NudSeen \ {nud[i][g]} :
         nud' = [nud EXCEPT ![i][g] = state]
    /\ pending' = TRUE
    /\ UNCHANGED <<up, gen, sentinel, routers, route, wake, pc, running, local>>

Environment ==
    \E i \in Ifaces :
        \/ LoseLink(i)
        \/ LinkAppears(i)
        \/ SentinelChanges(i)
        \/ RouterListChanges(i)
        \/ \E g \in Gws : NudChanges(i, g)

-----------------------------------------------------------------------------
(* The daemon.  A definition named Wrong... is not part of it: it is the   *)
(* definition after it with a plausible mistake, on which the properties   *)
(* below are tried.                                                        *)

\* main: open and bind the monitor; what happened before is not announced.
Start ==
    /\ pc \in {"down", "stopped"}
    /\ pc' = "refresh"
    /\ running' = TRUE
    /\ pending' = FALSE
    /\ wake' = FALSE
    /\ UNCHANGED <<env, route, local>>

\* refresh(), then the loop over ifaces.
Refresh ==
    /\ pc = "refresh"
    /\ known' = known \cup EthernetIfnames
    /\ todo' = known'
    /\ pc' = "pass"
    /\ UNCHANGED <<kernel, wake, running, cur, gw, index, installed>>

\* reconcile is done with cur: go on with the loop.
NextIface == pc' = "pass" /\ cur' = NoIface /\ gw' = NoGw

\* Interface.reconcile up to resolve_index.
ResolveIndex(i) ==
    /\ pc = "pass"
    /\ i \in todo
    /\ todo' = todo \ {i}
    /\ index' = [index EXCEPT ![i] = IF up[i] THEN gen[i] ELSE 0]
    /\ IF up[i]
         THEN /\ pc' = IF RequireSentinel THEN "sentinel" ELSE "select"
              /\ cur' = i
              /\ UNCHANGED <<gw, installed>>
         ELSE /\ installed' = [installed EXCEPT ![i] = NoGw]
              /\ NextIface
    /\ UNCHANGED <<kernel, wake, running, known>>

WrongDrainAfterPass ==
    /\ pc = "pass"
    /\ todo = {}
    /\ pc' = "loop"
    /\ pending' = FALSE
    /\ UNCHANGED <<env, route, wake, running, local>>

PassEnds ==
    /\ pc = "pass"
    /\ todo = {}
    /\ pc' = "loop"
    /\ UNCHANGED <<kernel, wake, running, local>>

WrongWithdrawIfActive == NextIface

\* Nothing to follow: withdraw if active, else on to the next interface.
WithdrawIfActive ==
    IF installed[cur] # NoGw
      THEN pc' = "withdraw" /\ UNCHANGED <<cur, gw>>
      ELSE NextIface

CheckSentinel ==
    /\ pc = "sentinel"
    /\ IF SentinelPresent(cur)
         THEN pc' = "select" /\ UNCHANGED <<cur, gw>>
         ELSE WithdrawIfActive
    /\ UNCHANGED <<kernel, wake, running, known, todo, index, installed>>

WrongSelectIgnoresNone ==
    /\ pc = "select"
    /\ gw' = Best(DefaultRoutes(cur), nud[cur])
    /\ pc' = "nud"
    /\ UNCHANGED <<kernel, wake, running, known, todo, cur, index, installed>>

Select ==
    /\ pc = "select"
    /\ LET best == Best(DefaultRoutes(cur), nud[cur])
       IN  IF best = NoGw
             THEN WithdrawIfActive
             ELSE gw' = best /\ pc' = "nud" /\ UNCHANGED cur
    /\ UNCHANGED <<kernel, wake, running, known, todo, index, installed>>

\* kick_nud: a datagram, bound to the interface by name, makes the kernel
\* start address resolution.
KickNud(i, g) ==
    nud' = IF up[i] /\ nud[i][g] = "FAILED"
             THEN [nud EXCEPT ![i][g] = "INCOMPLETE"]
             ELSE nud

CheckNud ==
    /\ pc = "nud"
    /\ IF Live(cur) /\ nud[cur][gw] \in NudUsable
         THEN UNCHANGED nud
         ELSE KickNud(cur, gw)
    /\ pc' = "install"
    /\ UNCHANGED <<up, gen, sentinel, routers, route, pending, wake, running, local>>

WrongAlwaysInstalls ==
    /\ pc = "install"
    /\ IF Live(cur)
         THEN /\ route' = [dev |-> cur, gen |-> index[cur], via |-> gw]
              /\ pending' = TRUE
              /\ installed' = [installed EXCEPT ![cur] = gw]
         ELSE UNCHANGED <<route, pending, installed>>
    /\ NextIface
    /\ UNCHANGED <<env, wake, running, known, todo, index>>

WrongRecordsRefused ==
    /\ pc = "install"
    /\ \/ /\ installed[cur] # gw
          /\ Live(cur)
          /\ route' = [dev |-> cur, gen |-> index[cur], via |-> gw]
          /\ pending' = TRUE
       \/ /\ installed[cur] = gw \/ ~ Live(cur) \/ MayRefuse
          /\ UNCHANGED <<route, pending>>
    /\ installed' = [installed EXCEPT ![cur] = gw]
    /\ NextIface
    /\ UNCHANGED <<env, wake, running, known, todo, index>>

\* "replace" is keyed by destination and metric, not by interface.
InstallRoute ==
    /\ pc = "install"
    /\ \/ /\ installed[cur] = gw
          /\ UNCHANGED <<route, pending, installed>>
       \/ /\ installed[cur] # gw
          /\ Live(cur)
          /\ route' = [dev |-> cur, gen |-> index[cur], via |-> gw]
          /\ pending' = TRUE
          /\ installed' = [installed EXCEPT ![cur] = gw]
       \/ /\ installed[cur] # gw
          /\ ~ Live(cur) \/ MayRefuse
          /\ UNCHANGED <<route, pending, installed>>
    /\ NextIface
    /\ UNCHANGED <<env, wake, running, known, todo, index>>

WrongHasRoute(i) == route # NoRoute /\ route.dev = i /\ route.gen # index[i]

\* The route a delete with oif=index and proto 199 matches.
HasRoute(i) == route # NoRoute /\ route.dev = i /\ route.gen = index[i]

\* Delete i's route; ESRCH and every other error are only logged, and the
\* record is cleared whatever the kernel answered.
WithdrawRoute(i) ==
    /\ \/ /\ HasRoute(i)
          /\ route' = NoRoute
          /\ pending' = TRUE
       \/ /\ ~ HasRoute(i) \/ MayRefuse
          /\ UNCHANGED <<route, pending>>
    /\ installed' = [installed EXCEPT ![i] = NoGw]

Withdraw ==
    /\ pc = "withdraw"
    /\ WithdrawRoute(cur)
    /\ NextIface
    /\ UNCHANGED <<env, wake, running, known, todo, index>>

WrongLoopSkipsWithdraw ==
    /\ pc = "loop"
    /\ pc' = IF running THEN "poll" ELSE "exit"
    /\ UNCHANGED <<kernel, wake, running, local>>

\* "while running" in serve, before blocking again.
Loop ==
    /\ pc = "loop"
    /\ pc' = IF running THEN "poll" ELSE "exit"
    /\ todo' = IF running THEN todo ELSE known
    /\ UNCHANGED <<kernel, wake, running, known, cur, gw, index, installed>>

\* poll() returns, both descriptors are drained, then "if running".
Wake ==
    /\ pc = "poll"
    /\ pending \/ wake
    /\ pending' = FALSE
    /\ wake' = FALSE
    /\ pc' = IF running THEN "refresh" ELSE "loop"
    /\ UNCHANGED <<env, route, running, local>>

\* main after serve: withdraw every active interface.
ExitWithdraw(i) ==
    /\ pc = "exit"
    /\ i \in todo
    /\ todo' = todo \ {i}
    /\ IF installed[i] # NoGw
         THEN WithdrawRoute(i)
         ELSE UNCHANGED <<route, pending, installed>>
    /\ UNCHANGED <<env, wake, pc, running, known, cur, gw, index>>

\* The memory of a process that ended is gone.
Forget ==
    /\ known' = {}
    /\ todo' = {}
    /\ cur' = NoIface
    /\ gw' = NoGw
    /\ index' = [i \in Ifaces |-> 0]
    /\ installed' = [i \in Ifaces |-> NoGw]

Exit ==
    /\ pc = "exit"
    /\ todo = {}
    /\ pc' = "stopped"
    /\ Forget
    /\ UNCHANGED <<kernel, wake, running>>

WrongSignalNoWakeup ==
    /\ MayStop
    /\ Alive
    /\ running
    /\ running' = FALSE
    /\ UNCHANGED <<kernel, wake, pc, local>>

\* stop(), with the byte the C handler writes to the wakeup pipe.
Signal ==
    /\ MayStop
    /\ Alive
    /\ running
    /\ running' = FALSE
    /\ wake' = TRUE
    /\ UNCHANGED <<kernel, pc, local>>

Crash ==
    /\ MayCrash
    /\ Alive
    /\ pc' = "down"
    /\ Forget
    /\ UNCHANGED <<kernel, wake, running>>

Reconcile ==
    \/ \E i \in Ifaces : ResolveIndex(i)
    \/ PassEnds
    \/ CheckSentinel
    \/ Select
    \/ CheckNud
    \/ InstallRoute
    \/ Withdraw

Daemon ==
    \/ Refresh
    \/ Reconcile
    \/ Loop
    \/ Wake
    \/ \E i \in Ifaces : ExitWithdraw(i)
    \/ Exit

Restart == pc = "down" /\ Start

Next == Environment \/ Start \/ Daemon \/ Signal \/ Crash

Spec == Init /\ [][Next]_vars

\* The process is scheduled, and systemd restarts it after a failure.
FairSpec == Spec /\ WF_vars(Daemon) /\ WF_vars(Restart)

-----------------------------------------------------------------------------
(* Properties.  "At rest" is Quiet: the daemon sleeps with nothing to      *)
(* read.                                                                   *)

TypeOK ==
    /\ up \in [Ifaces -> BOOLEAN]
    /\ gen \in [Ifaces -> 1..MaxGen]
    /\ sentinel \in [Ifaces -> BOOLEAN]
    /\ routers \in [Ifaces -> Seq(Entries)]
    /\ nud \in [Ifaces -> [Gws -> NudStates]]
    /\ route \in Routes \cup {NoRoute}
    /\ pending \in BOOLEAN
    /\ wake \in BOOLEAN
    /\ pc \in Steps
    /\ running \in BOOLEAN
    /\ known \subseteq Ifaces
    /\ todo \subseteq Ifaces
    /\ cur \in Ifaces \cup {NoIface}
    /\ pc \in Reconciling => cur \in Ifaces
    /\ gw \in Gws \cup {NoGw}
    /\ pc \in {"nud", "install"} => gw \in Gws
    /\ index \in [Ifaces -> 0..MaxGen]
    /\ installed \in [Ifaces -> Gws \cup {NoGw}]

(* No wake-up is lost: whatever the kernel did between the daemon's reads, *)
(* once at rest every interface's record is what its present sentinel,     *)
(* router list and neighbour states call for (module docstring: "a monitor *)
(* overrun degrades to a single redundant reconcile").                     *)
RecordsCurrent == Quiet => \A i \in Ifaces : installed[i] = Desired(i)

(* The daemon never loses track of a route it put into the kernel: the     *)
(* route it owns is always the one some Interface's record claims, so a    *)
(* later withdraw can find it.                                             *)
OwnedRouteRecorded ==
    route # NoRoute => installed[route.dev] # NoGw /\ route = Entry(route.dev)

(* The daemon never believes in a route it does not have: at rest, what a  *)
(* record claims is in the kernel, even when the kernel refuses changes.   *)
(* Needs a single interface, and losses noticed before what was lost       *)
(* returns.                                                                *)
ClaimsAreTrue ==
    Quiet => \A i \in Ifaces : installed[i] # NoGw => route = Entry(i)

(* Section 4 withdrawal: at rest the kernel holds no route through a       *)
(* router, an interface generation or a lease that is gone; a route there  *)
(* is exactly the one wanted on its interface now.                         *)
RouteIsWanted ==
    Quiet /\ route # NoRoute =>
        /\ up[route.dev]
        /\ route.gen = gen[route.dev]
        /\ route.via = Desired(route.dev)

(* "Cross-interface resolution MUST NOT be performed": the next hop of the *)
(* route was advertised on the route's own interface.                      *)
LinkScoped == route # NoRoute => Advertised(route.dev, route.via)

(* SIGTERM, whenever it arrives, leaves no route behind.                   *)
CleanStop == pc = "stopped" => route = NoRoute

\* The route and the records that claim one, by interface and next hop.
Slot == IF route = NoRoute THEN NoRoute ELSE [dev |-> route.dev, via |-> route.via]
Claimed == {[dev |-> i, via |-> installed[i]] : i \in {j \in Ifaces : installed[j] # NoGw}}

FG == INSTANCE FollowGateway WITH
        Empty <- NoRoute, slot <- Slot, claims <- Claimed, alive <- Alive, mishaps <- 0

(* A daemon that is neither killed nor refused keeps the promise of        *)
(* FollowGateway: all its interfaces together never have a route in the    *)
(* kernel that no record claims, not even for a moment, and leave none.    *)
Follows == FG!Spec

(* Once the kernel stops changing, the daemon stops too: the announcements *)
(* of its own route changes do not keep it awake.                          *)
Settles ==
    <>[][~ Environment]_vars /\ <>[](running /\ Alive) => <>[]Quiet

(* SIGTERM ends the daemon, even if it arrives just before poll().         *)
StopHonoured == Alive /\ ~ running ~> ~ Alive
=============================================================================
