# A verification development for v4-with-v6-nh

The repository implements draft-vanmook-intarea-ipv6-resolved-gateway: a host
whose DHCPv4 lease names the sentinel 192.0.0.11 as its gateway never ARPs for
it, but follows its IPv6 default router; a router reaches each host's IPv4 /32
through that host's own IPv6 address.  The programs that do this are small
daemons which compare what the kernel says with what they remember having done
to it.  Almost everything that can go wrong in them is a matter of order: the
kernel changes between two reads, a link goes and comes back, a lease moves
while a line about it is in a pipe, a process dies between two steps.

This directory holds TLA+ modules of these daemons, TLC configurations that
check them on small instances, and TLAPS proofs for every value of the
constants.  Sections 1 and 2 are the inventory and the plan; sections 3 to 7
say what is there.

## 1. Inventory

| Component | State it keeps | Operations | Talks to |
|---|---|---|---|
| Router selection, Linux (`host/v4gwd.py` 175-189) | best gateway and its key, while it loops | one iteration per IPv6 default route | kernel: one dump, one neighbour query per route |
| Linux host daemon (`host/v4gwd.py`) | `running`; per interface `index`, `installed_via`, `installed_mac` | refresh, reconcile, install, withdraw, stop | kernel by netlink (dumps, changes, multicast monitor); signals by a wakeup pipe |
| its pre-5.2 mode (`host/v4gwd.py` 224-277) | `installed_mac` | pin and delete a permanent IPv4 neighbour | kernel neighbour table |
| FreeBSD host daemon (`host/freebsd/v4gwd.c`) | `route_installed`, `installed_gw`, `ifindex` | select from `nd6_drlist`, static fallback, change-or-add, delete | routing socket, sysctl, state file of a dhclient hook |
| macOS host daemon (`host/macos/v4gwd-arp.c`) | `arp_installed`, `installed_mac`, a router-MAC cache on disk | reconcile, `arp -s`, `arp -d` | routing socket, sysctl, arp(8) |
| Windows host daemon (`host/windows/v4gwd.c`, `.ps1`) | `g_installed`, `g_installed_mac`, cache in the registry | reconcile, replace or delete a permanent neighbour | IP Helper, three change callbacks, stop and wake events |
| Router return-route daemon (`router/debian/.../v4gwrd.py`) | `hosts`, the state file, a line buffer | on_lease, on_release, evaluate, sweep, persist, restore | dnsmasq through a FIFO and its lease file; kernel by netlink |
| Lease notifier (`v4gw-lease-notify.sh`) | none | write one line, give up after 2 s | dnsmasq, FIFO |
| One-shot lease hook (`v4gw-lease.sh`) | none | resolve a next hop, replace or delete a /32 | dnsmasq, kernel |
| systemd-networkd patch | in systemd | route request deferred to the first RA | systemd |
| Configurations, lab, packaging, legacy prototypes | none of their own | | |

What each component has to get right:

- *Selection*: the best router by preference, then reachability; something
  whenever there is a candidate; equals told apart the same way
  everywhere.
- *Linux host daemon*: no lost wake-up; the record agrees with the kernel; the
  route is the one wanted now, on its own interface; no route is left behind
  by a stop, a lost lease or a lost router; the daemon comes to rest, and ends
  when told to.
- *Static-neighbor daemons*: as above with an entry instead of a route, and
  a persisted MAC that must not outlive its network.
- *FreeBSD daemon*: as above, without neighbour notifications, in a table where
  dhclient puts a default route of its own, and reading one message per
  wake-up.
- *Return-route daemon*: records are leases, whatever the order of grants,
  moves and releases; every route has a record, so that it can be withdrawn;
  a route never leads an address to a host that does not hold it; a restart
  recovers; a missed event heals.
- *Lease hook*: whatever it finds in its one look, and however late, no
  address stays routed to a host that no longer leases it, and no IPv4
  neighbour entry stays beside a route.

The behaviours that are hard to test: several netlink exchanges in one
reconcile with the kernel changing between them; an ifindex that is stale when
used; the daemon's own changes waking it again; a signal just before `poll()`;
SIGKILL between any two steps; lines lost while the daemon is down; refused
route changes; state and lease files that cannot be read or written; ARP
resolving an address that is about to be routed; two leases or two interfaces
competing for one route.
`PROJECT.json` lists each with its line.

## 2. Plan

Modules, in order:

1. `RouterPreference`, `SelectRouter`: selection. *Done.*
2. `V4gwd`: the Linux host daemon in its native mode. *Done.*
3. `ReturnRoute`, `V4gwrd`, `LeaseHook`, `ReturnRoutes`: the two ways to keep
   return routes, on the same dnsmasq, leases and kernel.  *Done.*
4. `FreeBsdGwd`: the FreeBSD host daemon with its selection.  *Done.*
5. `StaticNeighbor`, `MacGwd`, `WinGwd`, `PsGwd`, `LinGwd`, `NeighborDaemons`:
   the daemons that pin a neighbour entry.  *Done.*
6. `FollowGateway`: what every host daemon promises of the one place in the
   kernel it writes to; `V4gwd`, `FreeBsdGwd` and `NeighborDaemons` implement
   it.  *Done.*

Section 5 has a theorem for every safety property that a run checks and for
every refinement.  Worth proving beyond that: what survives of
`ClaimsAreTrue` with several interfaces, and weaker assumptions for
`RouteReachesLessee` (after a restart, after a refused deletion).

## 3. The modules

**`RouterPreference`** has the vocabulary of selection: `PrefRank`
(`PREF_RANK`), `KeyOf` (the tuple of line 186), `AtLeast` (Python's `>=` on
it), and `Best`, what `select_router` returns when every query sees the same
neighbour states.

**`SelectRouter`** is the loop of `select_router`, one action per iteration.
The dump is one answer; each iteration queries a neighbour state of its own,
so `Examine` takes any.  A history variable keeps the keys as read.

**`V4gwd`** is the process of `host/v4gwd.py` and the kernel around it.

| Code | Model |
|---|---|
| `main` up to `bind` | `Start`: what happened earlier is not announced |
| `refresh`, `for i in ifaces.values()` | `Refresh`, `todo` |
| `reconcile`: `resolve_index` / `sentinel_present` / `select_router` / `nud_state`, `kick_nud` / `install` / `withdraw` | `ResolveIndex`, `CheckSentinel`, `Select`, `CheckNud`, `InstallRoute`, `Withdraw`; the kernel may act between any two |
| `Interface.index` | `index[i]`, the generation of the interface it was resolved for; `Live(i)` says it is still right |
| `while running`, `poll`, drain | `Loop`, `Wake` |
| `stop` and the wakeup pipe | `Signal`, `wake` |
| the loop after `serve` | `ExitWithdraw`, `Exit` |
| SIGKILL, uncaught errors | `Crash`; `Restart` is systemd's |
| links, DHCPv4 client, RAs, neighbour discovery | `LoseLink`, `LinkAppears`, `SentinelChanges`, `RouterListChanges`, `NudChanges` |

The selection inside `Select` is `Best` on one snapshot; that the states may
be read at different moments is the subject of `SelectRouter`, and since every
neighbour change is announced, it does not matter at rest.  A monitor overrun
makes the socket readable like a message does, so both are `pending`.  The
kernel has one slot for the daemon's route, because a replace is keyed by
destination and metric.

**`FollowGateway`** is the abstract specification of a host daemon: a `slot`
in the kernel, what the daemon `claims` of it, whether it is `alive`, and how
many `mishaps` (kills, refused calls) there were.  `Take` writes and claims in
one step; `Release` empties the slot or drops claims of what is not there;
`Stop` leaves nothing of its own; only a `Mishap` loses a claim to something
that is there.  It stands for no code.  Each host module maps its state to
these four variables (`Slot` or `Pin`, `Claimed`) and has `Follows ==
FG!Spec`.  What may fill the slot is left to each module's own properties.

**`ReturnRoute`** has what the two ways to keep return routes share: dnsmasq
with its leases and the runs of its dhcp-script, the hosts as the neighbour
cache sees them, the routes (`rt`) and IPv4 neighbour entries (`arp`) of the
kernel, and `WithdrawRoute` and `Unarp`, which daemon and hook both do.
**`V4gwrd`** is the process of `v4gwrd.py`, **`LeaseHook`** the script
`v4gw-lease.sh`, and **`ReturnRoutes`** composes them: `tool` says which of
the two a behaviour is about, as `os` does for the static-neighbor daemons.

| Code | Model |
|---|---|
| dnsmasq grants, renews or ends a lease and runs its script | `Grant`, `Renew`, `End`, each with `Notify` |
| the write of a notifier run times out | `LoseLine`: the oldest waiting run goes first, because dnsmasq runs them one after another |
| ARP for a leased address that is not routed | `ArpForms` |
| `main`, `restore`, first `reconcile_all` | `Start`, `Restore`, `Sweep`; `blind` when the lease file could not be read |
| `serve` | `WakeMonitor`, `WakeFifo`, `Timeout` |
| `evaluate` | `ReadNexthop`, `Install`, `DropArp`; `ixLive` says the ifindex looked up is still the interface's |
| `handle_line`, `on_lease`, `on_release` | `DropLine`, `OnLease` + `Record` + `Persist` + `ReadNexthop`, `OnRelease` + `Persist` |
| `persist` | `Persist`: the rename makes it one step; `unsaved` when it failed |
| SIGTERM, SIGKILL | `EndDaemon`: neither withdraws a route |
| the hook: arguments / `gua_nexthop` / `find_nexthop`, ping, again / `ip route replace` / `ip route del` / `ip -4 neigh del` | `HookStart`, `Derive`, `Find`, `Replace`, `Delete`, `HookUnarp`; leases and neighbours may change between any two |

The lines waiting in the FIFO are, for the hook, the runs dnsmasq has yet to
start.  An IPv6 next hop is one of three kinds, the EUI-64 address, another
global one, and the link-local one: the preference is among kinds.  The GUA
probe of the daemon is the flag `armed`; its effect on the neighbour cache,
like that of the hook's ping, is one of the changes `CacheChanges` may make.

**`FreeBsdGwd`** is `host/freebsd/v4gwd.c` with the routing table, the ND
default router list, the hook's state file and dhclient.

| Code | Model |
|---|---|
| `main` up to the loop | `Start` |
| `reconcile`: `if_nametoindex` / sentinel / `select_router` / `static_default_router` | `Resolve`, `CheckSentinel`, `Select`, `SelectStatic` |
| `install`: record compared / RTM_ADD / RTM_CHANGE | `Install`, `Add`, `Change` |
| `withdraw`, `main` after the loop | `Withdraw`, `Exit` |
| `while (running)`, `poll` with and without a message, `rtm_pid == getpid()` | `Loop`, `ReadEvent`, `Timeout` |
| the signal handler | `Signal`: in `poll()` it ends the call, between the test of `running` and `poll()` it does not, and `Timeout` must |
| the message of the daemon's own change | `echo`, beside `event` for those of others |
| dhclient, its exit hook, `route(8)`, links, RAs | `DhclientRoutes`, `HookRuns`, `StaticChanges`, `LoseLink`, `LinkAppears`, `ListChanges` |

The selection is a recursive function of the number of entries examined, the
loop body being `Examine`.

**`StaticNeighbor`** is the host of the daemons that pin a neighbour entry and
the steps of `reconcile` they share: gate, own MAC, router, ND entry, map of
remembered MACs, map update, each a step of its own between which the host may
move.  The history variable `torn` becomes true when a reconcile reads its own
MAC on one network and a router's on another with a different own MAC.  It is
mapped to the macOS source, whose functions have the same names on Windows.
**`MacGwd`**, **`WinGwd`**, **`PsGwd`** and **`LinGwd`** (the pre-5.2 mode of
`v4gwd.py`) have what each reads from the system, which they pass to the shared
steps, and the steps that differ.

| Code | Model |
|---|---|
| macOS: first route of the dump; `install` by `arp -s`; `withdraw` by `arp -d`; `poll`; the signal handler, which may come just before `poll` | `MacRouter`, `MacCheck` + `MacSet`, `MacUnpin`, `MacPoll`, `MacSignal` |
| Windows: registration of the notifications; first of the lowest metric; delete, create, set; wake and stop events | `WinRegister`, `WinRouter`, `WinCheck` + `WinDelete` + `WinCreate` + `WinOverwrite`, `WinWait` |
| Linux: one of the best preference; `_pin_neighbor`; `withdraw`; `poll` without a timeout, woken by neighbour messages too | `LinRouters`, `LinReadLladdr` + `LinCheck` + `LinReplace`, `LinUnpin`, `LinWake` |
| script: a lowest metric; remove, create or throw; `finally`; sleep | `PsRouters`, `PsCheck` + `PsDelete` + `PsCreate`, `PsExit`, `PsSleep` |
| `arp_installed`, `installed_mac` and their likes; none in the script | `installed`, `installedMac` |
| `/var/db/v4gwd-arp/`, the registry | `cache`, one router MAC per own MAC; it survives the process; Linux has none |
| launchd `KeepAlive`, systemd `Restart`, the scheduled task's `RestartCount` | `Restart`; nothing restarts the service |

**`NeighborDaemons`** composes them: a behaviour is one daemon (`os`) on that
host, so that every property is about all four, unless it names one.

Operators named `Wrong...` are plausible mistakes in the definition after
them; no specification uses them.  Each property is known to fail on at least
one of them.

## 4. Runs

| Run | Shows |
|---|---|
| `SelectRouter` | `SelectsBest`: no router is preferred to the returned one, nor reachable at the same preference if it is not, each as it was read |
| `V4gwdTwo` | `RecordsCurrent`, `OwnedRouteRecorded`, `RouteIsWanted`, `LinkScoped`, `CleanStop`, `Follows` with two interfaces, recreation and SIGTERM |
| `V4gwdLive` | `TypeOK`, `ClaimsAreTrue`, `Settles`, `StopHonoured` with kills, restarts, refusals and SIGTERM |
| `ReturnRoutes` | `TypeOK`, `RecordsAreLeases`, `RoutesFollow`, `RouteReachesLessee`, `NoRouteWithoutLease`, for daemon and hook, with an address that changes hands and hosts that roam |
| `ReturnRoutesFaults` | `RouteHasRecord`, `NoArpEntry`, for both, with lost links, a refusal, unnamed interfaces, two leases per MAC, ARP |
| `V4gwrdRestart` | `RecordsAreLive`, `RecordsAreSaved`, `SweepHeals` with kills, lost lines, missed events, failing I/O, and two hosts that take turns at one address |
| `FreeBsdGwd` | `TypeOK`, `SelectsLowest`, `RouteRecorded`, `CleanStop`, `RouteFollows`, `Heals`, `StopHonoured`, `Follows` |
| `FreeBsdReserved` | *fails*: `ReservedIgnored` with a list of reserved routers |
| `NeighborPins` | `TypeOK`, `PinRecorded`, `CleanStop`, `CacheTrue`, `NoStaleMac`, `RestsRight`, `Follows` for the four static-neighbor daemons, moved at any moment |
| `NeighborLive` | `Heals`, `CacheCorrected`, `Settles`, `StopHonoured` for the same |
| `V4gwrdBounce` | *fails*: `Heals` when a link loses its routes |
| `V4gwrdOrphan` | *fails*: `NoRouteWithoutLease` after a restart |

Most safety properties are about a daemon *at rest* (`Quiet`: asleep in
`poll()` with nothing to read).  While it works, its record is necessarily
behind the kernel; what matters is that it does not go back to sleep like
that.  The Linux daemons have no timer at all, so for them this is the
whole of correctness (`RecordsCurrent`, `RestsRight`).  In `V4gwd`,
`RecordsCurrent` (the record is what is wanted) and
`ClaimsAreTrue` (the kernel has what is recorded) together say that the route
follows the router.

The runs that fail show disagreements of code and documentation; `PROJECT.json`
quotes both sides.

- *Reserved preference, FreeBSD.* `pref_rank` says that a reserved router is
  ignored; the loop that uses it selects one when nothing else is listed.
- *Bounce, router.* `evaluate` compares the next hop with what it remembers,
  not with the kernel, so the sweep does not repair a route that was flushed
  with its link.
- *Orphan, router.* `restore` prunes records of leases that ended while the
  daemon was down, but their routes are in the kernel and stay.

Four more disagreements have no run of their own; the properties are stated so
that they hold whichever side is right, or name the case they leave out.

- *Ties, Linux.* Of equal routers `select_router` returns the last in the dump,
  as its docstring says and `SelectionCorrect` proves.
  `docs/conformance.md:40` and `freebsd/v4gwd.c:121` say that all
  implementations take the lowest address.  `SelectsBest` leaves it open.
- *No router left, macOS and Windows.* The headers of the three programs say
  that the entry is removed when no usable router remains
  (`v4gwd-arp.c:26`, `v4gwd.c:29`, `v4gwd.ps1:30`); with none listed they pin
  the remembered MAC instead.  `Heals` allows either.
- *Torn reconcile, macOS and Windows.* The own MAC is read before the router's,
  so a move in between stores the new network's router under the key of the
  network left, where the comment on the map calls it safe
  (`v4gwd-arp.c:98`).  `StoredTrue` fails then; `CacheTrue` says that nothing
  else makes it fail, and `CacheCorrected` that it does not last on a network
  whose router resolves.
- *Blind restart, router.* When `restore` cannot read the lease file it trusts
  every saved record, also one of a lease that ended while the daemon was down
  and whose address another host has now.  Two records name that address, the
  sweep installs one route after the other, and then the recorded next hop of
  the lessee never differs from its best one: traffic goes to the former host
  until something changes, although `v4gwrd.py:34` has the sweep heal.
  `SweepHeals` and `RecordsAreLive` say that they need the file (`~ blind`).

Further behaviour the models show with other constants, for which there is no
run: a bounce that is over before `v4gwd` has run leaves no route, because
`_install_route` too compares with its record (`ClaimsAreTrue` with
`FastReturn`), and the same holds on FreeBSD (`RouteFollows` with
`FastReturn`); two interfaces share one route slot, the loser keeps its record
and does not install again when the winner withdraws; with `-r` the FreeBSD
daemon's own route replaces the one the gate looks for, as its README says
(`Mode = "fib"`); networks that share an own MAC share the remembered router
too, as the comment on the map says (`NoStaleMac` with such an `OwnMac`); a
killed `v4gwd` leaves a route that its successor does not withdraw when the
sentinel has gone (`RouteIsWanted` with `MayCrash`); a router that is listed
but unreachable keeps its route, as the comment at line 311 intends and the
docstring does not; a refused return route is recorded as installed
(`SweepHeals` with `MaxRefusals = 1`); a line that was written before a restart
and is handled after it takes the route from a restored record, which is not
installed again (`SweepHeals` without its third condition); a lease granted
while `v4gwrd` is down is not learned by the restart (`RecordsAreLeases` with
`DaemonFirst = FALSE`); the end of one of two leases of a MAC removes the
record of the other; a release without an interface is ignored and its route
stays (`NoRouteWithoutLease` with `MayOmitIface`); a pin the Linux daemon was
refused is not tried again before something is announced (`RestsRight` without
`faults = 0`); a hook that finds no next hop leaves a host without a route
until its next lease event (`RoutesFollow` is about the daemon's records only).

### Bounds

- `SelectRouter`: dumps of at most three entries over two routers, each
  preference but medium (which ranks as absent does), and an entry without a
  gateway.  Three entries allow a winner before, between and after others.
- `MaxGen = 2`: an interface is recreated once, enough for an index that is
  stale when used.
- `V4gwdTwo`: two interfaces with one router each; two contenders for the slot
  are the least that can conflict.  `V4gwdLive`: two routers on one interface
  in lists of different order, length and preference.
- `FastReturn = FALSE` in `V4gwdLive` and `FreeBsdGwd`: what was lost with a
  link (interface, sentinel, or router list when no sentinel is required) does
  not return before the daemon has noticed.
- `FreeBsdGwd`: three routers, one of them static, in lists whose lowest
  address is neither first nor last, with one of another interface in front;
  two refused calls.  Gate "file" is the mode the hook serves.
- `NeighborPins`: two networks, each with an own MAC and a router of its own,
  two changes of network, one failing call or kill.  Two networks are what a
  key can confuse, and two moves lead away and back.  `NeighborLive`: two
  networks with one own MAC, the case in which the key of the map is wrong, one
  of them with two routers in an order that is not that of their metrics; one
  move, one failing call or kill, no gate.  A move may come between any two
  steps of a reconcile, with the new network's router resolved at once.
- `MaxLines`: one to three lines between dnsmasq and the daemon, so a release
  and the grant that follows it are in flight together.
- `MaxLeases`: one lease per MAC, two in `ReturnRoutesFaults`.
  `MaxRefusals`: one.
- `ReturnRoutes`: two hosts, one address, two interfaces: the address changes
  hands and the hosts roam.  `ReturnRoutesFaults`: two hosts, two addresses,
  one interface that is lost, hosts seen at both their addresses or not at all.
  `V4gwrdRestart`: two hosts and one address, the least in which two records
  can name one, each seen at a global address that is not its EUI-64 one or not
  at all.  Its three
  lines are needed for a stale one to undo a restart.
- `Tools`: both in the first two, the daemon alone in the `V4gwrd...` runs; the
  hook has no memory that a restart or a sweep could be about.
- `MayArp` only where `NoArpEntry` is checked: nothing reads those entries.
  `MayFailIo` only in `V4gwrdRestart`: the files are read at a start.
- Symmetry is used in runs without temporal properties only: hosts, addresses
  and interfaces are interchangeable in `ReturnRoutes`.

Only `SelectRouter` may stop (its loop ends), so only its run switches deadlock
checking off.

### Fairness

`V4gwd`: the process is scheduled (`WF_vars(Daemon)`), and systemd restarts it
after a failure (`Restart=on-failure`), not after a stop.  `Settles` assumes
that the environment is eventually still, and says nothing about it.
`FreeBsdGwd`: `WF_vars(Daemon)`; `poll` times out after the interval, which is
what `Heals` rests on, and `StopHonoured` when the signal comes just before
`poll`.  `NeighborDaemons`: `WF_vars(Daemon)` and
`WF_vars(Restart)`, launchd's, systemd's or the task scheduler's; the interval
ends every wait but that of the Linux daemon.  `Heals` and `Settles` there
assume that the host is eventually left alone and the daemon not stopped, and
for the Windows service, which nothing in the repository restarts, that it
runs.
`ReturnRoutes`: `WF_vars(~ Hook /\ Daemon)`, which includes the restart and the
timeout of `poll`, and `WF_vars(Hook /\ HookNext)`: a script that dnsmasq
started runs to its end. `Heals` assumes that leases, links, neighbours and the
process are eventually left alone. `SweepHeals` also assumes that the lease
file was readable at the last restart and that the FIFO is empty when a
restarted daemon restores its records; TLC finds it violated without either.
`CacheCorrected` assumes of the routers only that those followed are eventually
resolved. No fairness is assumed of the environment.

## 5. Proofs

`SelectRouterProofs`: type correctness (`TypeCorrect`); `SelectionCorrect` for every dump, from
the loop invariant "what was kept is the last best of the prefix examined",
and `SelectionBest`, which follows.  They rest on the key order being total
and transitive (`AtLeastOrder`).

`V4gwdProofs`, for every set of interfaces, routers, lists, and every bound:

- `TypeCorrect`.
- `LinkScopedAlways`: also with kills and refusals.  Invariant `ScopeInv`: the
  selected router of the interface in hand, and every recorded and installed
  one, was advertised on that interface.
- `RecordsCurrentAtRest`: "no lost wake-up".  Invariant `FreshInv`: unless a
  wake-up is due, every interface the current pass has done with has the
  record its present state calls for, and what has been read of the one in
  hand is still true.  A change breaks the second half and sets `pending`,
  which makes it vacuous; `Wake` clears `pending` and empties the first half.
  It is needed because at rest nothing but the history of the pass relates
  record and kernel.
- `OwnedRouteAlwaysRecorded`, `RouteWantedAtRest`, `StopIsClean` from
  `OwnedInv`: the route in the kernel is one that a record claims with its
  interface and index, and after the exit loop has visited an interface, it is
  not that one's.
- `ClaimsAlwaysTrue` from `NoticeInv`: a record that claims what the kernel
  has dropped belongs to an interface that is gone, or lost what the daemon
  looks for first (`Gone`), and either a wake-up is due or the daemon is at a
  step from which it withdraws (`WillNotice`).  `Gone` is needed because
  `_install_route` compares with the record alone: if the router were back,
  it would install nothing.  The route in the kernel being of the present
  generation (`RouteLive`) is what keeps a newly read index from turning a
  true claim into a false one.  Assumes `OneSteady`, which is a single
  interface and not `FastReturn`; kills, refusals and signals are included.
- `RouteAlwaysFollowsRouter`, from all of these: with `OneSteady` and
  `Reliable`, the route at rest is exactly the one wanted, and there is none
  when none is.

`RecordsCurrentAtRest` and those from `OwnedInv` assume `Reliable`: the process
is not killed and the kernel refuses nothing.  Without it they are false
(section 4).

`V4gwdFollows`: `DaemonFollows`, under `Reliable` too, is the refinement of
`FollowGateway`.  Its invariant is the type invariant, `OwnedInv` and
`Forgetful` (a process that is not there has no record).  The step that
matters is `Release`: link loss, a vanished interface, a withdrawal and the
exit loop may clear a record only if the route it claims is not there, which
is what `OwnedInv` says of the next state.

`FollowGatewayProofs`: `AlwaysAccounted`, about the abstract specification
itself and so about everything that implements it: until the first mishap,
what is in the slot is claimed by a running daemon.

`FreeBsdGwdProofs`, with every bound and, but for the last, in every mode:

- `SelectionLowest`: for every list, the answer is the lowest address among the
  most preferred routers of the interface.  Induction over data is out of the
  prover's reach, but a natural number that fails has a least one that fails
  (`LeastOf`), and that is enough for a loop that counts: that the recursive
  function exists (`ScanExists`), and that after every turn what is kept wins
  over the prefix examined (`ScanWins`).
- `TypeCorrect`, and `SelectsLowestAlways` for each reconcile.
- `RouteAlwaysRecorded` and `StopIsClean`, from `OwnedInv`: besides the two
  properties, a route of ours is on the interface and the index the daemon
  knows (`Placed`).  Without that conjunct `RouteRecorded` is not inductive:
  when the daemon resolves a new index and forgets the old one, it is `Placed`
  that says no route was left on it.  Kills and refused deletes are not
  assumed away; the properties name them (`orphaned`).
- `DaemonFollows`, the refinement of `FollowGateway`, with kills and failing
  calls, from `OwnedInv` and `MemoryInv`: a process that is not there has no
  record, and an orphan none either.
- `RouteFollowsAtRest` from `RightInv`: while no message waits and nothing
  failed (`Calm`), what the reconcile has read is still so and what it will do
  is right (`Known`), and a record that claims what the table lost finds
  nothing to follow (`NoticedInv`).  Assumes `Steady`: not `FastReturn`, and
  not `Mode = "fib"`, in which the daemon replaces the route its own gate
  looks for (section 4).

`NeighborProofs`, for all four daemons, every gate and every bound:

- `TypeCorrect`; that the router followed is in the list needs that a set of
  metrics has a least element.
- `PinAlwaysRecorded`, `StopIsClean` from `PinInv`, which adds that the entry
  goes with the interface (`Detached`): a daemon that finds no interface
  forgets its pin.
- `CacheAlwaysTrue` from `FiledInv`: what the ND cache holds was learned on
  the present network, and an address obtained from a router is one of a
  network that has the own MAC read before, through check, pin and put, until
  the first torn reconcile.  Nothing is assumed of the own MACs.
- `NeverStaleMac`, for the macOS daemon and the Windows service and with own
  MACs that differ between networks (`OwnMacsDiffer`), from `PlaceInv` beside
  `FiledInv`: unless a move is announced or a call failed, the own MAC and the
  router MAC in hand are of the present network, and so is the pin that is
  there when a reconcile has ended.  `FiledInv` says it of the MACs read and
  remembered, `Detached` that no pin outlives an interface that vanished, and
  `PinRecorded` that a withdraw which finds no record has nothing to remove.
- `AlwaysRestsRight`, without assumptions, from `AimInv`: unless something is
  announced or a call failed, each test the Linux daemon has passed would
  still come out the same, and a reconcile that ends without writing leaves a
  right entry.  One that writes announces it to itself, and is not at rest.

`NeighborFollows`: `DaemonsFollow`, for the same four daemons and with kills
and failing calls, is the refinement of `FollowGateway`.  The lemmas `Takes`,
`Releases`, `Suffers`, `Stops` and `Idles` say when a step of a daemon is that
step of the abstract one; the invariant adds to `Detached` that a process that
is not there remembers no pin (`Forgetful`) and that the Linux daemon has the
index of the interface it pinned on (`Held`), without which its `withdraw`
would clear the record of an entry it cannot see.

`ReturnRoutesProofs`, for daemon and hook, any number of hosts, addresses,
interfaces, leases and lines in flight:

- `TypeCorrect`; `PlaceInv` beside it says what lines are in hand where
  (a hook has one, a daemon between two batches none).
- `RecordsAlwaysSaved`, without assumptions, from `SavedInv`: only between a
  change and the `persist` that follows it does the file differ.
- `RouteAlwaysHasRecord` from `RecordInv`.  The code withdraws by address and
  changes records by host, so the invariant has to say when the two part:
  where a link took the route before the record changes, and in the middle of
  a change of address.
- `NeverArpEntry` from `ArpInv`: whoever installs a route is still to delete
  the entry.
- `RecordsAlwaysLive` from `LiveInv` over the queue (lines read and not
  handled, then lines in the FIFO): the last line about a host tells what its
  lease is, and a record no line is about has one.  Earlier lines may be
  wrong, which is why an invariant about the next line does not do.
- `RouteAlwaysReachesLessee` and `NoRouteEverWithoutLease` from `HeldInv`,
  which is about addresses instead: `HeldAfter` says who holds an address when
  the lines up to some point are handled, because the next line about it
  renews or ends that host's lease, or there is no such line and the lease is
  there.  Records (daemon) and routes (hook) are for whoever holds the address
  next; every other line is followed by one that corrects it.
- `RecordsAlwaysLeases` from `LeasesInv`: with one lease per host the last
  line about a host decides, and a record no line is about is that lease.
- `RoutesAlwaysFollow` from `FollowInv`: whoever's best next hop is not the one
  on record is still to be evaluated, and the route of everybody settled is
  the one on record.  That two records never name one address is `HeldInv`'s.

Assumed, as a failing run or section 4 shows they must be: that the daemon is
not ended (`~ MayEnd`) for `RouteAlwaysHasRecord`, `NeverArpEntry` and the last
four theorems, because a restart finds routes it does not know; that every
line names its interface (`~ MayOmitIface`) for the last five; that nothing is
refused (`MaxRefusals = 0`) for the two from `HeldInv` and
`RoutesAlwaysFollow`, because a route whose deletion is refused stays; that
the daemon runs before the first lease and each host has one lease
(`DaemonFirst`, `MaxLeases = 1`) for `RecordsAlwaysLeases`; that links stay up
and no announcement is missed (`~ MayLoseLink`, `~ MayMiss`) for
`RoutesAlwaysFollow`.  Everything else may happen in each of them.  The runs
check the same properties with constants for which these assumptions hold,
and `RouteHasRecord`, which says itself that it ends with the first refusal,
with refusals.

TLC checks every one of these properties on the instances above; the theorems
extend them to all instances (`AlwaysAccounted`, `RouteAlwaysFollowsRouter`,
`SelectionCorrect` and the type correctness of `SelectRouter` have no run of
their own; the runs check what they are made of or imply).  Every
inductive invariant was model-checked on the same instances before it was
proved.  Only model-checked is liveness, which is out of the prover's reach:
`Settles`, `StopHonoured` and `Heals`, in each module that has them,
`SweepHeals` and `CacheCorrected`.

## 6. Abstractions

- Netlink dumps are atomic: the kernel answers each from one state, up to the
  restart of a dump, which the announcement of the change makes harmless.
- DELAY and PROBE behave as STALE for the daemon; an absent entry as FAILED.
- Addresses, MACs, interface names and metrics are model values.  Which
  routes carry the sentinel is a flag per interface.
- A failed read of the kernel's tables is an empty answer, as in the code; it
  is not among the failing calls of `NeighborDaemons`.
- The neighbour entry of an interface goes with the interface; after a change
  of network without that, it may stay.
- `LinGwd` manages one interface, and takes any router of the best
  preference; how one is chosen among them is `SelectRouter`'s matter, and
  that several interfaces are served in one pass is `V4gwd`'s.
- A file is read or written as a whole, or not at all; a state file that was
  not written is the previous one.
- The hook's `ndisc6` may report the derived address whether or not it is in
  the cache; its `ping` only gives neighbours time to appear.
- Log messages and command lines are left out.

## 7. Not modelled

FreeBSD's rc script and the installation of the Windows service start and stop
the daemons and keep no state of their own.  The networkd patches are diffs
against a program that is not in the repository.  Configurations, lab scripts,
packaging, site and the legacy prototype (superseded, and partly declared non-functional by itself) have no
state that the daemons do not already have.
