----------------------------- MODULE FreeBsdGwd -----------------------------
(***************************************************************************)
(* host/freebsd/v4gwd.c, the FreeBSD host daemon, and the part of the      *)
(* kernel it watches and programs.                                         *)
(*                                                                         *)
(* It differs from the Linux daemon in what can go wrong: there is one     *)
(* IPv4 default route in the table, shared with dhclient; the routing      *)
(* socket announces neither every change of the router list nor the state  *)
(* file, so a periodic reconcile must catch up; and it echoes the daemon's *)
(* own requests, which are skipped.                                        *)
(***************************************************************************)
EXTENDS Integers, Sequences, FiniteSetsExt

CONSTANTS
    Gws,          \* router addresses, as numbers: they are compared
    NoRoute,      \* no IPv4 default route
    DhcpRoute,    \* the IPv4 default route "via 192.0.0.11"
    Mode,         \* "file" (-f), "fib" (-r) or "lab"
    Lists,        \* default router lists the kernel may have
    Statics,      \* statically configured IPv6 default routers, or NoGw
    MaxGen,       \* bound: the interface is recreated MaxGen - 1 times
    MaxFaults,    \* bound: failing system calls and kills
    FastReturn    \* what was lost with the link may return before it is noticed

NoGw == 0

Prefs == {"high", "medium", "low", "reserved"}

\* A struct in6_defrouter; here: its if_index is that of the interface.
Entries == [gw : Gws, pref : Prefs, here : BOOLEAN]

ASSUME GwsAssumption == Gws \subseteq Nat \ {NoGw}
ASSUME RoutesAssumption ==
    {NoRoute, DhcpRoute} \cap [gen : Nat, via : Gws] = {} /\ NoRoute # DhcpRoute
ASSUME ModeAssumption == Mode \in {"file", "fib", "lab"}
ASSUME ListsAssumption == Lists \subseteq Seq(Entries) /\ <<>> \in Lists
ASSUME StaticsAssumption == Statics \subseteq Gws \cup {NoGw} /\ NoGw \in Statics
ASSUME BoundsAssumption == MaxGen \in Nat \ {0} /\ MaxFaults \in Nat
ASSUME FlagsAssumption == FastReturn \in BOOLEAN

VARIABLES
    \* the kernel and dhclient
    up,           \* the interface exists
    gen,          \* generation of its current (or next) ifindex
    list,         \* net.inet6.icmp6.nd6_drlist
    static,       \* gateway of the static IPv6 default route on the interface
    file,         \* the state file holds the sentinel
    fib,          \* the IPv4 default route
    event,        \* a message of another origin is queued on the routing socket
    echo,         \* a message of our own is queued on the routing socket
    \* the daemon
    pc,           \* where it is
    running,      \* the global "running"
    ifindex,      \* the global "ifindex", as a generation, 0 for none
    gw,           \* the router selected by this reconcile
    installed,    \* route_installed
    installedGw,  \* installed_gw
    \* what happened so far
    silent,       \* something changed without a message
    faults,       \* number of system calls that failed, and kills
    orphaned      \* a route was left behind by a kill or a refused delete

env    == <<up, gen, list, static, file>>
kernel == <<env, fib, event, echo>>
record == <<installed, installedGw>>
local  == <<ifindex, gw, record>>
past   == <<silent, faults, orphaned>>
vars   == <<up, gen, list, static, file, fib, event, echo, pc, running,
            ifindex, gw, installed, installedGw, silent, faults, orphaned>>

Steps == {"stopped", "resolve", "sentinel", "select", "static", "install",
          "add", "change", "withdraw", "loop", "poll", "exit"}

Alive == pc # "stopped"

Routes == [gen : 1..MaxGen, via : Gws]

\* A route this daemon, or a predecessor, put into the table.
Ours(r) == r \notin {NoRoute, DhcpRoute}

AtRest == pc = "poll" /\ ~ event /\ ~ echo

-----------------------------------------------------------------------------
(* Selection. *)

PrefRank == [high |-> 2, medium |-> 1, low |-> 0, reserved |-> -1]

WrongKeeps(best, dr) ==
    \/ ~ dr.here
    \/ PrefRank[dr.pref] < best.rank

\* The two "continue"s on rank, and the one on if_index.
Keeps(best, dr) ==
    \/ ~ dr.here
    \/ PrefRank[dr.pref] < best.rank
    \/ PrefRank[dr.pref] = best.rank /\ best.gw # NoGw /\ dr.gw >= best.gw

Examine(best, dr) ==
    IF Keeps(best, dr) THEN best ELSE [rank |-> PrefRank[dr.pref], gw |-> dr.gw]

\* select_router: best after each turn of the loop over one copy of the
\* kernel's list.
SelectRouter(l) ==
    LET best[k \in 0..Len(l)] ==
          IF k = 0 THEN [rank |-> -1, gw |-> NoGw] ELSE Examine(best[k - 1], l[k])
    IN  best[Len(l)].gw

\* The index the daemon works with is the interface's.
Live == up /\ ifindex = gen

DefaultRouters == IF Live THEN list ELSE <<>>

Sentinel ==
    CASE Mode = "file" -> file
      [] Mode = "fib"  -> fib = DhcpRoute
      [] Mode = "lab"  -> TRUE

\* The router a daemon that saw everything at once would follow.
Desired ==
    IF ~ up \/ ~ Sentinel
      THEN NoGw
      ELSE IF SelectRouter(list) # NoGw THEN SelectRouter(list) ELSE static

\* The route that the daemon's record claims.
Entry == [gen |-> ifindex, via |-> installedGw]

Init ==
    /\ up = TRUE
    /\ gen = 1
    /\ list \in Lists
    /\ static \in Statics
    /\ file \in BOOLEAN
    /\ fib \in {NoRoute, DhcpRoute}
    /\ event = FALSE
    /\ echo = FALSE
    /\ pc = "stopped"
    /\ running = TRUE
    /\ ifindex = 0
    /\ gw = NoGw
    /\ installed = FALSE
    /\ installedGw = NoGw
    /\ silent = FALSE
    /\ faults = 0
    /\ orphaned = FALSE

-----------------------------------------------------------------------------
(* The kernel, router advertisements, the administrator and dhclient.      *)

Announced == event' = TRUE /\ UNCHANGED silent
Unannounced == silent' = TRUE /\ UNCHANGED event

Elsewhere == UNCHANGED <<echo, pc, running, local, faults, orphaned>>

\* The record claims a route the table has not got.
Unnoticed == installed /\ fib # Entry

MayReturn == FastReturn \/ ~ Unnoticed

\* The interface loses its routes: destroyed, or set down and up.
LoseLink ==
    /\ up
    /\ list' = <<>>
    /\ static' = NoGw
    /\ fib' = NoRoute
    /\ \/ gen < MaxGen /\ up' = FALSE /\ gen' = gen + 1
       \/ UNCHANGED <<up, gen>>
    /\ Announced
    /\ UNCHANGED file
    /\ Elsewhere

LinkAppears ==
    /\ ~ up
    /\ MayReturn
    /\ up' = TRUE
    /\ Announced
    /\ UNCHANGED <<gen, list, static, file, fib>>
    /\ Elsewhere

\* A change that moves the IPv6 default route is announced; a change of
\* preference, or of a router behind the best one, may not be.
ListChanges ==
    /\ up
    /\ MayReturn
    /\ list' \in Lists \ {list}
    /\ Announced \/ Unannounced
    /\ UNCHANGED <<up, gen, static, file, fib>>
    /\ Elsewhere

StaticChanges ==
    /\ up
    /\ MayReturn
    /\ static' \in Statics \ {static}
    /\ Announced
    /\ UNCHANGED <<up, gen, list, file, fib>>
    /\ Elsewhere

\* dhclient-exit-hooks writes the router option or removes the file.
HookRuns ==
    /\ file' = ~ file
    /\ Unannounced
    /\ UNCHANGED <<up, gen, list, static, fib>>
    /\ Elsewhere

\* dhclient adds its default route, if there is none, or deletes it.
DhclientRoutes ==
    /\ up
    /\ \/ fib = NoRoute /\ MayReturn /\ fib' = DhcpRoute
       \/ fib = DhcpRoute /\ fib' = NoRoute
    /\ Announced
    /\ UNCHANGED env
    /\ Elsewhere

Environment ==
    \/ LoseLink
    \/ LinkAppears
    \/ ListChanges
    \/ StaticChanges
    \/ HookRuns
    \/ DhclientRoutes

-----------------------------------------------------------------------------
(* The daemon. *)

MayFail == faults < MaxFaults

Fails == MayFail /\ faults' = faults + 1

\* main up to the first reconcile.
Start ==
    /\ pc = "stopped"
    /\ up
    /\ pc' = "resolve"
    /\ running' = TRUE
    /\ event' = FALSE
    /\ echo' = FALSE
    /\ UNCHANGED <<env, fib, local, past>>

WrongResolve ==
    /\ pc = "resolve"
    /\ ifindex' = IF up THEN gen ELSE 0
    /\ pc' = "sentinel"
    /\ UNCHANGED <<kernel, running, gw, record, past>>

\* if_nametoindex.
Resolve ==
    /\ pc = "resolve"
    /\ IF up
         THEN ifindex' = gen /\ pc' = "sentinel" /\ UNCHANGED installed
         ELSE ifindex' = 0 /\ pc' = "loop" /\ installed' = FALSE
    /\ UNCHANGED <<kernel, running, gw, installedGw, past>>

\* sentinel_in_file or sentinel_in_fib.
CheckSentinel ==
    /\ pc = "sentinel"
    /\ \/ pc' = (IF Sentinel THEN "select" ELSE "withdraw") /\ UNCHANGED faults
       \/ Mode # "lab" /\ Fails /\ pc' = "withdraw"
    /\ UNCHANGED <<kernel, running, local, silent, orphaned>>

\* select_router; a sysctl fails when the list outgrew the size asked for.
Select ==
    /\ pc = "select"
    /\ \/ gw' = SelectRouter(DefaultRouters) /\ UNCHANGED faults
       \/ gw' = NoGw /\ Fails
    /\ pc' = IF gw' = NoGw THEN "static" ELSE "install"
    /\ UNCHANGED <<kernel, running, ifindex, record, silent, orphaned>>

\* static_default_router.
SelectStatic ==
    /\ pc = "static"
    /\ \/ gw' = (IF Live THEN static ELSE NoGw) /\ UNCHANGED faults
       \/ gw' = NoGw /\ Fails
    /\ pc' = IF gw' = NoGw THEN "withdraw" ELSE "install"
    /\ UNCHANGED <<kernel, running, ifindex, record, silent, orphaned>>

\* install up to the first message.
Install ==
    /\ pc = "install"
    /\ pc' = CASE installed /\ installedGw = gw -> "loop"
               [] installed /\ installedGw # gw -> "change"
               [] ~ installed                   -> "add"
    /\ UNCHANGED <<kernel, running, local, past>>

\* A request that reaches the table, and the record of its success.
Program ==
    /\ fib' = [gen |-> ifindex, via |-> gw]
    /\ installed' = TRUE
    /\ installedGw' = gw
    /\ orphaned' = FALSE

\* RTM_ADD; when a default route exists, EEXIST or EINVAL, on to RTM_CHANGE.
Add ==
    /\ pc = "add"
    /\ echo' = TRUE
    /\ \/ /\ fib = NoRoute /\ Live
          /\ Program
          /\ pc' = "loop"
          /\ UNCHANGED faults
       \/ /\ fib # NoRoute
          /\ pc' = "change"
          /\ UNCHANGED <<fib, record, faults, orphaned>>
       \/ /\ fib = NoRoute
          /\ IF Live THEN Fails ELSE UNCHANGED faults
          /\ pc' = "loop"
          /\ UNCHANGED <<fib, record, orphaned>>
    /\ UNCHANGED <<env, event, running, ifindex, gw, silent>>

WrongChange ==
    /\ pc = "change"
    /\ pc' = "loop"
    /\ echo' = TRUE
    /\ fib' = IF fib # NoRoute /\ Live THEN [gen |-> ifindex, via |-> gw] ELSE fib
    /\ installed' = TRUE
    /\ UNCHANGED <<env, event, running, ifindex, gw, installedGw, past>>

\* RTM_CHANGE, which takes over whatever default route there is.
Change ==
    /\ pc = "change"
    /\ pc' = "loop"
    /\ echo' = TRUE
    /\ \/ fib # NoRoute /\ Live /\ Program /\ UNCHANGED faults
       \/ /\ IF fib # NoRoute /\ Live THEN Fails ELSE UNCHANGED faults
          /\ UNCHANGED <<fib, record, orphaned>>
    /\ UNCHANGED <<env, event, running, ifindex, gw, silent>>

\* withdraw; the record is cleared whatever the kernel answered.
DeleteRoute ==
    /\ installed' = FALSE
    /\ echo' = IF installed THEN TRUE ELSE echo
    /\ \/ /\ fib' = IF installed /\ fib = Entry THEN NoRoute ELSE fib
          /\ UNCHANGED <<faults, orphaned>>
       \/ installed /\ fib = Entry /\ Fails /\ orphaned' = TRUE /\ UNCHANGED fib
    /\ UNCHANGED <<env, event, running, ifindex, gw, installedGw, silent>>

Withdraw == pc = "withdraw" /\ DeleteRoute /\ pc' = "loop"

WrongLoop ==
    /\ pc = "loop"
    /\ pc' = "poll"
    /\ gw' = NoGw
    /\ UNCHANGED <<kernel, running, ifindex, record, past>>

\* "while (running)".
Loop ==
    /\ pc = "loop"
    /\ pc' = IF running THEN "poll" ELSE "exit"
    /\ gw' = NoGw
    /\ UNCHANGED <<kernel, running, ifindex, record, past>>

WrongReadEvent ==
    /\ pc = "poll"
    /\ event \/ echo
    /\ pc' = IF echo THEN "loop" ELSE "resolve"
    /\ event' = FALSE
    /\ echo' = FALSE
    /\ UNCHANGED <<env, fib, running, local, past>>

\* poll returns and one message is read, of another origin or our own.
ReadEvent ==
    /\ pc = "poll"
    /\ \/ event /\ event' = FALSE /\ pc' = "resolve" /\ UNCHANGED echo
       \/ echo /\ echo' = FALSE /\ pc' = "loop" /\ UNCHANGED event
    /\ UNCHANGED <<env, fib, running, local, past>>

WrongTimeout ==
    /\ pc = "poll"
    /\ pc' = "loop"
    /\ UNCHANGED <<kernel, running, local, past>>

WrongInfiniteTimeout ==
    /\ pc = "poll"
    /\ event \/ echo
    /\ pc' = "resolve"
    /\ UNCHANGED <<kernel, running, local, past>>

\* poll times out, or SIGHUP interrupts it.
Timeout ==
    /\ pc = "poll"
    /\ pc' = "resolve"
    /\ UNCHANGED <<kernel, running, local, past>>

WrongExit ==
    /\ pc = "exit"
    /\ pc' = "stopped"
    /\ installed' = FALSE
    /\ UNCHANGED <<kernel, running, ifindex, gw, installedGw, past>>

\* The withdraw after the loop; the process ends.
Exit == pc = "exit" /\ DeleteRoute /\ pc' = "stopped"

\* SIGTERM or SIGINT.  It interrupts poll, but not other calls, and not the
\* poll that is entered after "running" was tested and before it was cleared.
Signal ==
    /\ Alive
    /\ running
    /\ running' = FALSE
    /\ pc' \in IF pc = "poll" THEN {"poll", "resolve"} ELSE {pc}
    /\ UNCHANGED <<kernel, local, past>>

Crash ==
    /\ Alive
    /\ Fails
    /\ pc' = "stopped"
    /\ installed' = FALSE
    /\ gw' = NoGw
    /\ orphaned' = (orphaned \/ Ours(fib))
    /\ UNCHANGED <<kernel, running, ifindex, installedGw, silent>>

Reconcile ==
    \/ Resolve
    \/ CheckSentinel
    \/ Select
    \/ SelectStatic
    \/ Install
    \/ Add
    \/ Change
    \/ Withdraw

Daemon == Reconcile \/ Loop \/ ReadEvent \/ Timeout \/ Exit

Next == Environment \/ Start \/ Daemon \/ Signal \/ Crash

Spec == Init /\ [][Next]_vars

\* The process is scheduled, and poll times out after "interval".
FairSpec == Spec /\ WF_vars(Daemon)

-----------------------------------------------------------------------------
TypeOK ==
    /\ up \in BOOLEAN
    /\ gen \in 1..MaxGen
    /\ list \in Lists
    /\ static \in Statics
    /\ file \in BOOLEAN
    /\ fib \in Routes \cup {NoRoute, DhcpRoute}
    /\ event \in BOOLEAN
    /\ echo \in BOOLEAN
    /\ pc \in Steps
    /\ running \in BOOLEAN
    /\ ifindex \in 0..MaxGen
    /\ pc \in Steps \ {"stopped", "resolve", "loop", "poll", "exit"} => ifindex > 0
    /\ gw \in Gws \cup {NoGw}
    /\ pc \in {"install", "add", "change"} => gw # NoGw
    /\ installed \in BOOLEAN
    /\ installedGw \in Gws \cup {NoGw}
    /\ installed => installedGw # NoGw
    /\ silent \in BOOLEAN
    /\ faults \in 0..MaxFaults
    /\ orphaned \in BOOLEAN

Here(l) == {l[k] : k \in {j \in 1..Len(l) : l[j].here}}

\* The lowest of the most preferred routers on the interface, if any.
Lowest(l) ==
    LET ranks == {PrefRank[dr.pref] : dr \in Here(l)}
        best  == {dr.gw : dr \in {d \in Here(l) : PrefRank[d.pref] = Max(ranks)}}
    IN  IF Here(l) = {} THEN NoGw ELSE Min(best)

(* "Ties on preference break deterministically to the numerically lowest   *)
(* address": the router a reconcile selects is, whatever the order of the  *)
(* kernel's list, the lowest of the most preferred ones on the interface,  *)
(* and never one of another interface or of an interface that is gone.     *)
SelectsLowest ==
    [][Select /\ faults' = faults =>
         gw' = Lowest(IF up /\ ifindex = gen THEN list ELSE <<>>)]_vars

(* "reserved: ignore router (RFC 4191 s2.2)" (v4gwd.c:111): a router of    *)
(* reserved preference is never followed.                                  *)
ReservedIgnored ==
    [][Select /\ gw' # NoGw =>
         \E dr \in Here(list) : dr.gw = gw' /\ dr.pref # "reserved"]_vars

(* The daemon never loses track of a route it put into the table, unless   *)
(* it was killed or the kernel refused a delete: a later withdraw finds it.*)
RouteRecorded == Ours(fib) /\ ~ orphaned => installed /\ fib = Entry

(* SIGTERM, whenever it arrives, leaves no route behind, dhclient's or its *)
(* own: the default route of the table is not ours.                        *)
CleanStop == pc = "stopped" /\ ~ orphaned => ~ Ours(fib)

(* "Reconciliation is idempotent and re-reads full state": as long as      *)
(* every change was announced and no call failed, a daemon at rest has     *)
(* taken over the default route exactly when it should, through the router *)
(* it should, although it reads one message per wake-up and skips echoes.  *)
(* Needs losses noticed before what was lost returns.                      *)
RouteFollows ==
    AtRest /\ ~ silent /\ faults = 0 /\ ~ orphaned =>
        IF Desired = NoGw
          THEN ~ Ours(fib)
          ELSE fib = [gen |-> gen, via |-> Desired]

(* "a periodic reconcile (default 15 s) backstops" what is not announced:  *)
(* once the kernel and dhclient leave things alone, the route ends up      *)
(* right, whatever was missed or refused before.                           *)
Heals ==
    <>[][~ Environment]_vars /\ <>[](running /\ Alive) =>
        <>[](IF Desired = NoGw
               THEN ~ Ours(fib) \/ orphaned
               ELSE fib = [gen |-> gen, via |-> Desired])

\* The route of ours in the table, and the one the record claims.
Slot == IF Ours(fib) THEN fib.via ELSE NoGw
Claimed == IF installed THEN {installedGw} ELSE {}

FG == INSTANCE FollowGateway WITH
        Empty <- NoGw, slot <- Slot, claims <- Claimed, alive <- Alive, mishaps <- faults

(* The daemon keeps the promise of FollowGateway: only a kill or a failing *)
(* call ever leaves a route of ours that the record does not name.         *)
Follows == FG!Spec

(* SIGTERM ends the daemon; when it comes between the test of "running"    *)
(* and poll, only the timeout of poll does.                                *)
StopHonoured == Alive /\ ~ running ~> ~ Alive
=============================================================================
