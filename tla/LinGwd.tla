------------------------------- MODULE LinGwd -------------------------------
(* host/v4gwd.py on a kernel before 5.2, which has no RTA_VIA: the router's *)
(* MAC is pinned instead.  Nothing is remembered on disk, no timer runs,    *)
(* and a router that is not resolved leaves the pin as it is.  The memory   *)
(* of the pin is installed_mac alone: installed says whether it is None.    *)
(* Which of several routers of one preference is taken is SelectRouter's.   *)
EXTENDS StaticNeighbor

Lin == os = "linux"

\* sentinel_present.
LinGateOpen == Gate = "fib" => Visible /\ sentinel

\* What select_router may return.
LinRouters ==
    IF Visible /\ routes # <<>> THEN {routes[k].gw : k \in Lowest} ELSE {NoGw}

\* router_lladdr.
LinLladdr == IF Visible THEN nd[gw] ELSE NoMac

Forgotten == installed' = FALSE /\ installedMac' = NoMac

\* Interface.resolve_index and the branch for an interface that is gone.
LinResolve ==
    /\ pc = "resolve"
    /\ IF net # NoNet
         THEN Found
         ELSE live' = FALSE /\ Forgotten /\ Done
    /\ UNCHANGED <<os, torn, place, entry, wake, stop, cache, past>>

LinCheckSentinel ==
    /\ pc = "sentinel"
    /\ pc' = IF LinGateOpen THEN "router" ELSE "withdraw"
    /\ UNCHANGED <<os, torn, place, entry, wake, stop, cache, live, local, past>>

\* select_router returned r.
LinSelect(r) ==
    /\ pc = "router"
    /\ gw' = r
    /\ pc' = IF r = NoGw THEN "withdraw" ELSE "lladdr"
    /\ UNCHANGED <<os, torn, place, entry, wake, stop, cache, live, hostMac, mac, record, past>>

\* _pin_neighbor: "router MAC not resolved yet; retry", which takes an event.
LinReadLladdr ==
    /\ pc = "lladdr"
    /\ IF LinLladdr = NoMac
         THEN Done
         ELSE mac' = LinLladdr /\ pc' = "check" /\ UNCHANGED <<hostMac, gw>>
    /\ UNCHANGED <<os, torn, place, entry, wake, stop, cache, live, record, past>>

WrongLinCheck ==
    /\ pc = "check"
    /\ IF installedMac = mac THEN Done ELSE pc' = "set" /\ UNCHANGED <<hostMac, gw, mac>>
    /\ UNCHANGED <<os, torn, place, entry, wake, stop, cache, live, record, past>>

\* _neighbor_present.
LinPresent == Visible /\ entry = EntryOf(mac, TRUE)

LinCheck ==
    /\ pc = "check"
    /\ IF installedMac = mac /\ LinPresent
         THEN Done
         ELSE pc' = "set" /\ UNCHANGED <<hostMac, gw, mac>>
    /\ UNCHANGED <<os, torn, place, entry, wake, stop, cache, live, record, past>>

\* neigh("replace"), announced to the daemon's own monitor.
LinReplace ==
    /\ pc = "set"
    /\ \/ /\ Visible
          /\ entry' = EntryOf(mac, TRUE)
          /\ installed' = TRUE
          /\ installedMac' = mac
          /\ wake' = TRUE
          /\ orphaned' = FALSE
          /\ UNCHANGED faults
       \/ /\ IF Visible THEN Fails ELSE UNCHANGED faults
          /\ UNCHANGED <<entry, record, wake, orphaned>>
    /\ Done
    /\ UNCHANGED <<os, torn, place, stop, cache, live, moves>>

\* withdraw: neigh("del"), whatever the entry is; the record is cleared
\* whatever the kernel answers.
LinUnpin ==
    \/ installed /\ Visible /\ entry' = NoEntry /\ UNCHANGED <<faults, orphaned>>
    \/ installed /\ Visible /\ Fails /\ Abandon /\ UNCHANGED entry
    \/ ~ (installed /\ Visible) /\ UNCHANGED <<entry, faults, orphaned>>

LinWithdraw ==
    /\ pc = "withdraw"
    /\ LinUnpin
    /\ wake' = (wake \/ entry' # entry)
    /\ Forgotten
    /\ Done
    /\ UNCHANGED <<os, torn, place, stop, cache, live, moves>>

\* "while running" in serve, which ends with the withdraw of main.
LinLoop ==
    /\ pc = "loop"
    /\ pc' = IF stop THEN "exit" ELSE "poll"
    /\ UNCHANGED <<os, torn, place, entry, wake, stop, cache, live, local, past>>

\* poll, on the monitor and the wakeup pipe; then "if running".
LinWake ==
    /\ pc = "poll"
    /\ wake
    /\ wake' = FALSE
    /\ pc' = IF stop THEN "loop" ELSE "resolve"
    /\ UNCHANGED <<os, torn, place, entry, stop, cache, live, local, past>>

LinExit ==
    /\ pc = "exit"
    /\ LinUnpin
    /\ pc' = "stopped"
    /\ NoMemory
    /\ UNCHANGED <<os, torn, place, wake, stop, cache, moves>>

\* stop(), with the byte written to the wakeup pipe.
LinSignal ==
    /\ Alive
    /\ ~ stop
    /\ stop' = TRUE
    /\ wake' = TRUE
    /\ UNCHANGED <<os, torn, place, entry, cache, pc, live, local, past>>

LinReconcile ==
    \/ LinResolve
    \/ LinCheckSentinel
    \/ \E r \in LinRouters : LinSelect(r)
    \/ LinReadLladdr
    \/ LinCheck
    \/ LinReplace
    \/ LinWithdraw

LinDaemon == Lin /\ (LinReconcile \/ LinLoop \/ LinWake \/ LinExit)

LinNext == LinDaemon \/ (Lin /\ LinSignal)
=============================================================================
