------------------------------- MODULE WinGwd -------------------------------
(* host/windows/v4gwd.c: change callbacks set an event for one worker.     *)
(* The interface is known by its LUID, which outlasts its index.           *)
EXTENDS StaticNeighbor

Win == os = "windows"

HasLuid == net # NoNet

\* sentinel_in_fib; the service has no -f.
WinGateOpen == Gate = "fib" => HasLuid /\ sentinel

\* interface_mac.
WinHostMac == IF HasLuid THEN OwnMac[net] ELSE NoKey

\* The first of the ::/0 routes with the lowest metric.
WinRouter == IF HasLuid /\ routes # <<>> THEN routes[Min(Lowest)].gw ELSE NoGw

\* router_lladdr, from the ND cache.
WinLladdr == IF HasLuid THEN nd[gw] ELSE NoMac

\* router_cache_lookup: one registry value per own MAC.
WinStored == IF hostMac # NoKey THEN cache[hostMac] ELSE NoMac

\* The head of run_worker: what changed before is not announced.
WinRegister ==
    /\ pc = "starting"
    /\ pc' = "resolve"
    /\ wake' = FALSE
    /\ UNCHANGED <<os, torn, place, entry, stop, cache, live, local, past>>

\* resolve_luid and iface_present.
WinResolve ==
    /\ pc = "resolve"
    /\ IF net # NoNet
         THEN Found
         ELSE /\ live' = FALSE
              /\ installed' = FALSE
              /\ Done
              /\ UNCHANGED installedMac
    /\ UNCHANGED <<os, torn, place, entry, wake, stop, cache, past>>

\* neighbor_present.
WinPresent == HasLuid /\ entry = EntryOf(mac, TRUE)

\* install up to DeleteIpNetEntry2.
WinCheck ==
    /\ pc = "check"
    /\ IF installed /\ installedMac = mac /\ WinPresent
         THEN AfterInstall
         ELSE pc' = "delete" /\ UNCHANGED <<hostMac, gw, mac>>
    /\ UNCHANGED <<os, torn, place, entry, wake, stop, cache, live, record, past>>

WinDelete ==
    /\ pc = "delete"
    /\ \/ entry' = NoEntry /\ UNCHANGED faults
       \/ Fails /\ UNCHANGED entry
    /\ pc' = "set"
    /\ UNCHANGED <<os, torn, place, wake, stop, cache, live, local, moves, orphaned>>

WrongWinPin ==
    /\ entry' = EntryOf(mac, TRUE)
    /\ installed' = TRUE
    /\ orphaned' = FALSE
    /\ AfterInstall
    /\ UNCHANGED <<installedMac, faults>>

\* What CreateIpNetEntry2 and SetIpNetEntry2 leave when they succeed.
WinPin ==
    /\ entry' = EntryOf(mac, TRUE)
    /\ installed' = TRUE
    /\ installedMac' = mac
    /\ orphaned' = FALSE
    /\ AfterInstall
    /\ UNCHANGED faults

WinPinFails ==
    /\ AfterInstall
    /\ UNCHANGED <<entry, record, orphaned>>

\* CreateIpNetEntry2; ARP may have been quicker.
WinCreate ==
    /\ pc = "set"
    /\ \/ net # NoNet /\ entry = NoEntry /\ WinPin
       \/ /\ net # NoNet /\ entry # NoEntry
          /\ pc' = "overwrite"
          /\ UNCHANGED <<entry, hostMac, gw, mac, record, faults, orphaned>>
       \/ net # NoNet /\ Fails /\ WinPinFails
       \/ net = NoNet /\ WinPinFails /\ UNCHANGED faults
    /\ UNCHANGED <<os, torn, place, wake, stop, cache, live, moves>>

\* SetIpNetEntry2.
WinOverwrite ==
    /\ pc = "overwrite"
    /\ \/ net # NoNet /\ entry # NoEntry /\ WinPin
       \/ net # NoNet /\ entry # NoEntry /\ Fails /\ WinPinFails
       \/ (net = NoNet \/ entry = NoEntry) /\ WinPinFails /\ UNCHANGED faults
    /\ UNCHANGED <<os, torn, place, wake, stop, cache, live, moves>>

\* withdraw, whose result is ignored.
WinUnpin ==
    \/ ~ installed /\ UNCHANGED <<entry, faults, orphaned>>
    \/ installed /\ entry' = NoEntry /\ UNCHANGED <<faults, orphaned>>
    \/ installed /\ Fails /\ Abandon /\ UNCHANGED entry

WinWithdraw ==
    /\ pc = "withdraw"
    /\ WinUnpin
    /\ installed' = FALSE
    /\ Done
    /\ UNCHANGED <<os, torn, place, wake, stop, cache, live, installedMac, moves>>

WrongWinWait ==
    /\ pc = "loop"
    /\ IF stop /\ ~ wake
         THEN pc' = "exit" /\ UNCHANGED wake
         ELSE pc' = "resolve" /\ wake' = FALSE
    /\ UNCHANGED <<os, torn, place, entry, stop, cache, live, local, past>>

\* WaitForMultipleObjects: the stop event comes first, then a
\* notification, which resets its event, or the interval.
WinWait ==
    /\ pc = "loop"
    /\ IF stop
         THEN pc' = "exit" /\ UNCHANGED wake
         ELSE pc' = "resolve" /\ wake' = FALSE
    /\ UNCHANGED <<os, torn, place, entry, stop, cache, live, local, past>>

\* The withdraw after the loop; the service ends.
WinExit ==
    /\ pc = "exit"
    /\ WinUnpin
    /\ pc' = "stopped"
    /\ NoMemory
    /\ UNCHANGED <<os, torn, place, wake, stop, cache, moves>>

\* ctrl_handler and console_ctrl, on threads of their own; the service manager
\* sends no control before service_main reports that the service runs.
WinStop ==
    /\ Alive
    /\ ~ stop
    /\ stop' = TRUE
    /\ UNCHANGED <<os, torn, place, entry, wake, cache, pc, live, local, past>>

WinReconcile ==
    \/ WinResolve
    \/ CheckSentinel(WinGateOpen)
    \/ ReadHostMac(WinHostMac)
    \/ FindRouter(WinRouter)
    \/ ReadLladdr(WinLladdr)
    \/ Lookup(WinStored)
    \/ Put
    \/ WinCheck
    \/ WinDelete
    \/ WinCreate
    \/ WinOverwrite
    \/ WinWithdraw

WinDaemon == Win /\ (WinRegister \/ WinReconcile \/ WinWait \/ WinExit)

WinNext == WinDaemon \/ (Win /\ WinStop)
=============================================================================
