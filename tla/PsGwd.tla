------------------------------- MODULE PsGwd -------------------------------
(* host/windows/v4gwd.ps1: a script that polls, keeps no record of what it *)
(* pinned, and ends at the first command that fails.                       *)
EXTENDS StaticNeighbor

Ps == os = "powershell"

\* Test-SentinelRoute; the script has no file to look at.
PsGateOpen == Gate = "fib" => Visible /\ sentinel

\* Get-InterfaceMac.
PsHostMac == IF Visible THEN OwnMac[net] ELSE NoKey

\* A route with the lowest metric; the sort does not keep the order of equals.
PsRouters ==
    IF Visible /\ routes # <<>> THEN {routes[k].gw : k \in Lowest} ELSE {NoGw}

\* Get-RouterMac.
PsLladdr == IF Visible THEN nd[gw] ELSE NoMac

\* Get-CachedRouterMac: one registry value per own MAC.
PsStored == IF hostMac # NoKey THEN cache[hostMac] ELSE NoMac

\* Get-ManagedIfIndex.
PsResolve ==
    /\ pc = "resolve"
    /\ IF net # NoNet
         THEN Found
         ELSE live' = FALSE /\ Done /\ UNCHANGED record
    /\ UNCHANGED <<os, torn, place, entry, wake, stop, cache, past>>

\* Set-SentinelNeighbor: the entry is read.
PsCheck ==
    /\ pc = "check"
    /\ IF Visible /\ entry = EntryOf(mac, TRUE)
         THEN AfterInstall
         ELSE /\ pc' = IF Visible /\ entry # NoEntry THEN "delete" ELSE "set"
              /\ UNCHANGED <<hostMac, gw, mac>>
    /\ UNCHANGED <<os, torn, place, entry, wake, stop, cache, live, record, past>>

\* Remove-NetNeighbor, silently.
PsDelete ==
    /\ pc = "delete"
    /\ \/ Visible /\ entry' = NoEntry /\ UNCHANGED faults
       \/ ~ Visible /\ UNCHANGED <<entry, faults>>
       \/ Visible /\ Fails /\ UNCHANGED entry
    /\ pc' = "set"
    /\ UNCHANGED <<os, torn, place, wake, stop, cache, live, local, moves, orphaned>>

\* New-NetNeighbor, which fails on an entry that exists, and then ends the
\* script: ErrorActionPreference is Stop.
PsCreate ==
    /\ pc = "set"
    /\ \/ /\ Visible /\ entry = NoEntry
          /\ entry' = EntryOf(mac, TRUE)
          /\ AfterInstall
          /\ UNCHANGED faults
       \/ /\ ~ Visible \/ entry # NoEntry
          /\ pc' = "exit"
          /\ UNCHANGED <<entry, hostMac, gw, mac, faults>>
       \/ /\ Visible /\ entry = NoEntry
          /\ Fails
          /\ pc' = "exit"
          /\ UNCHANGED <<entry, hostMac, gw, mac>>
    /\ UNCHANGED <<os, torn, place, wake, stop, cache, live, record, moves, orphaned>>

\* Set-CachedRouterMac, which ends the script when the registry refuses.
PsPut ==
    /\ pc = "put"
    /\ \/ cache' = [cache EXCEPT ![hostMac] = mac] /\ Done /\ UNCHANGED faults
       \/ /\ cache[hostMac] # mac
          /\ Fails
          /\ pc' = "exit"
          /\ UNCHANGED <<cache, hostMac, gw, mac>>
    /\ UNCHANGED <<os, torn, place, entry, wake, stop, live, record, moves, orphaned>>

\* Remove-SentinelNeighbor: whoever pinned the entry.
PsUnpin ==
    \/ entry' = (IF Pinned THEN NoEntry ELSE entry) /\ UNCHANGED faults
    \/ Pinned /\ Fails /\ UNCHANGED entry

PsWithdraw ==
    /\ pc = "withdraw"
    /\ PsUnpin
    /\ Done
    /\ UNCHANGED <<os, torn, place, wake, stop, cache, live, record, moves, orphaned>>

\* Start-Sleep.
PsSleep ==
    /\ pc = "loop"
    /\ pc' = "resolve"
    /\ UNCHANGED <<os, torn, place, entry, wake, stop, cache, live, local, past>>

WrongPsExit ==
    /\ pc = "exit"
    /\ pc' = IF stop THEN "stopped" ELSE "down"
    /\ NoMemory
    /\ UNCHANGED <<os, torn, place, entry, wake, stop, cache, past>>

\* The finally block; the task scheduler restarts a script that failed.
PsExit ==
    /\ pc = "exit"
    /\ PsUnpin
    /\ orphaned' = (entry' # NoEntry /\ entry'.static)
    /\ pc' = IF stop THEN "stopped" ELSE "down"
    /\ NoMemory
    /\ UNCHANGED <<os, torn, place, wake, stop, cache, moves>>

\* Ctrl-C ends the pipeline wherever it is and runs the finally block.
PsStop ==
    /\ Alive
    /\ pc # "exit"
    /\ pc' = "exit"
    /\ stop' = TRUE
    /\ UNCHANGED <<os, torn, place, entry, wake, cache, live, local, past>>

PsReconcile ==
    \/ PsResolve
    \/ CheckSentinel(PsGateOpen)
    \/ ReadHostMac(PsHostMac)
    \/ \E r \in PsRouters : FindRouter(r)
    \/ ReadLladdr(PsLladdr)
    \/ Lookup(PsStored)
    \/ PsPut
    \/ PsCheck
    \/ PsDelete
    \/ PsCreate
    \/ PsWithdraw

PsDaemon == Ps /\ (PsReconcile \/ PsSleep \/ PsExit)

PsNext == PsDaemon \/ (Ps /\ PsStop)
=============================================================================
