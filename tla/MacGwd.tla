------------------------------- MODULE MacGwd -------------------------------
(* host/macos/v4gwd-arp.c: poll on the routing socket, arp(8) as a child.  *)
EXTENDS StaticNeighbor

Mac == os = "macos"

\* sentinel_in_file and sentinel_in_fib, which looks on every interface: the
\* sentinel route is on this one.
MacGateOpen == Gate = "none" \/ sentinel

\* iface_lladdr, by name.
MacHostMac == IF net # NoNet THEN OwnMac[net] ELSE NoKey

\* The first ::/0 route of the dump.
MacRouter == IF Visible /\ routes # <<>> THEN routes[1].gw ELSE NoGw

\* router_lladdr, from the ND cache.
MacLladdr == IF Visible THEN nd[gw] ELSE NoMac

WrongMacStored ==
    IF \E k \in Keys : cache[k] # NoMac
      THEN CHOOSE m \in Macs : \E k \in Keys : cache[k] = m
      ELSE NoMac

\* router_cache_lookup: one file per own MAC.
MacStored == IF hostMac # NoKey THEN cache[hostMac] ELSE NoMac

MacResolve ==
    /\ pc = "resolve"
    /\ IF net # NoNet
         THEN Found
         ELSE /\ live' = FALSE
              /\ installed' = FALSE
              /\ Done
              /\ UNCHANGED installedMac
    /\ UNCHANGED <<os, torn, place, entry, wake, stop, cache, past>>

\* arp_entry_present: permanent, and with the MAC expected.
MacPresent == Visible /\ entry = EntryOf(mac, TRUE)

WrongMacCheck ==
    /\ pc = "check"
    /\ IF installed /\ installedMac = mac
         THEN AfterInstall
         ELSE pc' = "set" /\ UNCHANGED <<hostMac, gw, mac>>
    /\ UNCHANGED <<os, torn, place, entry, wake, stop, cache, live, record, past>>

WrongMacAlways ==
    /\ pc = "check"
    /\ pc' = "set"
    /\ UNCHANGED <<os, torn, place, entry, wake, stop, cache, live, local, past>>

\* install up to arp -s.
MacCheck ==
    /\ pc = "check"
    /\ IF installed /\ installedMac = mac /\ MacPresent
         THEN AfterInstall
         ELSE pc' = "set" /\ UNCHANGED <<hostMac, gw, mac>>
    /\ UNCHANGED <<os, torn, place, entry, wake, stop, cache, live, record, past>>

\* arp -s, which the routing socket announces to the daemon too.
MacSet ==
    /\ pc = "set"
    /\ \/ /\ net # NoNet
          /\ entry' = EntryOf(mac, TRUE)
          /\ installed' = TRUE
          /\ installedMac' = mac
          /\ wake' = TRUE
          /\ orphaned' = FALSE
          /\ UNCHANGED faults
       \/ /\ IF net # NoNet THEN Fails ELSE UNCHANGED faults
          /\ UNCHANGED <<entry, record, wake, orphaned>>
    /\ AfterInstall
    /\ UNCHANGED <<os, torn, place, stop, cache, live, moves>>

\* withdraw: arp -d, whose result is ignored.
MacUnpin ==
    /\ installed' = FALSE
    /\ \/ ~ installed /\ UNCHANGED <<entry, wake, faults, orphaned>>
       \/ /\ installed
          /\ entry' = NoEntry
          /\ wake' = (wake \/ entry # NoEntry)
          /\ UNCHANGED <<faults, orphaned>>
       \/ /\ installed
          /\ Fails
          /\ Abandon
          /\ UNCHANGED <<entry, wake>>
    /\ UNCHANGED <<os, torn, place, stop, cache, live, installedMac, moves>>

MacWithdraw == pc = "withdraw" /\ MacUnpin /\ Done

\* "while (running)".
MacLoop ==
    /\ pc = "loop"
    /\ pc' = IF stop THEN "exit" ELSE "poll"
    /\ UNCHANGED <<os, torn, place, entry, wake, stop, cache, live, local, past>>

WrongMacPoll ==
    /\ pc = "poll"
    /\ wake' = FALSE
    /\ pc' = IF wake THEN "resolve" ELSE "poll"
    /\ UNCHANGED <<os, torn, place, entry, stop, cache, live, local, past>>

\* poll: a message, or the interval.
MacPoll ==
    /\ pc = "poll"
    /\ wake' = FALSE
    /\ pc' = "resolve"
    /\ UNCHANGED <<os, torn, place, entry, stop, cache, live, local, past>>

\* The withdraw after the loop; the process ends.
MacExit ==
    /\ pc = "exit"
    /\ \/ installed /\ entry' = NoEntry /\ UNCHANGED <<faults, orphaned>>
       \/ installed /\ Fails /\ Abandon /\ UNCHANGED entry
       \/ ~ installed /\ UNCHANGED <<entry, faults, orphaned>>
    /\ pc' = "stopped"
    /\ NoMemory
    /\ UNCHANGED <<os, torn, place, wake, stop, cache, moves>>

\* SIGTERM or SIGINT.  It interrupts poll, but not other calls, and not the
\* poll that is entered after "running" was tested and before it was cleared.
MacSignal ==
    /\ Alive
    /\ ~ stop
    /\ stop' = TRUE
    /\ pc' \in IF pc = "poll" THEN {"poll", "resolve"} ELSE {pc}
    /\ UNCHANGED <<os, torn, place, entry, wake, cache, live, local, past>>

MacReconcile ==
    \/ MacResolve
    \/ CheckSentinel(MacGateOpen)
    \/ ReadHostMac(MacHostMac)
    \/ FindRouter(MacRouter)
    \/ ReadLladdr(MacLladdr)
    \/ Lookup(MacStored)
    \/ Put
    \/ MacCheck
    \/ MacSet
    \/ MacWithdraw

MacDaemon == Mac /\ (MacReconcile \/ MacLoop \/ MacPoll \/ MacExit)

MacNext == MacDaemon \/ (Mac /\ MacSignal)
=============================================================================
