-------------------------- MODULE NeighborDaemons --------------------------
(***************************************************************************)
(* The four daemons that pin a neighbour entry, each in behaviours of its  *)
(* own, on the same host, and what all of them promise.                    *)
(***************************************************************************)
EXTENDS MacGwd, WinGwd, PsGwd, LinGwd

Daemon == MacDaemon \/ WinDaemon \/ PsDaemon \/ LinDaemon

Next == Environment \/ Start \/ Crash \/ MacNext \/ WinNext \/ PsNext \/ LinNext

Spec == Init /\ [][Next]_vars

\* The process is scheduled, its waits time out, and launchd, systemd or the
\* task scheduler restarts it.
FairSpec == Spec /\ WF_vars(Daemon) /\ WF_vars(Restart)

-----------------------------------------------------------------------------
\* The routers the daemon may follow, with the host as it stands.
Followed ==
    CASE Mac -> {MacRouter}
      [] Win -> {WinRouter}
      [] Ps  -> PsRouters
      [] Lin -> LinRouters

GateOpen ==
    CASE Mac -> MacGateOpen
      [] Win -> WinGateOpen
      [] Ps  -> PsGateOpen
      [] Lin -> LinGateOpen

\* The MAC that following g leads to: from the ND cache, else remembered.
PinFor(g) ==
    IF g # NoGw /\ nd[g] # NoMac THEN nd[g] ELSE cache[OwnMac[net]]

\* On Linux a router that is not resolved leaves the entry as it is.
Waits == Lin /\ GateOpen /\ \E g \in LinRouters : g # NoGw /\ nd[g] = NoMac

\* The entry is the one reconcile aims at.
PinRight ==
    \/ net = NoNet
    \/ Waits
    \/ /\ GateOpen
       /\ \E g \in Followed :
            /\ PinFor(g) # NoMac
            /\ entry = EntryOf(PinFor(g), TRUE)
    \/ /\ ~ GateOpen \/ \E g \in Followed : PinFor(g) = NoMac
       /\ ~ Pinned \/ (orphaned /\ ~ Ps)

\* The host has no IPv6 default route.
Routerless == net # NoNet /\ routes = <<>>

\* From some moment on the host is left alone, the daemon is not killed, and
\* it is, or will be, running.
LeftAlone ==
    /\ <>[][~ Environment]_vars
    /\ <>[](~ stop /\ pc # "stopped" /\ (Win => Alive))

\* Waiting, with nothing announced that it has not dealt with.
AtRest == ~ wake /\ ~ stop /\ pc = (IF Mac \/ Lin THEN "poll" ELSE "loop")

(* A pin the daemon made is one its record names, so that withdraw removes *)
(* it, unless a kill or a failing delete lost the record.  Of the daemons  *)
(* that keep a record.                                                     *)
PinRecorded ==
    Pinned /\ ~ orphaned /\ ~ Ps => installed /\ installedMac = entry.mac

(* "daemon shutdown": however it is told to stop, a daemon leaves no pin.  *)
CleanStop == pc = "stopped" /\ ~ orphaned => ~ Pinned

\* The router MACs of the networks on which the interface's own MAC is k.
MacsUnder(k) == {m \in Macs : \E n \in Nets : OwnMac[n] = k /\ m \in MacsOn(n)}

(* "resolved router MAC keyed to the interface's own MAC at the time it    *)
(* was learned" (v4gwd-arp.c:96): the address stored under an own MAC is   *)
(* one of a router of a network on which that own MAC is used.             *)
StoredTrue == \A k \in Keys : cache[k] \in MacsUnder(k) \cup {NoMac}

(* As long as no reconcile has read its own MAC on one network and the     *)
(* router's on another, whatever failed or was killed, the map is true:    *)
(* that race is the only way to a wrong address in it.                     *)
CacheTrue == torn \/ StoredTrue

(* "rather than steer traffic at a stale MAC": with an own MAC for each    *)
(* network, after a move that was announced, the macOS daemon and the      *)
(* Windows service do not rest on an address of another network.  Needs    *)
(* that no call failed and that the map is not torn.                       *)
NoStaleMac ==
    AtRest /\ (Mac \/ Win) /\ Pinned /\ ~ orphaned /\ faults = 0 /\ ~ torn =>
        net # NoNet /\ entry.mac \in MacsOn(net)

(* "pin a permanent IPv4 neighbor for the sentinel to the IPv6 router's    *)
(* MAC": the Linux daemon has no timer, so whatever changed in whichever   *)
(* order between its reads, once it sleeps with nothing announced the      *)
(* entry is right.  Needs that no call failed: a refused change is retried *)
(* at the next announcement only.                                          *)
RestsRight == AtRest /\ Lin /\ faults = 0 => PinRight

(* "re-asserts it if anything external drops or replaces it": once the     *)
(* host is left alone, the entry becomes the one reconcile aims at and     *)
(* stays so, whatever was flushed, relearned by ARP, refused or killed (on *)
(* Linux, flushed or relearned: there a refused change is not retried).    *)
(* Without a listed router reconcile aims at the remembered MAC, while the *)
(* headers of the sources have the entry removed ("when no usable router   *)
(* remains", v4gwd-arp.c:26): this property allows either.                 *)
Heals ==
    LeftAlone => <>[](PinRight \/ (Routerless /\ ~ Pinned) \/ (Lin /\ faults # 0))

(* "if the own-MAC does not rotate ... reconcile corrects the MAC in a     *)
(* cycle" (v4gwd-arp.c:110): networks that share an own MAC, moves at any  *)
(* moment and writes that failed may leave a wrong router MAC in the map,  *)
(* but once the host is left alone with a router that is resolved, it is   *)
(* that router's MAC that is stored.                                       *)
CacheCorrected ==
    LeftAlone =>
        <>[](~ Lin /\ net # NoNet /\ GateOpen
                /\ (\A g \in Followed : g # NoGw /\ nd[g] # NoMac) =>
             \E g \in Followed : cache[OwnMac[net]] = nd[g])

\* The pin, and what the daemon takes for its own: the script, any pin.
Pin == IF Pinned THEN entry.mac ELSE NoMac
Claimed ==
    IF Ps
      THEN IF Alive THEN {Pin} \ {NoMac} ELSE {}
      ELSE IF installed THEN {installedMac} ELSE {}

FG == INSTANCE FollowGateway WITH
        Empty <- NoMac, slot <- Pin, claims <- Claimed, alive <- Alive, mishaps <- faults

(* All four keep the promise of FollowGateway: a pin is written and removed *)
(* by a daemon that knows it for its own, from start to stop, and nothing  *)
(* but a kill or a failing call ever leaves one behind.                    *)
Follows == FG!Spec

(* The routing socket announces the macOS daemon's own arp -s and arp -d,  *)
(* and rtnetlink the Linux daemon's own changes; neither keeps waking      *)
(* itself.                                                                 *)
Settles == LeftAlone => <>[](Mac \/ Lin => ~ wake)

(* A stop ends the daemon even while notifications keep coming in.         *)
StopHonoured == Alive /\ stop ~> ~ Alive
=============================================================================
