------------------------------- MODULE V4gwrd -------------------------------
(***************************************************************************)
(* router/debian/usr/local/sbin/v4gwrd.py, the return-route daemon, with   *)
(* its state file.  dnsmasq and the kernel are those of ReturnRoute.       *)
(*                                                                         *)
(* The daemon keeps one record per MAC address, persists the records, and  *)
(* points one IPv4 /32 route per record at the best IPv6 address the       *)
(* neighbour cache has for that host.                                      *)
(***************************************************************************)
EXTENDS ReturnRoute

\* best_nexthop: the derived GUA, else any other global address, else the
\* link-local one.  Without a prefix no GUA is derived, and the EUI-64 address
\* is a global address like any other.
BestNexthop(f, m) ==
    CASE HasPrefix /\ "gua" \in usable[f][m] -> "gua"
      [] "other" \in usable[f][m]            -> "other"
      [] "gua" \in usable[f][m]              -> "gua"
      [] usable[f][m] = {"ll"}               -> "ll"
      [] OTHER                               -> None

\* The route the daemon has for m: on record, or just installed.
RouteOf(m) ==
    [iface |-> hosts[m].iface, mac |-> m,
     nh |-> IF pc = "unarp" /\ cur = m THEN nhop ELSE hosts[m].nh]

-----------------------------------------------------------------------------
(* The daemon.  A definition named Wrong... is not part of it: it is the   *)
(* definition after it with a plausible mistake, on which the properties   *)
(* below are tried.                                                        *)

\* main: bind the monitor and open the FIFO.
Start ==
    /\ pc = "down"
    /\ pc' = "restore"
    /\ pending' = FALSE
    /\ UNCHANGED <<world, rt, fifo, refused, hosts, files, buf, todo, cur, nhop, ixLive>>

WrongRestorable(m) == saved[m] # None

\* The saved lease of m is still in dnsmasq's lease file.
Restorable(m) ==
    saved[m] # None /\ \E l \in leases : l.mac = m /\ l.ip4 = saved[m].ip4

Stale == {m \in Macs : saved[m] # None /\ ~ Restorable(m)}

\* restore(): the records in the state file whose lease is still live, then
\* the first reconcile_all.  Without the lease file all are trusted; without
\* the state file there are none.
Restore ==
    /\ pc = "restore"
    /\ blind' \in {FALSE, MayFailIo /\ Stale # {}}
    /\ \E readable \in {TRUE, ~ MayFailIo} :
         hosts' = [m \in Macs |->
                   IF readable /\ (Restorable(m) \/ (blind' /\ m \in Stale))
                     THEN [iface |-> saved[m].iface, ip4 |-> saved[m].ip4,
                           nh |-> None, armed |-> TRUE]
                     ELSE None]
    /\ todo' = {m \in Macs : hosts'[m] # None}
    /\ pc' = "sweep"
    /\ UNCHANGED <<world, rt, fifo, pending, refused, saved, unsaved, buf, cur, nhop,
                   ixLive>>

WakeMonitor ==
    /\ pc = "poll"
    /\ pending
    /\ pending' = FALSE
    /\ todo' = Known
    /\ pc' = "sweep"
    /\ UNCHANGED <<world, rt, fifo, refused, hosts, files, buf, cur, nhop, ixLive>>

WrongTimeout ==
    /\ pc = "poll"
    /\ ~ pending /\ fifo = <<>>
    /\ todo' = {}
    /\ pc' = "sweep"
    /\ UNCHANGED <<world, rt, fifo, pending, refused, hosts, files, buf, cur, nhop,
                   ixLive>>

\* poll timed out: the periodic sweep.
Timeout ==
    /\ pc = "poll"
    /\ ~ pending /\ fifo = <<>>
    /\ todo' = Known
    /\ pc' = "sweep"
    /\ UNCHANGED <<world, rt, fifo, pending, refused, hosts, files, buf, cur, nhop,
                   ixLive>>

WakeFifo ==
    /\ pc = "poll"
    /\ fifo # <<>>
    /\ buf' = fifo
    /\ fifo' = <<>>
    /\ pc' = "lines"
    /\ UNCHANGED <<world, rt, pending, refused, hosts, files, todo, cur, nhop, ixLive>>

\* The loop of reconcile_all, and its end.
Sweep ==
    /\ pc = "sweep"
    /\ IF todo = {}
         THEN pc' = "poll" /\ UNCHANGED <<todo, cur>>
         ELSE \E m \in todo : todo' = todo \ {m} /\ cur' = m /\ pc' = "read"
    /\ UNCHANGED <<world, rt, fifo, pending, refused, hosts, files, buf, nhop, ixLive>>

-----------------------------------------------------------------------------
(* evaluate(mac). *)

\* evaluate returns to the lines or to the sweep it was called from; a sweep
\* with nothing to do is the end of a handled batch of lines.
Return ==
    /\ pc' = IF buf = <<>> THEN "sweep" ELSE "lines"
    /\ cur' = None
    /\ nhop' = None
    /\ ixLive' = FALSE

\* "gua and nh == gua" disarms the probe; so does sending it once it is due.
Disarm(nh) ==
    \E due \in BOOLEAN :
        hosts' = [hosts EXCEPT ![cur].armed =
                    @ /\ ~ (HasPrefix /\ (nh = "gua" \/ due))]

WrongUpToDate(nh, h) == nh = None \/ h.nh # None

WrongUpToDateIfSame(nh, h) == nh = h.nh

\* "nh is None or nh == h["nh"]": no install is due.
UpToDate(nh, h) == nh = None \/ nh = h.nh

ReadNexthop ==
    /\ pc = "read"
    /\ LET h  == hosts[cur]
           nh == BestNexthop(h.iface, cur)
       IN  IF h = None
             THEN Return /\ UNCHANGED hosts
             ELSE IF ~ up[h.iface]
               THEN Return /\ UNCHANGED hosts
               ELSE /\ Disarm(nh)
                    /\ IF UpToDate(nh, h)
                         THEN Return
                         ELSE /\ nhop' = nh
                              /\ ixLive' = TRUE
                              /\ pc' = "install"
                              /\ UNCHANGED cur
    /\ UNCHANGED <<world, rt, fifo, pending, refused, files, buf, todo>>

\* The caller of install() records nh whatever happened.
Installed ==
    /\ hosts' = [hosts EXCEPT ![cur].nh = nhop]
    /\ Return

\* install(), the route.
Install ==
    /\ pc = "install"
    /\ \/ /\ ixLive
          /\ rt' = [rt EXCEPT ![hosts[cur].ip4] =
                      [iface |-> hosts[cur].iface, mac |-> cur, nh |-> nhop]]
          /\ pending' = TRUE
          /\ pc' = "unarp"
          /\ UNCHANGED <<refused, hosts, cur, nhop, ixLive>>
       \/ /\ ~ ixLive
          /\ Installed
          /\ UNCHANGED <<rt, pending, refused>>
       \/ /\ refused < MaxRefusals
          /\ refused' = refused + 1
          /\ Installed
          /\ UNCHANGED <<rt, pending>>
    /\ UNCHANGED <<world, fifo, files, buf, todo>>

\* install(), the IPv4 neighbour the kernel may have formed.
DropArp ==
    /\ pc = "unarp"
    /\ IF ixLive THEN Unarp(hosts[cur].ip4, hosts[cur].iface) ELSE UNCHANGED arp
    /\ Installed
    /\ UNCHANGED <<tool, leases, usable, up, rt, fifo, pending, refused, files, buf, todo>>

-----------------------------------------------------------------------------
(* handle_line. *)

LineDone == pc' = IF Len(buf) = 1 THEN "poll" ELSE "lines"

\* Without an interface the line has three fields and is ignored.
DropLine ==
    /\ pc = "lines"
    /\ Head(buf).iface = NoIface
    /\ buf' = Tail(buf)
    /\ LineDone
    /\ UNCHANGED <<world, rt, fifo, pending, refused, hosts, files, todo, cur, nhop,
                   ixLive>>

\* The line says something else of its host than the record.
Changed(h, line) == h.iface # line.iface \/ h.ip4 # line.ip4

\* on_lease, the withdrawal of a changed lease's old route.
OnLease ==
    /\ pc = "lines"
    /\ LET line == Head(buf)
           h    == hosts[line.mac]
       IN  /\ line.iface # NoIface
           /\ line.act \in {"add", "old"}
           /\ IF h = None
                THEN UNCHANGED <<rt, pending, refused>>
                ELSE IF Changed(h, line)
                  THEN WithdrawRoute(h.ip4)
                  ELSE UNCHANGED <<rt, pending, refused>>
    /\ pc' = "record"
    /\ UNCHANGED <<world, fifo, hosts, files, buf, todo, cur, nhop, ixLive>>

\* on_lease, the record.
Record ==
    /\ pc = "record"
    /\ LET line == Head(buf)
           h    == hosts[line.mac]
           new  == IF h = None THEN TRUE ELSE Changed(h, line)
       IN  /\ hosts' = [hosts EXCEPT ![line.mac] =
                          [iface |-> line.iface, ip4 |-> line.ip4,
                           nh |-> IF new THEN None ELSE h.nh, armed |-> TRUE]]
           /\ cur' = line.mac
    /\ pc' = "persist"
    /\ UNCHANGED <<world, rt, fifo, pending, refused, files, buf, todo, nhop, ixLive>>

WrongForget(m) == UNCHANGED hosts

Forget(m) == hosts' = [hosts EXCEPT ![m] = None]

\* on_release: the record of the MAC goes, whatever address the line names.
OnRelease ==
    /\ pc = "lines"
    /\ LET line == Head(buf)
           h    == hosts[line.mac]
       IN  /\ line.iface # NoIface
           /\ line.act = "del"
           /\ IF h = None
                THEN /\ buf' = Tail(buf)
                     /\ LineDone
                     /\ UNCHANGED <<rt, pending, refused, hosts>>
                ELSE /\ WithdrawRoute(h.ip4)
                     /\ Forget(line.mac)
                     /\ pc' = "persist"
                     /\ UNCHANGED buf
    /\ UNCHANGED <<world, fifo, files, todo, cur, nhop, ixLive>>

\* What persist() writes of the record of m.
Saved(m) == IF hosts[m] = None THEN None
            ELSE [iface |-> hosts[m].iface, ip4 |-> hosts[m].ip4]

WrongPersisted == [m \in Macs |->
                     IF hosts[m] # None /\ RouteOf(m).nh = None THEN None ELSE Saved(m)]

Persisted == [m \in Macs |-> Saved(m)]

\* The file is written aside and renamed, so a reader sees all of it; an
\* error is logged, and the next write has another try.
Persist ==
    /\ pc = "persist"
    /\ \/ saved' = Persisted /\ unsaved' = FALSE
       \/ MayFailIo /\ saved # Persisted /\ unsaved' = TRUE /\ UNCHANGED saved
    /\ buf' = Tail(buf)
    /\ IF cur # None THEN pc' = "read" ELSE LineDone
    /\ UNCHANGED <<world, rt, fifo, pending, refused, hosts, blind, todo, cur, nhop, ixLive>>

-----------------------------------------------------------------------------

\* SIGTERM, SIGKILL or a crash: no route is withdrawn; records and the lines
\* already in the pipe are gone.
EndDaemon ==
    /\ MayEnd
    /\ pc # "down"
    /\ pc' = "down"
    /\ hosts' = [m \in Macs |-> None]
    /\ buf' = <<>>
    /\ fifo' = <<>>
    /\ todo' = {}
    /\ cur' = None
    /\ nhop' = None
    /\ ixLive' = FALSE
    /\ unsaved' = FALSE
    /\ blind' = FALSE
    /\ UNCHANGED <<world, rt, pending, refused, saved>>

Daemon ==
    \/ Start
    \/ Restore
    \/ WakeMonitor
    \/ WakeFifo
    \/ Timeout
    \/ Sweep
    \/ ReadNexthop
    \/ Install
    \/ DropArp
    \/ DropLine
    \/ OnLease
    \/ Record
    \/ OnRelease
    \/ Persist

DaemonNext == Daemon \/ EndDaemon
=============================================================================
